------------------------- MODULE RuntimeConfig_proofs -------------------------
(***************************************************************************)
(* Proofs about RuntimeConfig, for any number of messages and revisions.   *)
(*                                                                         *)
(* The handlers are operators from world to world, so the invariant is a   *)
(* predicate on worlds (Good), with one lemma per operator.  Between two   *)
(* operators of one handler only a part of it holds: a revision may be     *)
(* pending for an idle session (Idle does not hold), and the loop of       *)
(* convergeRuntimeConfig is under way without an update (Asking does not). *)
(***************************************************************************)
EXTENDS RuntimeConfig, TLAPS

MaybeRevisions == Revisions \cup {None}

Owners == [phase : {"none", "opening", "starting", "running"}, base : MaybeRevisions,
           runs : MaybeRevisions, busy : BOOLEAN, stopping : BOOLEAN]

Worlds == [desired : Revisions, pending : MaybeRevisions, applied : MaybeRevisions,
           owner : Owners, fenced : BOOLEAN,
           apply : [on : BOOLEAN, rev : MaybeRevisions, ends : BOOLEAN],
           fate : [Messages -> {"new", "held", "sent"}]]

\* No revision is newer than the desired one; l is the ghost `late`.
Bounded(w, l) ==
    /\ w.pending \in {None, w.desired}
    /\ \A r \in {w.applied, w.owner.base, w.owner.runs, w.apply.rev, l} : r <= w.desired

\* What is believed applied is what the backend runs with.
Effective(w) ==
    Attached(w) /\ ~w.owner.stopping =>
        /\ w.applied # None /\ w.owner.runs = w.applied
        /\ w.owner.base # None /\ launch[w.owner.base] = launch[w.applied]

\* A session is opened with the newest revision, or knows that there is a newer one.
Opening(w, l) ==
    /\ w.owner.phase = "none" => w.owner = NoOwner
    /\ w.owner.phase = "opening" =>
          /\ ~w.owner.stopping /\ w.owner.base # None /\ w.owner.runs = w.owner.base
          /\ w.desired \in {w.owner.base, w.pending, l}

\* A running session is fenced only when it is being stopped.
Fences(w) == w.owner.phase = "running" /\ w.fenced => w.owner.stopping

Core(w, l) == Bounded(w, l) /\ Effective(w) /\ Opening(w, l) /\ Fences(w)

\* An update under way can be taken by the backend there is.
Asking(w) ==
    /\ w.apply.on => Attached(w)
    /\ w.apply.on /\ w.apply.rev = None => w.owner.stopping
    /\ w.apply.ends => w.apply.rev # None
    /\ w.apply.rev # None =>
          /\ w.apply.on
          /\ ~w.owner.stopping => launch[w.applied] = launch[w.apply.rev]

\* With no revision pending the newest one is applied, or came too late.
Newest(w, l) ==
    Attached(w) /\ ~w.apply.on /\ ~w.owner.stopping /\ w.pending = None =>
        w.desired \in {w.applied, l}

\* Nothing waits at an idle session.
Idle(w) ==
    w.owner.phase = "running" /\ ~w.owner.busy /\ ~w.apply.on /\ ~w.owner.stopping =>
        w.pending = None /\ Inbox(w) = {}

Good(w, l) == w \in Worlds /\ Core(w, l) /\ Asking(w) /\ Newest(w, l) /\ Idle(w)

Converges ==
    /\ launch \in [Revisions -> {"a", "b"}]
    /\ late \in MaybeRevisions
    /\ Good(World, late)
-----------------------------------------------------------------------------
(* Sending.                                                                *)

\* What a change of some fields leaves and changes.
Same(v, w) ==
    /\ v.desired = w.desired /\ v.pending = w.pending /\ v.applied = w.applied
    /\ v.fenced = w.fenced /\ v.apply = w.apply
    /\ v.owner.phase = w.owner.phase /\ v.owner.base = w.owner.base
    /\ v.owner.runs = w.owner.runs /\ v.owner.stopping = w.owner.stopping

\* A drain changes the turn and the messages only: they are all sent, or the
\* session may not be sent to.
LEMMA DrainWhat ==
  ASSUME NEW w \in Worlds
  PROVE  /\ Drain(w) \in Worlds /\ Same(Drain(w), w)
         /\ Drain(w).owner.busy \/ Drain(w) = w
         /\ ~w.fenced => Inbox(Drain(w)) = {}
<1>1. CASE w.fenced \/ Inbox(w) = {}
  BY <1>1 DEF Drain, Same
<1>2. CASE ~(w.fenced \/ Inbox(w) = {})
  <2> DEFINE fate2 == [m \in Messages |-> IF w.fate[m] = "held" THEN "sent" ELSE w.fate[m]]
             owner2 == [w.owner EXCEPT !.busy = TRUE]
  <2>1. Drain(w) = [[w EXCEPT !.fate = fate2] EXCEPT !.owner = owner2]
    BY <1>2 DEF Drain, Worlds, Owners
  <2>2. owner2 \in Owners /\ owner2.busy
    BY DEF Worlds, Owners
  <2>3. fate2 \in [Messages -> {"new", "held", "sent"}] /\ \A m \in Messages : fate2[m] # "held"
    BY DEF Worlds
  <2>4. owner2.phase = w.owner.phase /\ owner2.base = w.owner.base
        /\ owner2.runs = w.owner.runs /\ owner2.stopping = w.owner.stopping
    BY DEF Worlds, Owners
  <2> HIDE DEF fate2, owner2
  <2>5. Drain(w) \in Worlds /\ Drain(w).fate = fate2 /\ Drain(w).owner = owner2
    BY <2>1, <2>2, <2>3 DEF Worlds
  <2>6. Same(Drain(w), w)
    BY <2>1, <2>4, <2>5 DEF Worlds, Same
  <2> QED BY <2>2, <2>3, <2>5, <2>6 DEF Inbox
<1> QED BY <1>1, <1>2

\* Worlds that differ in the turn and the messages share three of the invariants.
LEMMA SameKeeps ==
  ASSUME NEW v \in Worlds, NEW w \in Worlds, NEW l, Same(v, w)
  PROVE  /\ Bounded(w, l) => Bounded(v, l)
         /\ Effective(w) => Effective(v)
         /\ Attached(w) /\ Opening(w, l) => Opening(v, l)
         /\ Fences(w) => Fences(v)
         /\ Asking(w) => Asking(v)
         /\ Newest(w, l) => Newest(v, l)
         /\ Attached(v) = Attached(w)
<1>1. Bounded(w, l) => Bounded(v, l)
  BY DEF Same, Bounded
<1>2. Effective(w) => Effective(v)
  BY DEF Same, Effective, Attached
<1>3. Attached(w) /\ Opening(w, l) => Opening(v, l)
  BY DEF Same, Opening, Attached
<1>4. Fences(w) => Fences(v)
  BY DEF Same, Fences
<1>5. Asking(w) => Asking(v)
  BY DEF Same, Asking, Attached
<1>6. Newest(w, l) => Newest(v, l)
  BY DEF Same, Newest, Attached
<1>7. Attached(v) = Attached(w)
  BY DEF Same, Attached
<1> QED BY <1>1, <1>2, <1>3, <1>4, <1>5, <1>6, <1>7

\* With nothing pending, or a turn under way, a drain leaves nothing at an idle session.
LEMMA DrainGood ==
  ASSUME NEW w \in Worlds, NEW l, Attached(w), Core(w, l), Asking(w), Newest(w, l),
         \/ w.pending = None \/ w.owner.stopping \/ w.apply.on
         \/ w.owner.phase # "running" \/ w.owner.busy
  PROVE  Good(Drain(w), l)
<1>1. /\ Drain(w) \in Worlds /\ Same(Drain(w), w)
      /\ Drain(w).owner.busy \/ Drain(w) = w
      /\ ~w.fenced => Inbox(Drain(w)) = {}
  BY DrainWhat
<1>2. Core(Drain(w), l) /\ Asking(Drain(w)) /\ Newest(Drain(w), l)
  BY <1>1, SameKeeps DEF Core
<1>3. Idle(Drain(w))
  BY <1>1 DEF Idle, Core, Fences, Same
<1> QED BY <1>1, <1>2, <1>3 DEF Good

\* The completion of a turn, with nothing pending or a stop to come.
LEMMA CompleteGood ==
  ASSUME NEW w \in Worlds, NEW l, Attached(w), Core(w, l), Newest(w, l),
         Asking([w EXCEPT !.apply.ends = FALSE]),
         w.pending = None \/ w.owner.stopping \/ w.apply.on \/ w.owner.phase # "running"
  PROVE  Good(Complete(w), l)
<1> DEFINE v == [w EXCEPT !.owner.busy = FALSE, !.apply.ends = FALSE]
           u == [w EXCEPT !.apply.ends = FALSE]
<1>1. u \in Worlds /\ v \in Worlds
  BY DEF Worlds, Owners
<1>2. Same(v, u)
  BY DEF Same, Worlds, Owners
<1>3. /\ u.desired = w.desired /\ u.pending = w.pending /\ u.applied = w.applied
      /\ u.fenced = w.fenced /\ u.owner = w.owner
      /\ u.apply.on = w.apply.on /\ u.apply.rev = w.apply.rev
  BY DEF Worlds
<1>4. Complete(w) = Drain(v)
  BY DEF Complete
<1> HIDE DEF u, v
<1>5. Attached(u) /\ Core(u, l) /\ Newest(u, l)
  BY <1>3 DEF Attached, Core, Bounded, Effective, Opening, Fences, Newest
<1>6. Asking(u)
  BY DEF u
<1>7. Attached(v) /\ Core(v, l) /\ Newest(v, l) /\ Asking(v)
  BY <1>1, <1>2, <1>5, <1>6, SameKeeps DEF Core
<1>8. v.pending = None \/ v.owner.stopping \/ v.apply.on \/ v.owner.phase # "running"
  BY <1>2, <1>3 DEF Same
<1> QED BY <1>1, <1>4, <1>7, <1>8, DrainGood
-----------------------------------------------------------------------------
(* Revisions.                                                              *)

\* After a refusal the session is being stopped, whatever it runs with.
LEMMA RefusedGood ==
  ASSUME NEW w \in Worlds, NEW l, Attached(w), Bounded(w, l)
  PROVE  Good(Refused(w), l)
<1> DEFINE v == [w EXCEPT !.fenced = TRUE, !.owner.stopping = TRUE, !.apply.rev = None]
           u == [v EXCEPT !.apply.on = FALSE]
<1>1. v \in Worlds /\ u \in Worlds
  BY DEF Worlds, Owners, MaybeRevisions
<1>2. /\ v.desired = w.desired /\ v.pending = w.pending /\ v.applied = w.applied
      /\ v.owner.phase = w.owner.phase /\ v.owner.base = w.owner.base
      /\ v.owner.runs = w.owner.runs /\ v.owner.stopping
      /\ v.apply.on = w.apply.on /\ v.apply.rev = None /\ v.apply.ends = w.apply.ends
  BY DEF Worlds, Owners
<1>3. /\ u.desired = w.desired /\ u.pending = w.pending /\ u.applied = w.applied
      /\ u.owner.phase = w.owner.phase /\ u.owner.base = w.owner.base
      /\ u.owner.runs = w.owner.runs /\ u.owner.stopping
      /\ u.apply.on = FALSE /\ u.apply.rev = None
  BY DEF Worlds, Owners
<1>4. Refused(w) = IF w.apply.ends THEN Complete(u) ELSE v
  BY DEF Refused
<1>5. [u EXCEPT !.apply.ends = FALSE].apply = [on |-> FALSE, rev |-> None, ends |-> FALSE]
  BY <1>1, <1>3 DEF Worlds
<1> HIDE DEF u, v
<1>6. None <= w.desired
  BY DEF None, Worlds, Revisions
<1>7. Attached(v) /\ Core(v, l) /\ Newest(v, l) /\ Idle(v)
  BY <1>2, <1>6 DEF Attached, Core, Bounded, Effective, Opening, Fences, Newest, Idle
<1>8. Attached(u) /\ Core(u, l) /\ Newest(u, l)
  BY <1>3, <1>6 DEF Attached, Core, Bounded, Effective, Opening, Fences, Newest
<1>9. CASE w.apply.ends
  <2>1. Asking([u EXCEPT !.apply.ends = FALSE])
    BY <1>5 DEF Asking
  <2> QED BY <1>1, <1>3, <1>4, <1>8, <1>9, <2>1, CompleteGood
<1>10. CASE ~w.apply.ends
  <2>1. Asking(v)
    BY <1>2, <1>7, <1>10 DEF Asking
  <2> QED BY <1>1, <1>4, <1>7, <1>10, <2>1 DEF Good
<1> QED BY <1>9, <1>10

\* A round of the loop starts with no update under way; it ends at once only when the
\* newest revision is applied, and then nothing may be left at an idle session.
LEMMA ConvergeGood ==
  ASSUME NEW w \in Worlds, NEW l, Attached(w), Core(w, l), w.apply.rev = None,
         \/ w.applied = None \/ w.applied < w.desired
         \/ w.apply.ends \/ w.owner.phase # "running" \/ w.owner.busy \/ w.owner.stopping
         \/ Inbox(w) = {}
  PROVE  Good(Converge(w), l)
<1> DEFINE target == IF w.pending # None THEN w.pending ELSE w.desired
           over == [w EXCEPT !.apply.on = FALSE, !.apply.rev = None, !.pending = None]
           asks == [w EXCEPT !.apply.on = TRUE, !.apply.rev = target]
           fails == [w EXCEPT !.apply.on = TRUE]
<1>1. target = w.desired
  BY DEF Core, Bounded
<1>2. Converge(w) =
        IF w.applied # None /\ target <= w.applied
        THEN IF w.apply.ends THEN Complete(over) ELSE over
        ELSE IF w.applied # None /\ launch[w.applied] = launch[target] THEN asks
        ELSE Refused(fails)
  BY Zenon DEF Converge
<1> HIDE DEF target
<1>3. /\ over.desired = w.desired /\ over.pending = None /\ over.applied = w.applied
      /\ over.fenced = w.fenced /\ over.owner = w.owner /\ over.fate = w.fate
      /\ over.apply.on = FALSE /\ over.apply.rev = None /\ over.apply.ends = w.apply.ends
      /\ [over EXCEPT !.apply.ends = FALSE].apply
            = [on |-> FALSE, rev |-> None, ends |-> FALSE]
  BY DEF Worlds
<1>4. /\ asks.desired = w.desired /\ asks.pending = w.pending /\ asks.applied = w.applied
      /\ asks.fenced = w.fenced /\ asks.owner = w.owner /\ asks.fate = w.fate
      /\ asks.apply.on /\ asks.apply.rev = w.desired
  BY <1>1 DEF Worlds
<1>5. /\ fails.desired = w.desired /\ fails.pending = w.pending /\ fails.applied = w.applied
      /\ fails.owner = w.owner /\ fails.apply.rev = None
  BY DEF Worlds
<1>6. over \in Worlds /\ asks \in Worlds /\ fails \in Worlds
  BY <1>1 DEF Worlds, MaybeRevisions
<1> HIDE DEF over, asks, fails
<1>7. w.desired \in Nat /\ None <= w.desired /\ w.desired # None
  BY RevisionAssumption DEF Worlds, Revisions, None
<1>8. CASE w.applied # None /\ w.desired <= w.applied
  <2>1. w.applied = w.desired
    BY <1>7, <1>8 DEF Core, Bounded, Worlds, MaybeRevisions, Revisions
  <2>2. Attached(over) /\ Core(over, l)
    BY <1>3, <1>7 DEF Core, Attached, Bounded, Effective, Opening, Fences
  <2>3. Newest(over, l)
    BY <2>1, <1>3 DEF Newest
  <2>4. CASE w.apply.ends
    <3>1. Asking([over EXCEPT !.apply.ends = FALSE])
      BY <1>3 DEF Asking
    <3> QED BY <1>1, <1>2, <1>3, <1>6, <1>8, <2>2, <2>3, <2>4, <3>1, CompleteGood
  <2>5. CASE ~w.apply.ends
    <3>1. Asking(over)
      BY <1>3, <2>5 DEF Asking
    <3>2. Inbox(over) = Inbox(w)
      BY <1>3 DEF Inbox
    <3>3. ~(w.applied = None \/ w.applied < w.desired)
      BY <1>7, <1>8, <2>1
    <3>4. Idle(over)
      BY <1>3, <2>5, <3>2, <3>3 DEF Idle
    <3>5. Good(over, l)
      BY <1>6, <2>2, <2>3, <3>1, <3>4 DEF Good
    <3> QED BY <1>1, <1>2, <1>8, <2>5, <3>5
  <2> QED BY <2>4, <2>5
<1>9. CASE w.applied # None /\ ~(w.desired <= w.applied) /\ launch[w.applied] = launch[w.desired]
  <2>1. Attached(asks) /\ Core(asks, l)
    BY <1>4, <1>7 DEF Core, Attached, Bounded, Effective, Opening, Fences
  <2>2. Asking(asks)
    BY <1>4, <1>7, <1>9, <2>1 DEF Asking
  <2>3. Newest(asks, l) /\ Idle(asks)
    BY <1>4 DEF Newest, Idle
  <2>4. Good(asks, l)
    BY <1>6, <2>1, <2>2, <2>3 DEF Good
  <2> QED BY <1>1, <1>2, <1>9, <2>4
<1>10. CASE /\ ~(w.applied # None /\ w.desired <= w.applied)
            /\ ~(w.applied # None /\ launch[w.applied] = launch[w.desired])
  <2>1. Attached(fails) /\ Bounded(fails, l)
    BY <1>5 DEF Attached, Core, Bounded
  <2>2. Good(Refused(fails), l)
    BY <1>6, <2>1, RefusedGood
  <2> QED BY <1>1, <1>2, <1>10, <2>2
<1> QED BY <1>8, <1>9, <1>10

\* A revision that was taken is applied; a newer one is handled by another round.
LEMMA TakenGood ==
  ASSUME NEW w \in Worlds, NEW l, Good(w, l), w.apply.rev # None
  PROVE  Good(Taken(w), l)
<1> DEFINE r == w.apply.rev
           v == [w EXCEPT !.owner.runs = r, !.applied = r, !.apply.rev = None,
                          !.pending = IF @ = r THEN None ELSE @]
           done == [v EXCEPT !.apply.on = FALSE]
<1>1. Taken(w) =
        IF w.desired > r THEN Converge(v)
        ELSE IF w.apply.ends THEN Complete(done)
        ELSE IF w.owner.phase = "running" /\ ~w.owner.busy THEN Drain(done)
        ELSE done
  BY Zenon DEF Taken
<1>2. r \in Revisions /\ r # None
  BY DEF Worlds, MaybeRevisions
<1>3. /\ v.desired = w.desired /\ v.pending = (IF w.pending = r THEN None ELSE w.pending)
      /\ v.applied = r /\ v.fenced = w.fenced
      /\ v.owner.phase = w.owner.phase /\ v.owner.base = w.owner.base
      /\ v.owner.runs = r /\ v.owner.stopping = w.owner.stopping
      /\ v.owner.busy = w.owner.busy
      /\ v.apply.on = w.apply.on /\ v.apply.rev = None /\ v.apply.ends = w.apply.ends
  BY DEF Worlds, Owners
<1>4. /\ done.desired = w.desired /\ done.pending = v.pending
      /\ done.applied = r /\ done.fenced = w.fenced /\ done.owner = v.owner
      /\ done.apply.on = FALSE /\ done.apply.rev = None /\ done.apply.ends = w.apply.ends
      /\ [done EXCEPT !.apply.ends = FALSE].apply
            = [on |-> FALSE, rev |-> None, ends |-> FALSE]
  BY DEF Worlds, Owners
<1>5. v \in Worlds
  BY <1>2 DEF Worlds, Owners, MaybeRevisions
<1>6. done \in Worlds
  BY <1>5 DEF Worlds
<1> HIDE DEF v, done
<1>7. /\ Attached(w) /\ r <= w.desired
      /\ ~w.owner.stopping => launch[w.applied] = launch[r]
  BY DEF Good, Asking, Core, Bounded
<1>8. Attached(v) /\ Core(v, l)
  <2>1. Attached(v) /\ Bounded(v, l)
    BY <1>3, <1>7 DEF Attached, Good, Core, Bounded, None, Worlds, Revisions
  <2>2. Effective(v)
    BY <1>2, <1>3, <1>7 DEF Good, Core, Effective, Attached
  <2>3. Opening(v, l)
    BY <2>1 DEF Opening, Attached
  <2>4. Fences(v)
    BY <1>3 DEF Good, Core, Fences
  <2> QED BY <2>1, <2>2, <2>3, <2>4 DEF Core
<1>9. CASE w.desired > r
  <2>1. v.applied < v.desired
    BY <1>2, <1>3, <1>9 DEF Worlds, Revisions
  <2>2. Good(Converge(v), l)
    BY <1>3, <1>5, <1>8, <2>1, ConvergeGood
  <2> QED BY <1>1, <1>9, <2>2
<1>10. CASE ~(w.desired > r)
  <2>1. w.desired = r
    BY <1>2, <1>7, <1>10 DEF Worlds, Revisions
  <2>2. done.pending = None
    BY <1>3, <1>4, <2>1 DEF Good, Core, Bounded
  <2>3. Attached(done) /\ Core(done, l)
    BY <1>3, <1>4, <1>8 DEF Attached, Core, Bounded, Effective, Opening, Fences
  <2>4. Newest(done, l)
    BY <1>4, <2>1 DEF Newest
  <2>5. CASE w.apply.ends
    <3>1. Asking([done EXCEPT !.apply.ends = FALSE])
      BY <1>4 DEF Asking
    <3>2. Good(Complete(done), l)
      BY <1>6, <2>2, <2>3, <2>4, <3>1, CompleteGood
    <3> QED BY <1>1, <1>10, <2>5, <3>2
  <2>6. CASE ~w.apply.ends
    <3>1. Asking(done)
      BY <1>4, <2>6 DEF Asking
    <3>2. Good(Drain(done), l)
      BY <1>6, <2>2, <2>3, <2>4, <3>1, DrainGood
    <3>3. CASE w.owner.phase = "running" /\ ~w.owner.busy
      BY <1>1, <1>10, <2>6, <3>2, <3>3
    <3>4. CASE ~(w.owner.phase = "running" /\ ~w.owner.busy)
      <4>1. Idle(done)
        BY <1>3, <1>4, <3>4 DEF Idle
      <4>2. Good(done, l)
        BY <1>6, <2>3, <2>4, <3>1, <4>1 DEF Good
      <4> QED BY <1>1, <1>10, <2>6, <3>4, <4>2
    <3> QED BY <3>3, <3>4
  <2> QED BY <2>5, <2>6
<1> QED BY <1>9, <1>10

\* A newer revision is pending from then on.
LEMMA AcceptWhat ==
  ASSUME NEW w \in Worlds, NEW l \in MaybeRevisions, NEW r \in Revisions, Good(w, l)
  PROVE  LET v == Accept(w, r)
         IN  /\ v \in Worlds /\ Core(v, l) /\ Asking(v) /\ Newest(v, l)
             /\ v.owner = w.owner /\ v.fenced = w.fenced /\ v.apply = w.apply
             /\ v.fate = w.fate /\ v.applied = w.applied
             /\ v = w \/ (v.desired = r /\ v.pending = r /\ w.desired < r)
<1> DEFINE u == [w EXCEPT !.desired = r, !.pending = r]
<1>1. Accept(w, r) = IF r > w.desired THEN u ELSE w
  BY DEF Accept
<1>2. CASE r > w.desired
  <2>1. /\ u.desired = r /\ u.pending = r /\ u.owner = w.owner /\ u.fenced = w.fenced
        /\ u.apply = w.apply /\ u.fate = w.fate /\ u.applied = w.applied
    BY DEF Worlds
  <2>2. u \in Worlds
    BY DEF Worlds, MaybeRevisions
  <2>3. r \in Nat /\ w.desired \in Nat /\ w.desired < r /\ r # None
    BY <1>2, RevisionAssumption DEF Worlds, Revisions, None
  <2> HIDE DEF u
  <2>4. Bounded(u, l)
    <3> SUFFICES ASSUME NEW s \in {u.applied, u.owner.base, u.owner.runs, u.apply.rev, l}
                 PROVE  s <= u.desired
      BY <2>1 DEF Bounded
    <3>1. s <= w.desired
      BY <2>1 DEF Good, Core, Bounded
    <3>2. s \in Int
      BY <2>2 DEF Worlds, Owners, MaybeRevisions, Revisions, None
    <3> QED BY <2>1, <2>3, <3>1, <3>2
  <2>5. Effective(u) /\ Opening(u, l) /\ Fences(u)
    BY <2>1 DEF Good, Core, Effective, Opening, Fences, Attached
  <2>6. Asking(u) /\ Newest(u, l)
    BY <2>1, <2>3 DEF Good, Asking, Newest, Attached
  <2> QED BY <1>1, <1>2, <2>1, <2>2, <2>3, <2>4, <2>5, <2>6 DEF Core
<1>3. CASE ~(r > w.desired)
  BY <1>1, <1>3 DEF Good
<1> QED BY <1>2, <1>3
-----------------------------------------------------------------------------
(* Messages.                                                               *)

\* A session is opened with the newest revision.
LEMMA SpawnGood ==
  ASSUME NEW w \in Worlds, NEW l, NEW m \in Messages,
         Bounded(w, l), Asking(w), ~Attached(w)
  PROVE  Good(Spawn(w, m), l)
<1> DEFINE o == [NoOwner EXCEPT !.phase = "opening", !.base = w.desired, !.runs = w.desired]
           f == [w.fate EXCEPT ![m] = "sent"]
           v == Spawn(w, m)
<1>0. NoOwner \in Owners /\ ~NoOwner.stopping
  BY DEF NoOwner, Owners, MaybeRevisions
<1>1. /\ o \in Owners
      /\ o.phase = "opening" /\ o.base = w.desired /\ o.runs = w.desired /\ ~o.stopping
  BY <1>0 DEF Worlds, Owners, MaybeRevisions
<1>2. v = [w EXCEPT !.fate = f, !.owner = o]
  BY Zenon DEF Spawn
<1>3. f \in [Messages -> {"new", "held", "sent"}] /\ o \in Owners
  BY <1>1 DEF Worlds
<1> HIDE DEF f, o
<1>4. v \in Worlds
  BY <1>2, <1>3 DEF Worlds
<1>5. /\ v.desired = w.desired /\ v.pending = w.pending /\ v.applied = w.applied
      /\ v.owner = o /\ v.apply = w.apply
  BY <1>2 DEF Worlds
<1> HIDE DEF v
<1>6. w.desired \in Nat /\ w.desired # None
  BY RevisionAssumption DEF Worlds, Revisions, None
<1>7. ~w.apply.on /\ w.apply.rev = None /\ ~w.apply.ends
  BY DEF Asking
<1>8. Core(v, l)
  BY <1>1, <1>5, <1>6 DEF Core, Bounded, Effective, Opening, Fences, Attached
<1>9. Asking(v) /\ Newest(v, l) /\ Idle(v)
  BY <1>1, <1>5, <1>7 DEF Asking, Newest, Idle, Attached
<1> QED BY <1>4, <1>8, <1>9 DEF Good, v

\* Behind a pending revision a message waits, at an idle session it is sent.
LEMMA DeliverGood ==
  ASSUME NEW w \in Worlds, NEW l, NEW m \in Messages, Good(w, l)
  PROVE  Good(Deliver(w, m), l)
<1> DEFINE held == [w EXCEPT !.fate[m] = "held"]
<1>1. held \in Worlds
  BY DEF Worlds
<1>2. /\ held.desired = w.desired /\ held.pending = w.pending /\ held.applied = w.applied
      /\ held.owner = w.owner /\ held.fenced = w.fenced /\ held.apply = w.apply
  BY DEF Worlds
<1>3. Deliver(w, m) = CASE Attached(w) /\ w.pending # None -> held
                        [] w.owner.phase = "none" -> Spawn(held, m)
                        [] w.owner.phase = "running" /\ w.pending = None -> Drain(held)
                        [] OTHER -> held
  BY DEF Deliver
<1> HIDE DEF held
<1>4. /\ Core(held, l) /\ Asking(held) /\ Newest(held, l)
      /\ Attached(held) = Attached(w)
  BY <1>2 DEF Good, Core, Bounded, Effective, Opening, Fences, Asking, Newest, Attached
<1>5. CASE w.owner.phase = "none"
  <2>1. ~Attached(w) /\ ~Attached(held)
    BY <1>4, <1>5 DEF Attached
  <2>2. Good(Spawn(held, m), l)
    BY <1>1, <1>4, <2>1, SpawnGood DEF Core
  <2>3. Deliver(w, m) = Spawn(held, m)
    BY <1>3, <1>5, <2>1
  <2> QED BY <2>2, <2>3
<1>6. CASE w.owner.phase = "running" /\ w.pending = None
  <2>1. Attached(w) /\ Attached(held)
    BY <1>4, <1>6 DEF Attached
  <2>2. Good(Drain(held), l)
    BY <1>1, <1>2, <1>4, <1>6, <2>1, DrainGood
  <2>3. Deliver(w, m) = Drain(held)
    BY <1>3, <1>6, <2>1
  <2> QED BY <2>2, <2>3
<1>7. CASE w.owner.phase # "none" /\ ~(w.owner.phase = "running" /\ w.pending = None)
  <2>1. Idle(held)
    BY <1>2, <1>7 DEF Good, Idle
  <2>2. Good(held, l)
    BY <1>1, <1>4, <2>1 DEF Good
  <2>3. Deliver(w, m) = held
    BY <1>3, <1>7
  <2> QED BY <2>2, <2>3
<1> QED BY <1>5, <1>6, <1>7
-----------------------------------------------------------------------------
(* The steps.                                                              *)

LEMMA WorldType == Converges => World \in Worlds /\ late \in MaybeRevisions
  BY DEF Converges, Good

\* An action that leads to a good world keeps the invariant.
LEMMA BecomesGood ==
  ASSUME launch \in [Revisions -> {"a", "b"}], launch' = launch,
         NEW w, NEW l \in MaybeRevisions, Good(w, l), Becomes(w), late' = l
  PROVE  Converges'
<1>1. w \in Worlds
  BY DEF Good
<1>2. World' = w
  BY <1>1 DEF World, Becomes, Worlds
<1>3. Good(World, late)'
  BY <1>2 DEF Good, Core, Bounded, Effective, Opening, Fences, Asking, Newest, Idle,
              Attached, Inbox, Worlds
<1> QED BY <1>3 DEF Converges

\* The session ends with an exit event.
LEMMA ExitsGood ==
  ASSUME launch \in [Revisions -> {"a", "b"}], launch' = launch,
         NEW w \in Worlds, late \in MaybeRevisions, late' = late,
         Bounded(w, late), w.owner = NoOwner, Asking(w), Exits(w)
  PROVE  Converges'
<1>1. ~Attached(w)
  BY DEF Attached, NoOwner
<1>2. CASE Inbox(w) = {}
  <2> DEFINE v == [w EXCEPT !.fenced = FALSE]
  <2>1. /\ v \in Worlds
        /\ v.desired = w.desired /\ v.pending = w.pending /\ v.applied = w.applied
        /\ v.owner = w.owner /\ v.apply = w.apply
    BY DEF Worlds
  <2>2. Becomes(v)
    BY <1>2 DEF Exits
  <2> HIDE DEF v
  <2>3. v.owner.phase = "none"
    BY <2>1 DEF NoOwner
  <2>4. Core(v, late)
    BY <2>1, <2>3 DEF Core, Bounded, Effective, Opening, Fences, Attached
  <2>5. Asking(v) /\ Newest(v, late) /\ Idle(v)
    BY <1>1, <2>1, <2>3 DEF Asking, Newest, Idle, Attached
  <2>6. Good(v, late)
    BY <2>1, <2>4, <2>5 DEF Good
  <2> QED BY <2>2, <2>6, BecomesGood
<1>3. CASE Inbox(w) # {}
  <2>1. PICK m \in Inbox(w) : Becomes(Spawn(w, m))
    BY <1>3 DEF Exits
  <2>2. Good(Spawn(w, m), late)
    BY <1>1, SpawnGood DEF Inbox
  <2> QED BY <2>1, <2>2, BecomesGood
<1> QED BY <1>2, <1>3

LEMMA Initially == Init => Converges
<1> SUFFICES ASSUME Init PROVE Converges
  OBVIOUS
<1>1. /\ World.desired = 0 /\ World.pending = None /\ World.applied = None
      /\ World.owner = NoOwner /\ World.fenced = FALSE /\ World.apply = NoApply
      /\ World.fate = [m \in Messages |-> "new"]
  BY DEF Init, World
<1>2. 0 \in Revisions
  BY RevisionAssumption DEF Revisions
<1>3. World \in Worlds
  BY <1>2 DEF Init, World, Worlds, Owners, NoOwner, NoApply, MaybeRevisions
<1>4. /\ World.owner.phase = "none" /\ World.owner.base = None /\ World.owner.runs = None
      /\ ~World.apply.on /\ World.apply.rev = None /\ ~World.apply.ends
  BY <1>1 DEF NoOwner, NoApply
<1>5. Core(World, late)
  BY <1>1, <1>4 DEF Init, Core, Bounded, Effective, Opening, Fences, Attached, None
<1>6. Asking(World) /\ Newest(World, late) /\ Idle(World)
  BY <1>4 DEF Asking, Newest, Idle, Attached
<1> QED BY <1>3, <1>5, <1>6 DEF Init, Converges, Good, MaybeRevisions

LEMMA RemindStep ==
  ASSUME Converges, NEW m \in Messages, Remind(m)
  PROVE  Converges'
<1>1. World \in Worlds /\ Good(World, late)
  BY DEF Converges, Good
<1>2. Good(Deliver(World, m), late)
  BY <1>1, DeliverGood
<1> QED BY <1>2, BecomesGood DEF Converges, Remind

\* The revision of the frame is given to a session that has nothing else to do, then
\* the message is delivered.
LEMMA WakeStep ==
  ASSUME Converges, NEW m \in Messages, NEW r \in Revisions, Wake(m, r)
  PROVE  Converges'
<1> DEFINE w == Accept(World, r)
           converges == w.pending # None /\ Attached(w) /\ ~Working(w) /\ ~w.apply.on
           v == IF converges THEN Converge(w) ELSE w
<1>1. World \in Worlds /\ Good(World, late) /\ late \in MaybeRevisions
  BY DEF Converges, Good
<1>2. /\ w \in Worlds /\ Core(w, late) /\ Asking(w) /\ Newest(w, late)
      /\ w.owner = World.owner /\ w.fate = World.fate /\ w.apply = World.apply
      /\ w = World \/ w.pending = r
  BY <1>1, AcceptWhat
<1>3. Becomes(Deliver(v, m)) /\ launch' = launch /\ late' = late
  BY DEF Wake
<1> HIDE DEF w
<1>4. Good(v, late)
  <2>1. CASE converges
    <3>1. w.apply.rev = None
      BY <1>2, <2>1 DEF Asking
    <3>2. w.owner.phase # "running" \/ Inbox(w) = {}
      BY <2>1 DEF Working
    <3>3. Good(Converge(w), late)
      BY <1>2, <2>1, <3>1, <3>2, ConvergeGood
    <3> QED BY <2>1, <3>3
  <2>2. CASE ~converges
    <3>1. CASE w = World
      BY <1>1, <2>2, <3>1
    <3>2. CASE w.pending = r
      <4>1. w.pending # None
        BY <3>2, RevisionAssumption DEF Revisions, None
      <4>2. ~Attached(w) \/ Working(w) \/ w.apply.on
        BY <2>2, <4>1
      <4>3. Inbox(w) = Inbox(World)
        BY <1>2 DEF Inbox
      <4>4. Idle(w)
        BY <1>1, <1>2, <4>2, <4>3 DEF Good, Idle, Attached, Working
      <4> QED BY <1>2, <2>2, <4>4 DEF Good
    <3> QED BY <1>2, <3>1, <3>2
  <2> QED BY <2>1, <2>2
<1>5. v \in Worlds
  BY <1>4 DEF Good
<1> HIDE DEF v
<1>6. Good(Deliver(v, m), late)
  BY <1>4, <1>5, DeliverGood
<1> QED BY <1>1, <1>3, <1>6, BecomesGood DEF Converges

\* A revision accepted while a session is opened is recorded as late; a session with
\* something to do takes it afterwards, an idle one at once.
LEMMA UpdateStep ==
  ASSUME Converges, NEW r \in Revisions, UpdateRuntimeConfig(r)
  PROVE  Converges'
<1> DEFINE w == Accept(World, r)
           deferred == w.owner.busy \/ Working(w) \/ w.apply.on
           v == CASE ~Attached(w) -> [w EXCEPT !.pending = None]
                  [] Attached(w) /\ deferred -> w
                  [] OTHER -> Converge(w)
           l == IF owner.phase = "opening" THEN r ELSE late
<1>1. World \in Worlds /\ Good(World, late) /\ late \in MaybeRevisions
  BY DEF Converges, Good
<1>2. /\ w \in Worlds /\ Core(w, late) /\ Asking(w) /\ Newest(w, late)
      /\ w.owner = World.owner /\ w.fate = World.fate /\ w.apply = World.apply
      /\ w = World \/ (w.desired = r /\ w.pending = r)
  BY <1>1, AcceptWhat
<1>3. Becomes(v) /\ launch' = launch /\ late' = l
  BY DEF UpdateRuntimeConfig
<1>4. World.desired < r /\ r \in Nat
  BY <1>1, RevisionAssumption DEF UpdateRuntimeConfig, World, Revisions, Worlds
<1>5. World.owner = owner
  BY DEF World
<1>6. w.desired = r /\ w.pending = r
  BY <1>2, <1>4 DEF Accept, Worlds, Revisions, World
<1> HIDE DEF w
<1>7. CASE ~Attached(w)
  <2> DEFINE u == [w EXCEPT !.pending = None]
  <2>1. /\ u \in Worlds /\ u.pending = None /\ u.desired = w.desired
        /\ u.applied = w.applied /\ u.owner = w.owner /\ u.fenced = w.fenced
        /\ u.apply = w.apply
    BY <1>2 DEF Worlds, MaybeRevisions
  <2>2. v = u
    BY <1>7
  <2> HIDE DEF u, v
  <2>3. ~Attached(u) /\ u.owner.phase # "running"
    BY <1>7, <2>1 DEF Attached
  <2>4. l \in MaybeRevisions /\ l <= r /\ (l = r \/ u.owner.phase # "opening")
    BY <1>1, <1>2, <1>4, <1>5, <1>6, <2>1 DEF MaybeRevisions, Core, Bounded
  <2> HIDE DEF l
  <2>5. Bounded(u, l)
    BY <1>2, <1>6, <2>1, <2>4 DEF Core, Bounded
  <2>6. Effective(u) /\ Opening(u, l) /\ Fences(u)
    BY <1>2, <1>6, <2>1, <2>3, <2>4 DEF Core, Effective, Opening, Fences
  <2>7. Asking(u) /\ Newest(u, l) /\ Idle(u)
    BY <1>2, <2>1, <2>3 DEF Asking, Newest, Idle, Attached
  <2>8. Good(u, l)
    BY <2>1, <2>5, <2>6, <2>7 DEF Core, Good
  <2> QED BY <1>3, <2>2, <2>4, <2>8, BecomesGood DEF Converges
<1>8. CASE Attached(w)
  <2>1. l = late
    BY <1>2, <1>5, <1>8 DEF Attached
  <2>2. Good(v, late)
    <3>1. CASE deferred
      <4>1. Inbox(w) = Inbox(World)
        BY <1>2 DEF Inbox
      <4>2. Idle(w)
        BY <1>1, <1>2, <3>1, <4>1 DEF Good, Idle, Working
      <4>3. v = w
        BY <1>8, <3>1
      <4> QED BY <1>2, <4>2, <4>3 DEF Good
    <3>2. CASE ~deferred
      <4>1. w.apply.rev = None
        BY <1>2, <3>2 DEF Asking
      <4>2. w.owner.phase # "running" \/ Inbox(w) = {}
        BY <3>2 DEF Working
      <4>3. v = Converge(w)
        BY <1>8, <3>2
      <4> QED BY <1>2, <1>8, <4>1, <4>2, <4>3, ConvergeGood
    <3> QED BY <3>1, <3>2
  <2> HIDE DEF v
  <2> QED BY <1>1, <1>3, <2>1, <2>2, BecomesGood DEF Converges
<1> QED BY <1>7, <1>8

\* The revision the factory was given is applied; only a newer one stays pending.
LEMMA FactoryOpensStep ==
  ASSUME Converges, FactoryOpens
  PROVE  Converges'
<1> DEFINE w == World
           p == IF w.pending <= w.owner.base THEN None ELSE w.pending
           v == [w EXCEPT !.owner.phase = "starting", !.applied = w.owner.base,
                          !.pending = p]
<1>1. w \in Worlds /\ Good(w, late) /\ late \in MaybeRevisions
  BY DEF Converges, Good
<1>2. Becomes(v) /\ launch' = launch /\ late' = late /\ w.owner.phase = "opening"
  BY DEF FactoryOpens, World
<1> HIDE DEF w
<1>3. p \in {None, w.pending} /\ p \in MaybeRevisions
  BY <1>1 DEF Worlds, MaybeRevisions
<1>4. p = None => w.pending \in {None, w.owner.base} \/ w.pending < w.owner.base
  BY <1>1, RevisionAssumption DEF Worlds, Owners, MaybeRevisions, Revisions, None
<1> HIDE DEF p
<1>5. v \in Worlds
  BY <1>1, <1>3 DEF Worlds, Owners
<1>6. /\ v.desired = w.desired /\ v.pending = p /\ v.applied = w.owner.base
      /\ v.owner.phase = "starting" /\ v.owner.base = w.owner.base
      /\ v.owner.runs = w.owner.runs /\ v.apply = w.apply
  BY <1>1 DEF Worlds, Owners
<1> HIDE DEF v
<1>7. Bounded(v, late)
  BY <1>1, <1>3, <1>6 DEF Good, Core, Bounded
<1>8. Effective(v) /\ Opening(v, late) /\ Fences(v)
  BY <1>1, <1>2, <1>6 DEF Good, Core, Effective, Opening, Fences
<1>9. Asking(v) /\ Idle(v)
  BY <1>1, <1>2, <1>6 DEF Good, Asking, Idle, Attached
<1>10. Newest(v, late)
  <2> SUFFICES ASSUME p = None PROVE w.desired \in {w.owner.base, late}
    BY <1>6 DEF Newest
  <2>1. w.desired \in Nat /\ w.owner.base \in Int /\ w.owner.base <= w.desired
    BY <1>1, RevisionAssumption
      DEF Worlds, Owners, MaybeRevisions, Revisions, None, Good, Core, Bounded
  <2>2. w.pending \in {None, w.desired} /\ w.desired \in {w.owner.base, w.pending, late}
    BY <1>1, <1>2 DEF Good, Core, Bounded, Opening
  <2> QED BY <1>4, <2>1, <2>2 DEF None
<1> QED BY <1>1, <1>2, <1>5, <1>7, <1>8, <1>9, <1>10, BecomesGood DEF Converges, Good, Core

LEMMA FirstTurnStep ==
  ASSUME Converges, FirstTurnStarts
  PROVE  Converges'
<1> DEFINE w == World
           v == [w EXCEPT !.owner.busy = TRUE]
<1>1. w \in Worlds /\ Good(w, late) /\ late \in MaybeRevisions
  BY DEF Converges, Good
<1>2. Becomes(v) /\ launch' = launch /\ late' = late /\ w.owner.phase = "starting"
  BY DEF FirstTurnStarts, World
<1> HIDE DEF w
<1>3. v \in Worlds /\ Same(v, w) /\ v.owner.busy
  BY <1>1 DEF Worlds, Owners, Same
<1> HIDE DEF v
<1>4. Core(v, late) /\ Asking(v) /\ Newest(v, late)
  BY <1>1, <1>2, <1>3, SameKeeps DEF Good, Core, Attached
<1>5. Good(v, late)
  BY <1>3, <1>4 DEF Good, Idle
<1> QED BY <1>1, <1>2, <1>5, BecomesGood DEF Converges

\* The spawned event lifts a fence.
LEMMA StartAnsweredStep ==
  ASSUME Converges, StartAnswered
  PROVE  Converges'
<1> DEFINE w == World
           v == [w EXCEPT !.owner.phase = "running", !.owner.busy = TRUE, !.fenced = FALSE]
<1>1. w \in Worlds /\ Good(w, late) /\ late \in MaybeRevisions
  BY DEF Converges, Good
<1>2. Becomes(Drain(v)) /\ launch' = launch /\ late' = late /\ w.owner.phase = "starting"
  BY DEF StartAnswered, World
<1> HIDE DEF w
<1>3. v \in Worlds
  BY <1>1 DEF Worlds, Owners
<1>4. /\ v.desired = w.desired /\ v.pending = w.pending /\ v.applied = w.applied
      /\ v.owner.phase = "running" /\ v.owner.base = w.owner.base
      /\ v.owner.runs = w.owner.runs /\ v.owner.stopping = w.owner.stopping
      /\ v.owner.busy /\ ~v.fenced /\ v.apply = w.apply
  BY <1>1 DEF Worlds, Owners
<1> HIDE DEF v
<1>5. Attached(v) /\ Core(v, late) /\ Asking(v) /\ Newest(v, late)
  BY <1>1, <1>2, <1>4
    DEF Good, Core, Bounded, Effective, Opening, Fences, Asking, Newest, Attached
<1>6. Good(Drain(v), late)
  BY <1>3, <1>4, <1>5, DrainGood
<1> QED BY <1>1, <1>2, <1>6, BecomesGood DEF Converges

\* A settings update that failed may have been taken all the same.
LEMMA UpdateAnsweredStep ==
  ASSUME Converges, NEW ok \in BOOLEAN, NEW took \in BOOLEAN, UpdateAnswered(ok, took)
  PROVE  Converges'
<1> DEFINE w == World
           v == [w EXCEPT !.owner.runs = w.apply.rev]
<1>1. w \in Worlds /\ Good(w, late) /\ late \in MaybeRevisions /\ w.apply.rev # None
  BY DEF Converges, Good, UpdateAnswered, World
<1>2. /\ Becomes(IF ok THEN Taken(w) ELSE Refused(IF took THEN v ELSE w))
      /\ launch' = launch /\ late' = late
  BY DEF UpdateAnswered, World
<1> HIDE DEF w
<1>3. v \in Worlds
  BY <1>1 DEF Worlds, Owners
<1>4. Attached(v) /\ Bounded(v, late) /\ Attached(w) /\ Bounded(w, late)
  BY <1>1 DEF Good, Core, Bounded, Asking, Attached, Worlds, Owners
<1>5. Good(Taken(w), late) /\ Good(Refused(w), late) /\ Good(Refused(v), late)
  BY <1>1, <1>3, <1>4, TakenGood, RefusedGood
<1> HIDE DEF v
<1>6. CASE ok
  BY <1>1, <1>2, <1>5, <1>6, BecomesGood DEF Converges
<1>7. CASE ~ok /\ took
  BY <1>1, <1>2, <1>5, <1>7, BecomesGood DEF Converges
<1>8. CASE ~ok /\ ~took
  BY <1>1, <1>2, <1>5, <1>8, BecomesGood DEF Converges
<1> QED BY <1>6, <1>7, <1>8

\* A pending revision is applied before the turn is completed.
LEMMA TurnEndsStep ==
  ASSUME Converges, TurnEnds
  PROVE  Converges'
<1> DEFINE w == World
           v == [w EXCEPT !.apply.ends = TRUE]
           u == [w EXCEPT !.apply.ends = FALSE]
<1>1. w \in Worlds /\ Good(w, late) /\ late \in MaybeRevisions
  BY DEF Converges, Good
<1>2. /\ Becomes(IF w.pending # None /\ ~w.apply.on THEN Converge(v) ELSE Complete(w))
      /\ launch' = launch /\ late' = late
      /\ w.owner.phase = "running" /\ ~w.apply.ends
  BY DEF TurnEnds, World
<1> HIDE DEF w
<1>3. /\ v \in Worlds /\ v.desired = w.desired /\ v.pending = w.pending
      /\ v.applied = w.applied /\ v.owner = w.owner /\ v.fenced = w.fenced
      /\ v.apply.rev = w.apply.rev /\ v.apply.ends
  BY <1>1 DEF Worlds
<1>4. u = w
  BY <1>1, <1>2 DEF Worlds
<1> HIDE DEF u, v
<1>5. CASE w.pending # None /\ ~w.apply.on
  <2>1. Attached(v) /\ Core(v, late) /\ v.apply.rev = None
    BY <1>1, <1>2, <1>3, <1>5
      DEF Good, Core, Bounded, Effective, Opening, Fences, Asking, Attached
  <2>2. Good(Converge(v), late)
    BY <1>3, <2>1, ConvergeGood
  <2> QED BY <1>1, <1>2, <1>5, <2>2, BecomesGood DEF Converges
<1>6. CASE ~(w.pending # None /\ ~w.apply.on)
  <2>1. Attached(w) /\ Core(w, late) /\ Newest(w, late) /\ Asking(w)
    BY <1>1, <1>2 DEF Good, Attached
  <2>2. Asking([w EXCEPT !.apply.ends = FALSE])
    BY <1>4, <2>1 DEF u
  <2>3. Good(Complete(w), late)
    BY <1>1, <1>6, <2>1, <2>2, CompleteGood
  <2> QED BY <1>1, <1>2, <1>6, <2>3, BecomesGood DEF Converges
<1> QED BY <1>5, <1>6

LEMMA FactoryFailsStep ==
  ASSUME Converges, FactoryFails
  PROVE  Converges'
<1> DEFINE w == World
           v == [w EXCEPT !.owner = NoOwner]
<1>1. w \in Worlds /\ Good(w, late) /\ late \in MaybeRevisions
  BY DEF Converges, Good
<1>2. Exits(v) /\ launch' = launch /\ late' = late /\ w.owner.phase = "opening"
  BY DEF FactoryFails, World
<1> HIDE DEF w
<1>3. /\ NoOwner \in Owners /\ NoOwner.base = None /\ NoOwner.runs = None
  BY DEF NoOwner, Owners, MaybeRevisions
<1>4. /\ v \in Worlds /\ v.owner = NoOwner /\ v.desired = w.desired
      /\ v.pending = w.pending /\ v.applied = w.applied /\ v.apply = w.apply
  BY <1>1, <1>3 DEF Worlds
<1> HIDE DEF v
<1>5. None <= w.desired
  BY <1>1 DEF Worlds, Revisions, None
<1>6. Bounded(v, late) /\ Asking(v)
  BY <1>1, <1>2, <1>3, <1>4, <1>5 DEF Good, Core, Bounded, Asking, Attached
<1> QED BY <1>1, <1>2, <1>4, <1>6, ExitsGood DEF Converges

LEMMA ClosedStep ==
  ASSUME Converges, Closed
  PROVE  Converges'
<1> DEFINE w == World
           v == [w EXCEPT !.owner = NoOwner, !.applied = None, !.apply = NoApply]
<1>1. w \in Worlds /\ Good(w, late) /\ late \in MaybeRevisions
  BY DEF Converges, Good
<1>2. Exits(v) /\ launch' = launch /\ late' = late
  BY DEF Closed, World
<1> HIDE DEF w
<1>3. /\ NoOwner \in Owners /\ NoOwner.base = None /\ NoOwner.runs = None
      /\ NoApply \in [on : BOOLEAN, rev : MaybeRevisions, ends : BOOLEAN]
      /\ ~NoApply.on /\ NoApply.rev = None /\ ~NoApply.ends
  BY DEF NoOwner, NoApply, Owners, MaybeRevisions
<1>4. /\ v \in Worlds /\ v.owner = NoOwner /\ v.desired = w.desired
      /\ v.pending = w.pending /\ v.applied = None /\ v.apply = NoApply
  BY <1>1, <1>3 DEF Worlds, MaybeRevisions
<1> HIDE DEF v
<1>5. None <= w.desired
  BY <1>1 DEF Worlds, Revisions, None
<1>6. Bounded(v, late) /\ Asking(v)
  BY <1>1, <1>3, <1>4, <1>5 DEF Good, Core, Bounded, Asking
<1> QED BY <1>1, <1>2, <1>4, <1>6, ExitsGood DEF Converges
-----------------------------------------------------------------------------
(* The theorems.                                                           *)

\* What a revision may count on, in every reachable state.
THEOREM Inductive == Spec => []Converges
<1>1. Init => Converges
  BY Initially
<1>2. Converges /\ [Next]_vars => Converges'
  <2> SUFFICES ASSUME Converges, [Next]_vars PROVE Converges'
    OBVIOUS
  <2>1. CASE UNCHANGED vars
    <3>1. launch' = launch /\ late' = late /\ Becomes(World)
      BY <2>1 DEF vars, Becomes, World
    <3> QED BY <3>1, BecomesGood DEF Converges
  <2>2. ASSUME NEW m \in Messages, Remind(m) PROVE Converges'
    BY <2>2, RemindStep
  <2>3. ASSUME NEW m \in Messages, NEW r \in Revisions, Wake(m, r) PROVE Converges'
    BY <2>3, WakeStep
  <2>4. ASSUME NEW r \in Revisions, UpdateRuntimeConfig(r) PROVE Converges'
    BY <2>4, UpdateStep
  <2>5. CASE FactoryOpens
    BY <2>5, FactoryOpensStep
  <2>6. CASE FactoryFails
    BY <2>6, FactoryFailsStep
  <2>7. CASE FirstTurnStarts
    BY <2>7, FirstTurnStep
  <2>8. CASE StartAnswered
    BY <2>8, StartAnsweredStep
  <2>9. ASSUME NEW ok \in BOOLEAN, NEW took \in BOOLEAN, UpdateAnswered(ok, took)
        PROVE  Converges'
    BY <2>9, UpdateAnsweredStep
  <2>10. CASE TurnEnds
    BY <2>10, TurnEndsStep
  <2>11. CASE Closed
    BY <2>11, ClosedStep
  <2> QED BY <2>1, <2>2, <2>3, <2>4, <2>5, <2>6, <2>7, <2>8, <2>9, <2>10, <2>11 DEF Next
<1> QED BY <1>1, <1>2, PTL DEF Spec

\* Every variable keeps its type, and a pending revision is the newest one.
THEOREM TypeCorrect == Spec => []TypeOK
<1>1. Converges => TypeOK
  <2> SUFFICES ASSUME Converges PROVE TypeOK
    OBVIOUS
  <2>1. /\ World \in Worlds /\ Bounded(World, late) /\ late \in MaybeRevisions
        /\ launch \in [Revisions -> {"a", "b"}]
    BY DEF Converges, Good, Core
  <2>2. /\ desired \in Revisions /\ pending \in {None, desired} /\ applied \in MaybeRevisions
        /\ owner \in Owners /\ fenced \in BOOLEAN
        /\ apply \in [on : BOOLEAN, rev : MaybeRevisions, ends : BOOLEAN]
        /\ fate \in [Messages -> {"new", "held", "sent"}]
        /\ applied <= desired /\ late <= desired
    BY <2>1 DEF World, Worlds, Bounded
  <2>3. {applied, late} \subseteq (0..desired) \cup {None}
    BY <2>1, <2>2, RevisionAssumption DEF MaybeRevisions, Revisions, None
  <2> QED BY <2>1, <2>2, <2>3 DEF TypeOK, Owners, MaybeRevisions
<1> QED BY <1>1, Inductive, PTL

\* What convergeRuntimeConfig compares a new revision with (appliedRuntimeConfigs) is
\* what the backend runs with, as long as the session is not being stopped.
THEOREM BelievedIsRunning == Spec => []AppliedIsEffective
<1>1. Converges => AppliedIsEffective
  BY DEF Converges, Good, Core, Effective, AppliedIsEffective, World, Attached
<1> QED BY <1>1, Inductive, PTL

\* A session that has settled runs the newest revision, but for one that was accepted
\* while the session was being opened.
THEOREM NewestIsApplied == Spec => []SettlesOnNewest
<1>1. Converges => SettlesOnNewest
  BY DEF Converges, Good, Newest, Idle, SettlesOnNewest, World, Attached
<1> QED BY <1>1, Inductive, PTL
=============================================================================
