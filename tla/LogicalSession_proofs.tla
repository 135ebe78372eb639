------------------------ MODULE LogicalSession_proofs ------------------------
(***************************************************************************)
(* The logical session keeps its types, leaves no lane behind, and keeps   *)
(* the contract with its client (SessionContract), for every set of        *)
(* commands, every kind of backend and every bound.  Until a settings      *)
(* update is asked for, a prompt is alone at the lane.                     *)
(*                                                                         *)
(* The operators of the session map worlds to worlds, so there is one      *)
(* lemma per operator that says what it leaves of a world, and one per     *)
(* action.  What the contract needs is where an unsettled command is: at   *)
(* exactly one of four places (Placed), and the order in which the places  *)
(* are served is that of the queue (Phased).                               *)
(***************************************************************************)
EXTENDS LogicalSession, SequenceTheorems, TLAPS

States == {"new", "starting", "working", "idle", "stopping", "closed"}
Statuses == {"new", "pending", "queued", "accepted", "failed", "returned", "rejected", "twice"}
Stages == {"waiting", "opening", "starting", "sending", "over"}
Lanes == {"none", "opening", "live", "stopping", "dead"}
Closers == {"stop", "start", "exit"}

\* A command that is offered to a turn, and an entry of the lane's admission queue.
Offers == [cmd : Commands, turn : Nat \ {NoTurn}]
Entries == [kind : {"prompt", "steer"}, cmd : Commands, turn : Nat \ {NoTurn},
            opens : BOOLEAN, final : BOOLEAN]

Sessions ==
    [delivery : Deliveries, state : States, turn : Nat, members : SUBSET Commands,
     last : [turn : Nat, members : SUBSET Commands], turns : Nat, queue : Seq(Commands),
     later : SUBSET Commands, fifo : Seq(Entries), stage : Stages,
     admission : Offers \cup {Nobody}, early : BOOLEAN, flush : Offers \cup {Nobody},
     final : BOOLEAN, gate : BOOLEAN, off : BOOLEAN, updates : Nat, asked : Nat,
     holds : BOOLEAN, refused : BOOLEAN, chains : SUBSET Int, returns : SUBSET Commands,
     given : Nat, attached : BOOLEAN, closers : SUBSET Closers, finishing : BOOLEAN]

Worlds == [s : Sessions, lane : Lanes, told : [Commands -> Statuses]]

\* The places of the commands that are not settled.
Unanswered(op) == op.kind = "steer" /\ ~ op.final
Steers(q) == {q[i].cmd : i \in {j \in DOMAIN q : Unanswered(q[j])}}

Starting(s) == IF s.admission = Nobody THEN {} ELSE {s.admission.cmd}
Flushed(s)  == IF s.flush = Nobody \/ s.final THEN {} ELSE {s.flush.cmd}
Steered(s)  == Steers(s.fifo)
Queued(s)   == ToSet(s.queue)
InFlight(s) == Starting(s) \cup Flushed(s) \cup Steered(s)
Waiting(s)  == InFlight(s) \cup Queued(s)

Distinct(q) == \A i, j \in DOMAIN q : q[i] = q[j] => i = j
Single(q) ==
    \A i, j \in DOMAIN q : Unanswered(q[i]) /\ Unanswered(q[j]) /\ q[i].cmd = q[j].cmd => i = j

\* An unsettled command is at exactly one place, and the client knows as much; in the
\* middle of an operation the commands of C may have no place.
PlacedBut(s, t, C) ==
    /\ Distinct(s.queue) /\ Single(s.fifo)
    /\ Starting(s) \cap (Flushed(s) \cup Queued(s) \cup Steered(s)) = {}
    /\ Flushed(s) \cap Queued(s) = {}
    /\ \A c \in Starting(s) : t[c] \in {"pending", "queued"}
    /\ \A c \in Flushed(s) \cup Queued(s) : t[c] = "queued"
    /\ \A c \in Steered(s) : t[c] = "pending"
    /\ \A c \in Commands : t[c] # "twice"
    /\ \A c \in Commands : t[c] \in {"pending", "queued"} => c \in Waiting(s) \cup C
    /\ Waiting(s) \cap C = {}

Placed(s, t) == PlacedBut(s, t, {})

\* A turn is admitted only while it starts, and then no delivery of the queue is open;
\* what ends has nothing that waits.
Phased(s) ==
    /\ s.admission # Nobody => s.state \in {"starting", "stopping"} /\ Flushed(s) = {}
    /\ s.state = "starting" /\ s.turn # NoTurn => s.admission # Nobody
    /\ s.state = "starting" /\ s.admission # Nobody => s.turn = s.admission.turn
    /\ Flushed(s) # {} => s.state \in {"working", "stopping"}
    /\ s.finishing => s.state = "stopping"
    /\ s.finishing \/ s.state = "closed" => Waiting(s) = {}

\* The operation that is at the lane is the first of its queue.
Headed(s) ==
    /\ s.stage # "waiting" => s.fifo # <<>>
    /\ s.stage \in {"opening", "starting"} => Head(s.fifo).kind = "prompt"

\* A lane lives only for a session that goes on, and opens only for its first operation.
Laned(s, l) ==
    /\ l = "live" => s.attached /\ ~ Ended(s) /\ s.closers = {}
    /\ l = "opening" => s.stage = "opening"
    /\ s.closers # {} => Ended(s) \/ s.stage = "over"

Counted(s) ==
    /\ s.turn <= s.turns /\ s.last.turn <= s.turns
    /\ s.updates <= s.asked /\ s.asked <= MaxUpdates
    /\ s.chains \subseteq Flushing..MaxUpdates

GoodBut(w, C) ==
    /\ w \in Worlds
    /\ Counted(w.s) /\ Laned(w.s, w.lane) /\ Headed(w.s) /\ Phased(w.s)
    /\ PlacedBut(w.s, w.told, C)

Good(w) == GoodBut(w, {})

\* The queue as the client knows it.
LineOf(s, t) ==
    LET Known(x) == IF x.cmd \in Commands /\ t[x.cmd] = "queued" THEN <<x.cmd>> ELSE <<>>
    IN  (IF s.final THEN <<>> ELSE Known(s.flush)) \o Known(s.admission) \o s.queue

LineIn(w) == LineOf(w.s, w.told)
-----------------------------------------------------------------------------
(* Sequences.                                                              *)

LEMMA AppendSet ==
  ASSUME NEW S, NEW q \in Seq(S), NEW x \in S
  PROVE  /\ Append(q, x) \in Seq(S)
         /\ ToSet(Append(q, x)) = ToSet(q) \cup {x}
         /\ Distinct(q) /\ x \notin ToSet(q) => Distinct(Append(q, x))
<1> DEFINE p == Append(q, x)
<1>1. /\ p \in Seq(S) /\ Len(p) = Len(q) + 1
      /\ \A i \in 1..Len(q) : p[i] = q[i]
      /\ p[Len(q) + 1] = x
  BY AppendProperties
<1>2. DOMAIN q = 1..Len(q) /\ Len(q) \in Nat /\ DOMAIN p = 1..(Len(q) + 1)
  BY <1>1, LenProperties
<1> HIDE DEF p
<1>3. ToSet(p) = ToSet(q) \cup {x}
  BY <1>1, <1>2 DEF ToSet
<1>4. Distinct(q) /\ x \notin ToSet(q) => Distinct(p)
  BY <1>1, <1>2 DEF Distinct, ToSet
<1> QED BY <1>1, <1>3, <1>4 DEF p

LEMMA TailSet ==
  ASSUME NEW S, NEW q \in Seq(S), q # <<>>
  PROVE  /\ Tail(q) \in Seq(S) /\ Head(q) \in S
         /\ ToSet(q) = ToSet(Tail(q)) \cup {Head(q)}
         /\ Distinct(q) => Distinct(Tail(q)) /\ Head(q) \notin ToSet(Tail(q))
<1>1. /\ Tail(q) \in Seq(S) /\ Head(q) \in S /\ Head(q) = q[1]
      /\ Len(Tail(q)) = Len(q) - 1
      /\ \A i \in 1..Len(Tail(q)) : Tail(q)[i] = q[i + 1]
  BY HeadTailProperties
<1>2. /\ DOMAIN q = 1..Len(q) /\ Len(q) \in Nat /\ Len(q) # 0
      /\ DOMAIN Tail(q) = 1..(Len(q) - 1)
  BY <1>1, LenProperties, EmptySeq
<1>3. \A i \in DOMAIN Tail(q) : i + 1 \in DOMAIN q /\ Tail(q)[i] = q[i + 1]
  BY <1>1, <1>2
<1>4. \A i \in DOMAIN q : i # 1 => i - 1 \in DOMAIN Tail(q) /\ Tail(q)[i - 1] = q[i]
  BY <1>1, <1>2
<1>5. ToSet(q) = ToSet(Tail(q)) \cup {Head(q)}
  BY <1>1, <1>2, <1>3, <1>4 DEF ToSet
<1>6. Distinct(q) => Distinct(Tail(q)) /\ Head(q) \notin ToSet(Tail(q))
  BY <1>1, <1>2, <1>3 DEF Distinct, ToSet
<1> QED BY <1>1, <1>5, <1>6

LEMMA ConsSet ==
  ASSUME NEW S, NEW q \in Seq(S), NEW x \in S
  PROVE  /\ <<x>> \o q \in Seq(S) /\ <<x>> \o q # <<>>
         /\ Head(<<x>> \o q) = x /\ Tail(<<x>> \o q) = q
         /\ ToSet(<<x>> \o q) = ToSet(q) \cup {x}
         /\ Distinct(q) /\ x \notin ToSet(q) => Distinct(<<x>> \o q)
<1> DEFINE p == <<x>> \o q
<1>1. /\ p \in Seq(S) /\ Len(p) = Len(q) + 1 /\ p[1] = x /\ Len(q) \in Nat
      /\ \A i \in 1..Len(q) : p[i + 1] = q[i]
  BY ConcatProperties
<1> HIDE DEF p
<1>2. p # <<>> /\ Head(p) = x
  BY <1>1, EmptySeq, HeadTailProperties
<1>3. Tail(p) = q
  <2>1. /\ Tail(p) \in Seq(S) /\ Len(Tail(p)) = Len(q)
        /\ \A i \in 1..Len(q) : Tail(p)[i] = p[i + 1]
    BY <1>1, <1>2, HeadTailProperties
  <2> QED BY <1>1, <2>1, SeqEqual
<1>4. ToSet(p) = ToSet(q) \cup {x}
  BY <1>1, <1>2, <1>3, TailSet
<1>5. Distinct(q) /\ x \notin ToSet(q) => Distinct(p)
  <2>1. DOMAIN q = 1..Len(q) /\ DOMAIN p = 1..(Len(q) + 1)
    BY <1>1, LenProperties
  <2>2. \A i \in DOMAIN p : i # 1 => i - 1 \in DOMAIN q /\ p[i] = q[i - 1]
    BY <1>1, <2>1
  <2> QED BY <1>1, <2>1, <2>2 DEF Distinct, ToSet
<1> QED BY <1>1, <1>2, <1>3, <1>4, <1>5 DEF p

LEMMA HeadAndTail ==
  ASSUME NEW S, NEW q \in Seq(S), q # <<>>
  PROVE  <<Head(q)>> \o Tail(q) = q
<1>1. /\ Tail(q) \in Seq(S) /\ Head(q) \in S /\ Head(q) = q[1]
      /\ Len(Tail(q)) = Len(q) - 1 /\ Len(q) \in Nat \ {0}
      /\ \A i \in 1..Len(Tail(q)) : Tail(q)[i] = q[i + 1]
  BY HeadTailProperties, EmptySeq
<1> DEFINE h == Head(q)
           t == Tail(q)
           p == <<h>> \o t
<1> HIDE DEF h, t
<1>2. /\ p \in Seq(S) /\ Len(p) = Len(t) + 1 /\ p[1] = h
      /\ \A i \in 1..Len(t) : p[i + 1] = t[i]
  BY <1>1, ConcatProperties DEF h, t
<1> HIDE DEF p
<1>3. \A i \in 1..Len(p) : p[i] = q[i]
  <2> TAKE i \in 1..Len(p)
  <2>1. CASE i = 1
    BY <1>1, <1>2, <2>1 DEF h
  <2>2. CASE i # 1
    <3>1. i - 1 \in 1..Len(t) /\ (i - 1) + 1 = i
      BY <1>1, <1>2, <2>2 DEF t
    <3> QED BY <1>1, <1>2, <3>1 DEF t
  <2> QED BY <2>1, <2>2
<1>4. p = q
  BY <1>1, <1>2, <1>3, SeqEqual DEF t
<1> QED BY <1>4 DEF p, h, t

LEMMA AppendHead ==
  ASSUME NEW S, NEW q \in Seq(S), NEW x \in S
  PROVE  /\ Append(q, x) \in Seq(S) /\ Append(q, x) # <<>>
         /\ q # <<>> => Head(Append(q, x)) = Head(q)
         /\ q = <<>> => Head(Append(q, x)) = x
<1> DEFINE p == Append(q, x)
<1>1. /\ p \in Seq(S) /\ Len(p) = Len(q) + 1 /\ Len(q) \in Nat
      /\ \A i \in 1..Len(q) : p[i] = q[i]
      /\ p[Len(q) + 1] = x
  BY AppendProperties
<1> HIDE DEF p
<1>2. p # <<>> /\ Head(p) = p[1]
  BY <1>1, EmptySeq, HeadTailProperties
<1>3. CASE q = <<>>
  BY <1>1, <1>2, <1>3, EmptySeq DEF p
<1>4. CASE q # <<>>
  <2>1. Len(q) # 0 /\ Head(q) = q[1]
    BY <1>4, EmptySeq, HeadTailProperties
  <2> QED BY <1>1, <1>2, <1>4, <2>1 DEF p
<1> QED BY <1>3, <1>4

LEMMA ConsAppend ==
  ASSUME NEW S, NEW q \in Seq(S), NEW x \in S, NEW y \in S
  PROVE  <<x>> \o Append(q, y) = Append(<<x>> \o q, y)
<1>1. <<x>> \in Seq(S) /\ <<y>> \in Seq(S)
  OBVIOUS
<1>2. <<x>> \o q \in Seq(S)
  BY ConsSet
<1>3. Append(q, y) = q \o <<y>> /\ Append(<<x>> \o q, y) = (<<x>> \o q) \o <<y>>
  BY <1>2, AppendIsConcat
<1>4. (<<x>> \o q) \o <<y>> = <<x>> \o (q \o <<y>>)
  BY <1>1, ConcatAssociative
<1> QED BY <1>3, <1>4

\* The steers that wait for their answer, as the admission queue moves.
LEMMA SteersAppend ==
  ASSUME NEW q \in Seq(Entries), NEW op \in Entries
  PROVE  /\ Append(q, op) \in Seq(Entries)
         /\ Steers(Append(q, op)) = Steers(q) \cup (IF Unanswered(op) THEN {op.cmd} ELSE {})
         /\ Single(q) /\ (Unanswered(op) => op.cmd \notin Steers(q)) => Single(Append(q, op))
<1> DEFINE p == Append(q, op)
<1>1. /\ p \in Seq(Entries) /\ Len(p) = Len(q) + 1
      /\ \A i \in 1..Len(q) : p[i] = q[i]
      /\ p[Len(q) + 1] = op
  BY AppendProperties
<1>2. DOMAIN q = 1..Len(q) /\ Len(q) \in Nat /\ DOMAIN p = 1..(Len(q) + 1)
  BY <1>1, LenProperties
<1> HIDE DEF p
<1>3. Steers(p) = Steers(q) \cup (IF Unanswered(op) THEN {op.cmd} ELSE {})
  BY <1>1, <1>2 DEF Steers
<1>4. Single(q) /\ (Unanswered(op) => op.cmd \notin Steers(q)) => Single(p)
  BY <1>1, <1>2 DEF Single, Steers
<1> QED BY <1>1, <1>3, <1>4 DEF p

LEMMA SteersTail ==
  ASSUME NEW q \in Seq(Entries), q # <<>>
  PROVE  /\ Tail(q) \in Seq(Entries) /\ Head(q) \in Entries
         /\ Steers(q) = Steers(Tail(q)) \cup (IF Unanswered(Head(q)) THEN {Head(q).cmd} ELSE {})
         /\ Single(q) => /\ Single(Tail(q))
                         /\ Unanswered(Head(q)) => Head(q).cmd \notin Steers(Tail(q))
<1>1. /\ Tail(q) \in Seq(Entries) /\ Head(q) \in Entries /\ Head(q) = q[1]
      /\ Len(Tail(q)) = Len(q) - 1
      /\ \A i \in 1..Len(Tail(q)) : Tail(q)[i] = q[i + 1]
  BY HeadTailProperties
<1>2. /\ DOMAIN q = 1..Len(q) /\ Len(q) \in Nat /\ Len(q) # 0
      /\ DOMAIN Tail(q) = 1..(Len(q) - 1)
  BY <1>1, LenProperties, EmptySeq
<1>3. \A i \in DOMAIN Tail(q) : i + 1 \in DOMAIN q /\ Tail(q)[i] = q[i + 1]
  BY <1>1, <1>2
<1>4. \A i \in DOMAIN q : i # 1 => i - 1 \in DOMAIN Tail(q) /\ Tail(q)[i - 1] = q[i]
  BY <1>1, <1>2
<1>5. Steers(q) = Steers(Tail(q)) \cup (IF Unanswered(Head(q)) THEN {Head(q).cmd} ELSE {})
  <2>1. ASSUME NEW c \in Steers(q)
        PROVE  c \in Steers(Tail(q)) \/ (Unanswered(Head(q)) /\ c = Head(q).cmd)
    <3>1. PICK i \in DOMAIN q : Unanswered(q[i]) /\ c = q[i].cmd
      BY DEF Steers
    <3>2. CASE i = 1
      BY <1>1, <3>1, <3>2
    <3>3. CASE i # 1
      BY <1>4, <3>1, <3>3 DEF Steers
    <3> QED BY <3>2, <3>3
  <2>2. Steers(Tail(q)) \subseteq Steers(q)
    BY <1>3 DEF Steers
  <2>3. Unanswered(Head(q)) => Head(q).cmd \in Steers(q)
    BY <1>1, <1>2 DEF Steers
  <2> QED BY <2>1, <2>2, <2>3
<1>6. Single(q) => /\ Single(Tail(q))
                   /\ Unanswered(Head(q)) => Head(q).cmd \notin Steers(Tail(q))
  BY <1>1, <1>2, <1>3 DEF Single, Steers
<1> QED BY <1>1, <1>5, <1>6
-----------------------------------------------------------------------------
(* What the operators leave of a world.                                    *)

Marks(t, C, what) == [c \in Commands |-> IF c \in C THEN what ELSE t[c]]

SameControl(a, b) ==
    /\ a.state = b.state /\ a.turn = b.turn /\ a.attached = b.attached
    /\ a.finishing = b.finishing /\ a.closers = b.closers

SameCounts(a, b) ==
    /\ a.turns = b.turns /\ a.last = b.last
    /\ a.updates = b.updates /\ a.asked = b.asked /\ a.chains = b.chains

SameFlush(a, b) == a.flush = b.flush /\ a.final = b.final
SameFifo(a, b) == a.fifo = b.fifo /\ a.stage = b.stage

\* Everything the invariant looks at.
Alike(a, b) ==
    /\ SameControl(a, b) /\ SameCounts(a, b) /\ SameFlush(a, b) /\ SameFifo(a, b)
    /\ a.queue = b.queue /\ a.admission = b.admission

LEMMA Put ==
  ASSUME NEW w \in Worlds, NEW s \in Sessions
  PROVE  /\ [w EXCEPT !.s = s] \in Worlds /\ [w EXCEPT !.s = s].s = s
         /\ [w EXCEPT !.s = s].lane = w.lane /\ [w EXCEPT !.s = s].told = w.told
BY DEF Worlds

LEMMA PutLane ==
  ASSUME NEW w \in Worlds, NEW l \in Lanes
  PROVE  /\ [w EXCEPT !.lane = l] \in Worlds /\ [w EXCEPT !.lane = l].s = w.s
         /\ [w EXCEPT !.lane = l].lane = l /\ [w EXCEPT !.lane = l].told = w.told
BY DEF Worlds

LEMMA PutBoth ==
  ASSUME NEW w \in Worlds, NEW s \in Sessions, NEW l \in Lanes
  PROVE  /\ [w EXCEPT !.s = s, !.lane = l] \in Worlds /\ [w EXCEPT !.s = s, !.lane = l].s = s
         /\ [w EXCEPT !.s = s, !.lane = l].lane = l /\ [w EXCEPT !.s = s, !.lane = l].told = w.told
BY DEF Worlds

LEMMA PutTold ==
  ASSUME NEW w \in Worlds, NEW t \in [Commands -> Statuses]
  PROVE  /\ [w EXCEPT !.told = t] \in Worlds /\ [w EXCEPT !.told = t].s = w.s
         /\ [w EXCEPT !.told = t].lane = w.lane /\ [w EXCEPT !.told = t].told = t
BY DEF Worlds

LEMMA WorldType ==
  ASSUME NEW w \in Worlds
  PROVE  w.s \in Sessions /\ w.lane \in Lanes /\ w.told \in [Commands -> Statuses]
BY DEF Worlds

LEMMA MarksType ==
  ASSUME NEW t \in [Commands -> Statuses], NEW C, NEW what \in Statuses
  PROVE  Marks(t, C, what) \in [Commands -> Statuses]
BY DEF Marks

LEMMA TellIs ==
  ASSUME NEW w \in Worlds, NEW C, NEW what \in Statuses
  PROVE  LET v == Tell(w, C, what) IN
         /\ v \in Worlds /\ v.s = w.s /\ v.lane = w.lane
         /\ (\A c \in C \cap Commands :
                w.told[c] # "twice" /\ ~ (w.told[c] \in Settled /\ what \in Settled))
              => v.told = Marks(w.told, C, what)
<1> DEFINE t == [c \in Commands |->
                  IF c \notin C \/ w.told[c] = "twice" THEN w.told[c]
                  ELSE IF w.told[c] \in Settled /\ what \in Settled THEN "twice" ELSE what]
<1>1. Tell(w, C, what) = [w EXCEPT !.told = t]
  BY DEF Tell
<1>2. t \in [Commands -> Statuses]
  BY WorldType DEF Statuses
<1>3. (\A c \in C \cap Commands :
          w.told[c] # "twice" /\ ~ (w.told[c] \in Settled /\ what \in Settled))
        => t = Marks(w.told, C, what)
  BY DEF Marks
<1> HIDE DEF t
<1> QED BY <1>1, <1>2, <1>3, PutTold

LEMMA GiveBackIs ==
  ASSUME NEW w \in Worlds, NEW c \in Commands, w.told[c] # "twice"
  PROVE  LET v == GiveBack(w, c) IN
         /\ v \in Worlds /\ v.lane = w.lane /\ Alike(v.s, w.s)
         /\ v.told = Marks(w.told, {c}, "returned")
<1> DEFINE s == [w.s EXCEPT !.members = @ \ {c}, !.returns = @ \ {c}]
           u == [w EXCEPT !.s = s]
<1>1. GiveBack(w, c) = Tell(u, {c}, "returned")
  BY DEF GiveBack, Worlds
<1>2. w.s \in Sessions
  BY WorldType
<1>3. s \in Sessions /\ Alike(s, w.s)
  BY <1>2 DEF Sessions, Alike, SameControl, SameCounts, SameFlush, SameFifo
<1> HIDE DEF s
<1>4. u \in Worlds /\ u.s = s /\ u.lane = w.lane /\ u.told = w.told
  BY <1>3, Put, WorldType
<1> HIDE DEF u
<1>5. "returned" \in Statuses /\ "returned" \notin Settled
  BY DEF Statuses, Settled
<1> QED BY <1>1, <1>3, <1>4, <1>5, TellIs

LEMMA AcceptedIs ==
  ASSUME NEW w \in Worlds, NEW c \in Commands, w.told[c] \in {"pending", "queued"}
  PROVE  LET v == Accepted(w, c) IN
         /\ v \in Worlds /\ v.lane = w.lane /\ Alike(v.s, w.s)
         /\ \E to \in {"accepted", "returned"} : v.told = Marks(w.told, {c}, to)
<1> DEFINE u == Tell(w, {c}, "accepted")
<1>1. /\ u \in Worlds /\ u.s = w.s /\ u.lane = w.lane
      /\ u.told = Marks(w.told, {c}, "accepted")
  BY TellIs DEF Statuses, Settled
<1>2. Alike(w.s, w.s)
  BY DEF Alike, SameControl, SameCounts, SameFlush, SameFifo
<1>3. Accepted(w, c) = IF c \in w.s.returns THEN GiveBack(u, c) ELSE u
  BY DEF Accepted
<1> HIDE DEF u
<1>4. u.told[c] # "twice"
  BY <1>1 DEF Marks
<1>5. Marks(u.told, {c}, "returned") = Marks(w.told, {c}, "returned")
  BY <1>1 DEF Marks
<1> QED BY <1>1, <1>2, <1>3, <1>4, <1>5, GiveBackIs

\* What may be marked as failed: it was not settled before.
Owed(w, C) == \A c \in C : w.told[c] \in {"pending", "queued"}

LEMMA FailedIs ==
  ASSUME NEW w \in Worlds, NEW C, Owed(w, C)
  PROVE  LET v == Tell(w, C, "failed") IN
         /\ v \in Worlds /\ v.s = w.s /\ v.lane = w.lane
         /\ v.told = Marks(w.told, C, "failed")
BY TellIs DEF Owed, Statuses, Settled

LEMMA FailTurnIs ==
  ASSUME NEW w \in Worlds, Owed(w, Starting(w.s))
  PROVE  LET v == FailTurnAdmission(w) IN
         /\ v \in Worlds /\ v.lane = w.lane
         /\ SameControl(v.s, w.s) /\ SameCounts(v.s, w.s)
         /\ SameFlush(v.s, w.s) /\ SameFifo(v.s, w.s)
         /\ v.s.queue = w.s.queue /\ v.s.admission = Nobody
         /\ v.told = Marks(w.told, Starting(w.s), "failed")
<1> USE DEF Alike, SameControl, SameCounts, SameFlush, SameFifo
<1>1. w.s \in Sessions /\ w.told \in [Commands -> Statuses]
  BY WorldType
<1>2. CASE w.s.admission = Nobody
  <2>1. Marks(w.told, {}, "failed") = w.told
    BY <1>1 DEF Marks
  <2> QED BY <1>2, <2>1 DEF FailTurnAdmission, Starting
<1>3. CASE w.s.admission # Nobody
  <2> DEFINE s == [w.s EXCEPT !.admission = Nobody, !.early = FALSE]
             u == [w EXCEPT !.s = s]
  <2>1. FailTurnAdmission(w) = Tell(u, {w.s.admission.cmd}, "failed")
    BY <1>3 DEF FailTurnAdmission, Worlds
  <2>2. /\ s \in Sessions /\ SameControl(s, w.s) /\ SameCounts(s, w.s)
        /\ SameFlush(s, w.s) /\ SameFifo(s, w.s) /\ s.queue = w.s.queue /\ s.admission = Nobody
    BY <1>1 DEF Sessions
  <2> HIDE DEF s
  <2>3. u \in Worlds /\ u.s = s /\ u.lane = w.lane /\ u.told = w.told
    BY <1>1, <2>2, Put, WorldType
  <2> HIDE DEF u
  <2>4. Owed(u, {w.s.admission.cmd}) /\ Starting(w.s) = {w.s.admission.cmd}
    BY <1>3, <2>3 DEF Owed, Starting
  <2> QED BY <2>1, <2>2, <2>3, <2>4, FailedIs
<1> QED BY <1>2, <1>3

LEMMA FailBoundaryIs ==
  ASSUME NEW w \in Worlds, Owed(w, Flushed(w.s))
  PROVE  LET v == FailSafeBoundaryDelivery(w) IN
         /\ v \in Worlds /\ v.lane = w.lane
         /\ SameControl(v.s, w.s) /\ SameCounts(v.s, w.s) /\ SameFifo(v.s, w.s)
         /\ v.s.queue = w.s.queue /\ v.s.admission = w.s.admission
         /\ v.s.flush = w.s.flush /\ Flushed(v.s) = {}
         /\ v.told = Marks(w.told, Flushed(w.s), "failed")
<1> USE DEF Alike, SameControl, SameCounts, SameFlush, SameFifo
<1>1. w.s \in Sessions /\ w.told \in [Commands -> Statuses]
  BY WorldType
<1>2. CASE w.s.flush = Nobody \/ w.s.final
  <2>1. Marks(w.told, {}, "failed") = w.told
    BY <1>1 DEF Marks
  <2> QED BY <1>2, <2>1 DEF FailSafeBoundaryDelivery, Flushed
<1>3. CASE ~ (w.s.flush = Nobody \/ w.s.final)
  <2> DEFINE s == [w.s EXCEPT !.final = TRUE]
             u == [w EXCEPT !.s = s]
  <2>1. FailSafeBoundaryDelivery(w) = Tell(u, {w.s.flush.cmd}, "failed")
    BY <1>3 DEF FailSafeBoundaryDelivery, Worlds
  <2>2. /\ s \in Sessions /\ SameControl(s, w.s) /\ SameCounts(s, w.s)
        /\ SameFifo(s, w.s) /\ s.queue = w.s.queue /\ s.admission = w.s.admission
        /\ s.flush = w.s.flush /\ s.final = TRUE
    BY <1>1 DEF Sessions
  <2> HIDE DEF s
  <2>3. u \in Worlds /\ u.s = s /\ u.lane = w.lane /\ u.told = w.told
    BY <1>1, <2>2, Put, WorldType
  <2> HIDE DEF u
  <2>4. Owed(u, {w.s.flush.cmd}) /\ Flushed(w.s) = {w.s.flush.cmd} /\ Flushed(s) = {}
    BY <1>3, <2>2, <2>3 DEF Owed, Flushed
  <2> QED BY <2>1, <2>2, <2>3, <2>4, FailedIs
<1> QED BY <1>2, <1>3

\* The admission queue after its steers have been settled.
LEMMA MarkedFifo ==
  ASSUME NEW q \in Seq(Entries),
         NEW p, p = [i \in DOMAIN q |-> IF Unanswered(q[i]) THEN [q[i] EXCEPT !.final = TRUE]
                                        ELSE q[i]]
  PROVE  /\ p \in Seq(Entries) /\ Steers(p) = {} /\ Single(p)
         /\ p = <<>> <=> q = <<>>
         /\ q # <<>> => Head(p).kind = Head(q).kind
<1>1. DOMAIN q = 1..Len(q) /\ Len(q) \in Nat /\ \A i \in DOMAIN q : q[i] \in Entries
  BY LenProperties
<1>2. \A i \in DOMAIN q : p[i] \in Entries /\ ~ Unanswered(p[i]) /\ p[i].kind = q[i].kind
  BY <1>1 DEF Entries, Unanswered
<1>3. DOMAIN p = 1..Len(q)
  BY <1>1
<1>4. p \in Seq(Entries) /\ Len(p) = Len(q)
  <2>1. p \in [1..Len(q) -> Entries]
    BY <1>1, <1>2
  <2> QED BY <1>1, <1>3, <2>1
<1>5. Steers(p) = {} /\ Single(p)
  BY <1>1, <1>2, <1>3 DEF Steers, Single
<1>6. p = <<>> <=> q = <<>>
  BY <1>4, EmptySeq
<1>7. q # <<>> => Head(p).kind = Head(q).kind
  <2> SUFFICES ASSUME q # <<>>
               PROVE  Head(p).kind = Head(q).kind
    OBVIOUS
  <2>1. Len(q) # 0 /\ 1 \in DOMAIN q
    BY <1>1, EmptySeq
  <2>2. Head(q) = q[1] /\ Head(p) = p[1]
    BY <1>4, <1>6, HeadTailProperties
  <2> QED BY <1>2, <2>1, <2>2
<1> QED BY <1>4, <1>5, <1>6, <1>7

Answered(a, b) ==
    /\ Steered(a) = {} /\ Single(a.fifo) /\ a.stage = b.stage
    /\ a.fifo = <<>> <=> b.fifo = <<>>
    /\ b.fifo # <<>> => Head(a.fifo).kind = Head(b.fifo).kind

LEMMA FailSteersIs ==
  ASSUME NEW w \in Worlds, Owed(w, Steered(w.s))
  PROVE  LET v == FailSteeringDeliveries(w) IN
         /\ v \in Worlds /\ v.lane = w.lane
         /\ SameControl(v.s, w.s) /\ SameCounts(v.s, w.s) /\ SameFlush(v.s, w.s)
         /\ v.s.queue = w.s.queue /\ v.s.admission = w.s.admission
         /\ Answered(v.s, w.s)
         /\ v.told = Marks(w.told, Steered(w.s), "failed")
<1> USE DEF SameControl, SameCounts, SameFlush
<1> DEFINE q == w.s.fifo
           p == [i \in DOMAIN q |-> IF Unanswered(q[i]) THEN [q[i] EXCEPT !.final = TRUE] ELSE q[i]]
           s == [w.s EXCEPT !.fifo = p]
           u == [w EXCEPT !.s = s]
<1>1. w.s \in Sessions /\ w.told \in [Commands -> Statuses]
  BY WorldType
<1>2. FailSteeringDeliveries(w) = Tell([w EXCEPT !.s.fifo = p], Steered(w.s), "failed")
  BY Zenon DEF FailSteeringDeliveries, Unanswered, Steered, Steers
<1>3. q \in Seq(Entries)
  BY <1>1 DEF Sessions
<1>4. /\ p \in Seq(Entries) /\ Steers(p) = {} /\ Single(p)
      /\ p = <<>> <=> q = <<>>
      /\ q # <<>> => Head(p).kind = Head(q).kind
  <2> HIDE DEF q
  <2> QED BY <1>3, MarkedFifo
<1> HIDE DEF p
<1>5. [w EXCEPT !.s.fifo = p] = u
  BY DEF Worlds
<1>6. /\ s \in Sessions /\ SameControl(s, w.s) /\ SameCounts(s, w.s) /\ SameFlush(s, w.s)
      /\ s.queue = w.s.queue /\ s.admission = w.s.admission /\ s.fifo = p /\ s.stage = w.s.stage
  BY <1>1, <1>4 DEF Sessions
<1>7. Answered(s, w.s)
  BY <1>4, <1>6 DEF Answered, Steered
<1> HIDE DEF s
<1>8. u \in Worlds /\ u.s = s /\ u.lane = w.lane /\ u.told = w.told
  BY <1>6, Put
<1> HIDE DEF u
<1>9. Owed(u, Steered(w.s))
  BY <1>8 DEF Owed
<1> QED BY <1>2, <1>5, <1>6, <1>7, <1>8, <1>9, FailedIs

LEMMA FailQueuedIs ==
  ASSUME NEW w \in Worlds, Owed(w, Queued(w.s))
  PROVE  LET v == FailQueued(w) IN
         /\ v \in Worlds /\ v.lane = w.lane
         /\ SameControl(v.s, w.s) /\ SameCounts(v.s, w.s) /\ SameFlush(v.s, w.s)
         /\ SameFifo(v.s, w.s) /\ v.s.admission = w.s.admission /\ v.s.queue = <<>>
         /\ v.told = Marks(w.told, Queued(w.s), "failed")
<1> USE DEF SameControl, SameCounts, SameFlush, SameFifo
<1> DEFINE s == [w.s EXCEPT !.queue = <<>>]
           u == [w EXCEPT !.s = s]
<1>1. w.s \in Sessions /\ <<>> \in Seq(Commands)
  BY WorldType, EmptySeq
<1>2. FailQueued(w) = Tell(u, Queued(w.s), "failed")
  BY DEF FailQueued, Worlds, Queued
<1>3. /\ s \in Sessions /\ SameControl(s, w.s) /\ SameCounts(s, w.s) /\ SameFlush(s, w.s)
      /\ SameFifo(s, w.s) /\ s.admission = w.s.admission /\ s.queue = <<>>
  BY <1>1 DEF Sessions
<1> HIDE DEF s
<1>4. u \in Worlds /\ u.s = s /\ u.lane = w.lane /\ u.told = w.told
  BY <1>3, Put
<1> HIDE DEF u
<1>5. Owed(u, Queued(w.s))
  BY <1>4 DEF Owed
<1> QED BY <1>2, <1>3, <1>4, <1>5, FailedIs

\* The places depend on these fields only.
LEMMA PlacesFrame ==
  ASSUME NEW a, NEW b, a.queue = b.queue, a.admission = b.admission, SameFlush(a, b),
         a.fifo = b.fifo
  PROVE  /\ Starting(a) = Starting(b) /\ Flushed(a) = Flushed(b)
         /\ Steered(a) = Steered(b) /\ Queued(a) = Queued(b)
         /\ InFlight(a) = InFlight(b) /\ Waiting(a) = Waiting(b)
         /\ \A t, C : PlacedBut(a, t, C) <=> PlacedBut(b, t, C)
         /\ \A t : LineOf(a, t) = LineOf(b, t)
<1>1. /\ Starting(a) = Starting(b) /\ Flushed(a) = Flushed(b)
      /\ Steered(a) = Steered(b) /\ Queued(a) = Queued(b)
  BY DEF Starting, Flushed, Steered, Queued, SameFlush
<1>2. InFlight(a) = InFlight(b) /\ Waiting(a) = Waiting(b)
  BY <1>1 DEF InFlight, Waiting
<1>3. \A t : LineOf(a, t) = LineOf(b, t)
  BY DEF LineOf, SameFlush
<1> QED BY <1>1, <1>2, <1>3 DEF PlacedBut

LEMMA PlacesType ==
  ASSUME NEW s \in Sessions
  PROVE  /\ Starting(s) \subseteq Commands /\ Flushed(s) \subseteq Commands
         /\ Steered(s) \subseteq Commands /\ Queued(s) \subseteq Commands
<1>1. Starting(s) \subseteq Commands /\ Flushed(s) \subseteq Commands
  BY DEF Sessions, Starting, Flushed, Offers
<1>2. /\ s.fifo \in Seq(Entries) /\ DOMAIN s.fifo = 1..Len(s.fifo)
      /\ \A i \in DOMAIN s.fifo : s.fifo[i] \in Entries
  BY LenProperties DEF Sessions
<1>3. /\ s.queue \in Seq(Commands) /\ \A i \in DOMAIN s.queue : s.queue[i] \in Commands
  BY LenProperties DEF Sessions
<1>4. Steered(s) \subseteq Commands
  BY <1>2 DEF Steered, Steers, Entries
<1>5. Queued(s) \subseteq Commands
  BY <1>3 DEF Queued, ToSet
<1> QED BY <1>1, <1>4, <1>5

LEMMA FailInFlightIs ==
  ASSUME NEW w \in Worlds, NEW C, PlacedBut(w.s, w.told, C)
  PROVE  LET v == FailInFlight(w) IN
         /\ v \in Worlds /\ v.lane = w.lane
         /\ SameControl(v.s, w.s) /\ SameCounts(v.s, w.s)
         /\ v.s.queue = w.s.queue /\ v.s.admission = Nobody
         /\ v.s.flush = w.s.flush /\ Flushed(v.s) = {} /\ Answered(v.s, w.s)
         /\ v.told = Marks(w.told, InFlight(w.s), "failed")
<1> DEFINE w1 == FailTurnAdmission(w)
           w2 == FailSafeBoundaryDelivery(w1)
           w3 == FailSteeringDeliveries(w2)
<1>1. /\ w.s \in Sessions
      /\ Starting(w.s) \subseteq Commands /\ Flushed(w.s) \subseteq Commands
      /\ Steered(w.s) \subseteq Commands
      /\ Starting(w.s) \cap Flushed(w.s) = {} /\ Starting(w.s) \cap Steered(w.s) = {}
      /\ Flushed(w.s) \cap Steered(w.s) = {}
      /\ Owed(w, Starting(w.s)) /\ Owed(w, Flushed(w.s)) /\ Owed(w, Steered(w.s))
  BY WorldType, PlacesType DEF PlacedBut, Owed
<1>2. /\ w1 \in Worlds /\ w1.lane = w.lane
      /\ SameControl(w1.s, w.s) /\ SameCounts(w1.s, w.s)
      /\ SameFlush(w1.s, w.s) /\ SameFifo(w1.s, w.s)
      /\ w1.s.queue = w.s.queue /\ w1.s.admission = Nobody
      /\ w1.told = Marks(w.told, Starting(w.s), "failed")
  BY <1>1, FailTurnIs
<1> HIDE DEF w1
<1>3. Flushed(w1.s) = Flushed(w.s) /\ Steered(w1.s) = Steered(w.s)
  BY <1>2 DEF Flushed, Steered, SameFlush, SameFifo
<1>4. Owed(w1, Flushed(w1.s))
  BY <1>1, <1>2, <1>3 DEF Owed, Marks
<1>5. /\ w2 \in Worlds /\ w2.lane = w1.lane
      /\ SameControl(w2.s, w1.s) /\ SameCounts(w2.s, w1.s) /\ SameFifo(w2.s, w1.s)
      /\ w2.s.queue = w1.s.queue /\ w2.s.admission = w1.s.admission
      /\ w2.s.flush = w1.s.flush /\ Flushed(w2.s) = {}
      /\ w2.told = Marks(w1.told, Flushed(w1.s), "failed")
  BY <1>2, <1>4, FailBoundaryIs
<1> HIDE DEF w2
<1>6. Steered(w2.s) = Steered(w.s)
  BY <1>3, <1>5 DEF Steered, SameFifo
<1>7. Owed(w2, Steered(w2.s))
  BY <1>1, <1>2, <1>3, <1>5, <1>6 DEF Owed, Marks
<1>8. /\ w3 \in Worlds /\ w3.lane = w2.lane
      /\ SameControl(w3.s, w2.s) /\ SameCounts(w3.s, w2.s) /\ SameFlush(w3.s, w2.s)
      /\ w3.s.queue = w2.s.queue /\ w3.s.admission = w2.s.admission
      /\ Answered(w3.s, w2.s)
      /\ w3.told = Marks(w2.told, Steered(w2.s), "failed")
  BY <1>5, <1>7, FailSteersIs
<1>9. FailInFlight(w) = w3
  BY DEF FailInFlight, w1, w2
<1> HIDE DEF w3
<1>10. w3.told = Marks(w.told, InFlight(w.s), "failed")
  BY <1>2, <1>3, <1>5, <1>6, <1>8 DEF Marks, InFlight
<1>11. SameControl(w3.s, w.s) /\ SameCounts(w3.s, w.s) /\ Answered(w3.s, w.s)
       /\ w3.s.flush = w.s.flush /\ Flushed(w3.s) = {}
  BY <1>2, <1>5, <1>8 DEF SameControl, SameCounts, Answered, SameFifo, SameFlush, Flushed
<1> QED BY <1>2, <1>5, <1>8, <1>9, <1>10, <1>11

LEMMA EnterStoppingIs ==
  ASSUME NEW w \in Worlds
  PROVE  LET v == EnterStopping(w) IN
         /\ v \in Worlds /\ v.lane = w.lane /\ v.told = w.told
         /\ v.s.state = "stopping" /\ v.s.last.turn = NoTurn /\ v.s.chains = {}
         /\ v.s.turn = w.s.turn /\ v.s.attached = w.s.attached
         /\ v.s.finishing = w.s.finishing /\ v.s.closers = w.s.closers
         /\ v.s.turns = w.s.turns /\ v.s.updates = w.s.updates /\ v.s.asked = w.s.asked
         /\ SameFlush(v.s, w.s) /\ SameFifo(v.s, w.s)
         /\ v.s.queue = w.s.queue /\ v.s.admission = w.s.admission
<1> DEFINE s == [w.s EXCEPT !.state = "stopping", !.last = Closed(NoTurn, {}), !.chains = {}]
<1>1. EnterStopping(w) = [w EXCEPT !.s = s]
  BY DEF EnterStopping, Worlds
<1>2. w.s \in Sessions
  BY WorldType
<1>3. /\ s \in Sessions
      /\ s.state = "stopping" /\ s.last.turn = NoTurn /\ s.chains = {}
      /\ s.turn = w.s.turn /\ s.attached = w.s.attached
      /\ s.finishing = w.s.finishing /\ s.closers = w.s.closers
      /\ s.turns = w.s.turns /\ s.updates = w.s.updates /\ s.asked = w.s.asked
      /\ SameFlush(s, w.s) /\ SameFifo(s, w.s)
      /\ s.queue = w.s.queue /\ s.admission = w.s.admission
  BY <1>2 DEF Sessions, States, Closed, NoTurn, SameFlush, SameFifo
<1> HIDE DEF s
<1> QED BY <1>1, <1>3, Put

LEMMA StopLaneIs ==
  ASSUME NEW w \in Worlds
  PROVE  LET v == StopLane(w) IN
         /\ v \in Worlds /\ v.s = w.s /\ v.told = w.told
         /\ v.lane # "live" /\ v.lane \in {w.lane, "stopping"}
         /\ v.lane = "opening" => w.lane = "opening"
<1>1. StopLane(w) = [w EXCEPT !.lane = IF w.lane = "live" THEN "stopping" ELSE w.lane]
  BY DEF StopLane, Worlds
<1> DEFINE l == IF w.lane = "live" THEN "stopping" ELSE w.lane
<1>2. w.s \in Sessions /\ w.lane \in Lanes
  BY WorldType
<1>3. l \in Lanes /\ l # "live" /\ l \in {w.lane, "stopping"} /\ (l = "opening" => w.lane = "opening")
  BY <1>2 DEF Lanes
<1> HIDE DEF l
<1>4. StopLane(w) = [w EXCEPT !.lane = l]
  BY <1>1 DEF l
<1> QED BY <1>2, <1>3, <1>4, PutLane
-----------------------------------------------------------------------------
(* The line, and what its parts look at.                                   *)

LEMMA PlacesOf ==
  ASSUME NEW s, NEW t, NEW C, PlacedBut(s, t, C)
  PROVE  /\ Distinct(s.queue) /\ Single(s.fifo)
         /\ Starting(s) \cap (Flushed(s) \cup Queued(s) \cup Steered(s)) = {}
         /\ Flushed(s) \cap (Queued(s) \cup Steered(s)) = {} /\ Queued(s) \cap Steered(s) = {}
         /\ \A c \in Starting(s) : t[c] \in {"pending", "queued"}
         /\ \A c \in Flushed(s) \cup Queued(s) : t[c] = "queued"
         /\ \A c \in Steered(s) : t[c] = "pending"
         /\ \A c \in Waiting(s) : t[c] \in {"pending", "queued"}
BY DEF PlacedBut, Waiting, InFlight

LEMMA LineIs ==
  ASSUME NEW s \in Sessions, NEW t, NEW C, PlacedBut(s, t, C), Phased(s)
  PROVE  /\ Flushed(s) # {} => LineOf(s, t) = <<s.flush.cmd>> \o s.queue
         /\ Flushed(s) = {} /\ s.admission # Nobody /\ t[s.admission.cmd] = "queued"
              => LineOf(s, t) = <<s.admission.cmd>> \o s.queue
         /\ Flushed(s) = {} /\ (s.admission # Nobody => t[s.admission.cmd] # "queued")
              => LineOf(s, t) = s.queue
<1> DEFINE Known(x) == IF x.cmd \in Commands /\ t[x.cmd] = "queued" THEN <<x.cmd>> ELSE <<>>
           first == IF s.final THEN <<>> ELSE Known(s.flush)
           second == Known(s.admission)
           q == s.queue
<1>1. LineOf(s, t) = first \o second \o q
  BY DEF LineOf
<1>2. /\ q \in Seq(Commands)
      /\ s.flush # Nobody => s.flush.cmd \in Commands
      /\ s.admission # Nobody => s.admission.cmd \in Commands
  BY DEF Sessions, Offers
<1>3. Nobody.cmd \notin Commands
  BY NobodyAssumption DEF Nobody
<1>4. Flushed(s) = {} => first = <<>>
  BY <1>3 DEF Flushed
<1>5. Flushed(s) # {} => /\ first = <<s.flush.cmd>> /\ s.flush.cmd \in Commands
                         /\ second = <<>>
  <2> SUFFICES ASSUME Flushed(s) # {}
               PROVE  /\ first = <<s.flush.cmd>> /\ s.flush.cmd \in Commands
                      /\ second = <<>>
    OBVIOUS
  <2>1. s.flush # Nobody /\ ~ s.final /\ s.flush.cmd \in Flushed(s)
    BY DEF Flushed
  <2>2. t[s.flush.cmd] = "queued"
    BY <2>1, PlacesOf
  <2>3. s.admission = Nobody
    BY DEF Phased
  <2> QED BY <1>2, <1>3, <2>1, <2>2, <2>3
<1>6. /\ s.admission = Nobody => second = <<>>
      /\ s.admission # Nobody /\ t[s.admission.cmd] # "queued" => second = <<>>
      /\ s.admission # Nobody /\ t[s.admission.cmd] = "queued" => second = <<s.admission.cmd>>
  BY <1>2, <1>3
<1> HIDE DEF first, second, q
<1>7. <<>> \o <<>> = <<>> /\ <<>> \o q = q
  BY <1>2, ConcatEmptySeq, EmptySeq
<1>8. \A c \in Commands : <<c>> \in Seq(Commands)
  OBVIOUS
<1>9. \A c \in Commands : <<c>> \o <<>> = <<c>> /\ <<>> \o <<c>> = <<c>>
  BY <1>8, ConcatEmptySeq
<1>10. q = s.queue
  BY DEF q
<1> QED BY <1>1, <1>2, <1>4, <1>5, <1>6, <1>7, <1>9, <1>10

\* The line is that of the queued commands.
LEMMA LineType ==
  ASSUME NEW s \in Sessions, NEW t, NEW C, PlacedBut(s, t, C), Phased(s)
  PROVE  /\ LineOf(s, t) \in Seq(Commands)
         /\ C = {} => ToSet(LineOf(s, t)) = {c \in Commands : t[c] = "queued"}
<1>1. /\ s.queue \in Seq(Commands)
      /\ s.flush # Nobody => s.flush.cmd \in Commands
      /\ s.admission # Nobody => s.admission.cmd \in Commands
      /\ Queued(s) \subseteq Commands
  BY PlacesType DEF Sessions, Offers
<1>2. Flushed(s) # {} => s.flush # Nobody /\ Flushed(s) = {s.flush.cmd} /\ Starting(s) = {}
  BY DEF Flushed, Phased, Starting
<1>3. /\ s.admission # Nobody => Starting(s) = {s.admission.cmd}
      /\ s.admission = Nobody => Starting(s) = {}
  BY DEF Starting
<1>4. /\ \A c \in Flushed(s) \cup Queued(s) : t[c] = "queued"
      /\ \A c \in Steered(s) : t[c] # "queued"
  BY PlacesOf
<1>5. C = {} => \A c \in Commands : t[c] = "queued" => c \in Flushed(s) \cup Queued(s) \cup Starting(s)
  BY <1>4 DEF PlacedBut, Waiting, InFlight
<1>6. \A c \in Commands : /\ <<c>> \o s.queue \in Seq(Commands)
                          /\ ToSet(<<c>> \o s.queue) = Queued(s) \cup {c}
  BY <1>1, ConsSet DEF Queued
<1>7. CASE Flushed(s) # {}
  <2>1. LineOf(s, t) = <<s.flush.cmd>> \o s.queue
    BY <1>7, LineIs
  <2> QED BY <1>1, <1>2, <1>4, <1>5, <1>6, <1>7, <2>1
<1>8. CASE Flushed(s) = {} /\ s.admission # Nobody /\ t[s.admission.cmd] = "queued"
  <2>1. LineOf(s, t) = <<s.admission.cmd>> \o s.queue
    BY <1>8, LineIs
  <2> QED BY <1>1, <1>3, <1>4, <1>5, <1>6, <1>8, <2>1
<1>9. CASE Flushed(s) = {} /\ (s.admission # Nobody => t[s.admission.cmd] # "queued")
  <2>1. LineOf(s, t) = s.queue
    BY <1>9, LineIs
  <2> QED BY <1>1, <1>3, <1>4, <1>5, <1>9, <2>1 DEF Queued
<1> QED BY <1>7, <1>8, <1>9

LEMMA Parts ==
  ASSUME NEW w, NEW C, GoodBut(w, C)
  PROVE  /\ w \in Worlds /\ w.s \in Sessions /\ w.lane \in Lanes /\ w.told \in [Commands -> Statuses]
         /\ Counted(w.s) /\ Laned(w.s, w.lane) /\ Headed(w.s) /\ Phased(w.s)
         /\ PlacedBut(w.s, w.told, C)
BY WorldType DEF GoodBut

\* Two worlds that are alike are equally good.
LEMMA AlikeIs ==
  ASSUME NEW a, NEW b, Alike(a, b)
  PROVE  /\ Counted(a) <=> Counted(b)
         /\ \A l : Laned(a, l) <=> Laned(b, l)
         /\ Headed(a) <=> Headed(b)
         /\ Phased(a) <=> Phased(b)
         /\ \A t, C : PlacedBut(a, t, C) <=> PlacedBut(b, t, C)
         /\ \A t : LineOf(a, t) = LineOf(b, t)
         /\ Waiting(a) = Waiting(b)
<1>1. SameControl(a, b) /\ SameCounts(a, b) /\ SameFlush(a, b) /\ SameFifo(a, b)
      /\ a.queue = b.queue /\ a.admission = b.admission /\ a.fifo = b.fifo
  BY DEF Alike, SameFifo
<1>2. /\ Starting(a) = Starting(b) /\ Flushed(a) = Flushed(b) /\ Waiting(a) = Waiting(b)
      /\ \A t, C : PlacedBut(a, t, C) <=> PlacedBut(b, t, C)
      /\ \A t : LineOf(a, t) = LineOf(b, t)
  BY <1>1, PlacesFrame
<1>3. Phased(a) <=> Phased(b)
  BY <1>1, <1>2 DEF Phased, SameControl
<1>4. Counted(a) <=> Counted(b)
  BY <1>1 DEF Counted, SameCounts, SameControl
<1>5. \A l : Laned(a, l) <=> Laned(b, l)
  BY <1>1 DEF Laned, SameControl, SameFifo, Ended
<1>6. Headed(a) <=> Headed(b)
  BY <1>1 DEF Headed, SameFifo
<1> QED BY <1>2, <1>3, <1>4, <1>5, <1>6

\* Something is said of commands that are at no place.
LEMMA LooseIs ==
  ASSUME NEW w, NEW C, GoodBut(w, C), NEW v \in Worlds, Alike(v.s, w.s), v.lane = w.lane,
         NEW X, X \cap Waiting(w.s) = {}, NEW what \in Statuses \ {"twice"},
         v.told = Marks(w.told, X, what)
  PROVE  /\ GoodBut(v, C \cup X)
         /\ what \notin {"pending", "queued"} => GoodBut(v, C \ X)
         /\ LineIn(v) = LineIn(w)
<1>1. /\ w.s \in Sessions /\ w.told \in [Commands -> Statuses]
      /\ Counted(v.s) /\ Laned(v.s, v.lane) /\ Headed(v.s) /\ Phased(v.s) /\ Phased(w.s)
      /\ PlacedBut(w.s, w.told, C)
      /\ Starting(w.s) \subseteq Commands /\ Flushed(w.s) \subseteq Commands
      /\ Steered(w.s) \subseteq Commands /\ Queued(w.s) \subseteq Commands
  BY Parts, AlikeIs, PlacesType
<1>2. \A c \in Waiting(w.s) : c \notin X /\ c \in Commands /\ v.told[c] = w.told[c]
  BY <1>1 DEF Marks, Waiting, InFlight
<1>3. \A c \in Starting(w.s) \cup Flushed(w.s) \cup Steered(w.s) \cup Queued(w.s) : v.told[c] = w.told[c]
  BY <1>2 DEF Waiting, InFlight
<1>4. \A c \in Commands : v.told[c] = IF c \in X THEN what ELSE w.told[c]
  BY DEF Marks
<1>5. PlacedBut(w.s, v.told, C \cup X)
  BY <1>1, <1>3, <1>4 DEF PlacedBut
<1>6. what \notin {"pending", "queued"} => PlacedBut(w.s, v.told, C \ X)
  BY <1>1, <1>3, <1>4 DEF PlacedBut
<1>7. LineIn(v) = LineIn(w)
  <2>1. LineOf(v.s, v.told) = LineOf(w.s, v.told)
    BY AlikeIs
  <2>2. LineOf(w.s, v.told) = LineOf(w.s, w.told)
    <3>1. w.s.admission # Nobody => v.told[w.s.admission.cmd] = w.told[w.s.admission.cmd]
      BY <1>3 DEF Starting
    <3> QED BY <1>1, <1>5, <3>1, LineIs
  <2> QED BY <2>1, <2>2 DEF LineIn
<1> QED BY <1>1, <1>5, <1>6, <1>7, AlikeIs DEF GoodBut

LEMMA SameIs ==
  ASSUME NEW w, NEW C, GoodBut(w, C), NEW v \in Worlds, Alike(v.s, w.s), v.lane = w.lane,
         v.told = w.told
  PROVE  GoodBut(v, C) /\ LineIn(v) = LineIn(w)
BY Parts, AlikeIs DEF GoodBut, LineIn
-----------------------------------------------------------------------------
(* The admission queue of the lane.                                        *)

LEMMA DoneFields ==
  ASSUME NEW w \in Worlds, w.s.fifo # <<>>
  PROVE  LET v == Done(w) IN
         /\ v \in Worlds /\ v.lane = w.lane /\ v.told = w.told
         /\ SameControl(v.s, w.s) /\ SameCounts(v.s, w.s) /\ SameFlush(v.s, w.s)
         /\ v.s.queue = w.s.queue /\ v.s.admission = w.s.admission
         /\ v.s.fifo = Tail(w.s.fifo) /\ v.s.stage = "waiting"
<1> USE DEF SameControl, SameCounts, SameFlush
<1> DEFINE q == Tail(w.s.fifo)
           s == [w.s EXCEPT !.fifo = q, !.stage = "waiting"]
<1>1. w.s \in Sessions /\ w.s.fifo \in Seq(Entries)
  BY WorldType DEF Sessions
<1>2. q \in Seq(Entries)
  BY <1>1, SteersTail
<1>3. Done(w) = [w EXCEPT !.s = s]
  BY DEF Done, Worlds
<1> HIDE DEF q
<1>4. /\ s \in Sessions /\ SameControl(s, w.s) /\ SameCounts(s, w.s) /\ SameFlush(s, w.s)
      /\ s.queue = w.s.queue /\ s.admission = w.s.admission /\ s.fifo = q /\ s.stage = "waiting"
  BY <1>1, <1>2 DEF Sessions, Stages
<1> HIDE DEF s
<1> QED BY <1>3, <1>4, Put DEF q

\* A steer that leaves the queue unanswered has no place any more.
LEMMA DoneIs ==
  ASSUME NEW w, NEW C, GoodBut(w, C), w.s.fifo # <<>>, w.lane # "opening",
         w.s.closers = {} \/ Ended(w.s)
  PROVE  LET v  == Done(w)
             op == Head(w.s.fifo) IN
         /\ v.lane = w.lane /\ v.told = w.told /\ SameControl(v.s, w.s)
         /\ v.s.stage = "waiting" /\ v.s.queue = w.s.queue /\ SameFlush(v.s, w.s)
         /\ op \in Entries
         /\ ~ Unanswered(op) => GoodBut(v, C)
         /\ Unanswered(op) => GoodBut(v, C \cup {op.cmd}) /\ w.told[op.cmd] = "pending"
         /\ LineIn(v) = LineIn(w)
<1> DEFINE v == Done(w)
           op == Head(w.s.fifo)
<1>1. /\ w \in Worlds /\ w.s \in Sessions /\ w.s.fifo \in Seq(Entries) /\ w.told \in [Commands -> Statuses]
      /\ Counted(w.s) /\ Laned(w.s, w.lane) /\ Headed(w.s) /\ Phased(w.s)
      /\ PlacedBut(w.s, w.told, C)
  BY Parts DEF Sessions
<1>2. /\ v \in Worlds /\ v.lane = w.lane /\ v.told = w.told
      /\ SameControl(v.s, w.s) /\ SameCounts(v.s, w.s) /\ SameFlush(v.s, w.s)
      /\ v.s.queue = w.s.queue /\ v.s.admission = w.s.admission
      /\ v.s.fifo = Tail(w.s.fifo) /\ v.s.stage = "waiting"
  BY <1>1, DoneFields
<1> HIDE DEF v
<1>3. /\ op \in Entries
      /\ Steered(w.s) = Steered(v.s) \cup (IF Unanswered(op) THEN {op.cmd} ELSE {})
      /\ Single(w.s.fifo) => Single(v.s.fifo) /\ (Unanswered(op) => op.cmd \notin Steered(v.s))
  BY <1>1, <1>2, SteersTail DEF Steered
<1> HIDE DEF op
<1>4. Starting(v.s) = Starting(w.s) /\ Flushed(v.s) = Flushed(w.s) /\ Queued(v.s) = Queued(w.s)
  BY <1>2 DEF Starting, Flushed, Queued, SameFlush
<1>5. Counted(v.s) /\ Laned(v.s, v.lane) /\ Headed(v.s)
  BY <1>1, <1>2 DEF Counted, Laned, Headed, SameControl, SameCounts, Ended
<1>6. Waiting(v.s) \subseteq Waiting(w.s)
  BY <1>3, <1>4 DEF Waiting, InFlight
<1>7. Phased(v.s)
  BY <1>1, <1>2, <1>4, <1>6 DEF Phased, SameControl
<1>8. ~ Unanswered(op) => PlacedBut(v.s, v.told, C)
  BY <1>1, <1>2, <1>3, <1>4 DEF PlacedBut, Waiting, InFlight
<1>9. Unanswered(op) => PlacedBut(v.s, v.told, C \cup {op.cmd}) /\ w.told[op.cmd] = "pending"
  <2> SUFFICES ASSUME Unanswered(op)
               PROVE  PlacedBut(v.s, v.told, C \cup {op.cmd}) /\ w.told[op.cmd] = "pending"
    OBVIOUS
  <2>1. op.cmd \in Steered(w.s) /\ op.cmd \notin Steered(v.s)
    BY <1>1, <1>3, PlacesOf
  <2>2. w.told[op.cmd] = "pending"
    BY <1>1, <2>1, PlacesOf
  <2>3. op.cmd \notin Waiting(v.s)
    BY <1>1, <1>4, <2>1, PlacesOf DEF Waiting, InFlight
  <2>4. Waiting(w.s) = Waiting(v.s) \cup {op.cmd}
    BY <1>3, <1>4 DEF Waiting, InFlight
  <2> QED BY <1>1, <1>2, <1>3, <1>4, <2>2, <2>3, <2>4 DEF PlacedBut
<1>10. LineIn(v) = LineIn(w)
  BY <1>2 DEF LineIn, LineOf, SameFlush
<1> QED BY <1>2, <1>3, <1>5, <1>7, <1>8, <1>9, <1>10 DEF GoodBut, v, op

\* The first operation of the queue moves on at the lane.
LEMMA StageFields ==
  ASSUME NEW w \in Worlds, NEW x \in Stages
  PROVE  LET v == [w EXCEPT !.s.stage = x] IN
         /\ v \in Worlds /\ v.lane = w.lane /\ v.told = w.told
         /\ SameControl(v.s, w.s) /\ SameCounts(v.s, w.s) /\ SameFlush(v.s, w.s)
         /\ v.s.queue = w.s.queue /\ v.s.admission = w.s.admission
         /\ v.s.fifo = w.s.fifo /\ v.s.stage = x
<1> USE DEF SameControl, SameCounts, SameFlush
<1> DEFINE s == [w.s EXCEPT !.stage = x]
           v == [w EXCEPT !.s.stage = x]
<1>1. w.s \in Sessions
  BY WorldType
<1>2. v = [w EXCEPT !.s = s]
  BY DEF Worlds
<1>3. /\ s \in Sessions /\ SameControl(s, w.s) /\ SameCounts(s, w.s) /\ SameFlush(s, w.s)
      /\ s.queue = w.s.queue /\ s.admission = w.s.admission /\ s.fifo = w.s.fifo /\ s.stage = x
  BY <1>1 DEF Sessions
<1> HIDE DEF s, v
<1>4. /\ v \in Worlds /\ v.s = s /\ v.lane = w.lane /\ v.told = w.told
  BY <1>2, <1>3, Put
<1>5. /\ v \in Worlds /\ v.lane = w.lane /\ v.told = w.told
      /\ SameControl(v.s, w.s) /\ SameCounts(v.s, w.s) /\ SameFlush(v.s, w.s)
      /\ v.s.queue = w.s.queue /\ v.s.admission = w.s.admission
      /\ v.s.fifo = w.s.fifo /\ v.s.stage = x
  BY <1>3, <1>4
<1> QED BY <1>5 DEF v

LEMMA SendingIs ==
  ASSUME NEW w, NEW C, GoodBut(w, C), w.s.fifo # <<>>, w.s.stage = "waiting"
  PROVE  LET v == [w EXCEPT !.s.stage = "sending"] IN
         /\ GoodBut(v, C) /\ v.told = w.told /\ LineIn(v) = LineIn(w)
         /\ v.s.state = w.s.state
<1> DEFINE v == [w EXCEPT !.s.stage = "sending"]
<1>1. /\ w \in Worlds /\ Counted(w.s) /\ Laned(w.s, w.lane) /\ Phased(w.s)
      /\ PlacedBut(w.s, w.told, C)
  BY Parts
<1>2. /\ v \in Worlds /\ v.lane = w.lane /\ v.told = w.told
      /\ SameControl(v.s, w.s) /\ SameCounts(v.s, w.s) /\ SameFlush(v.s, w.s)
      /\ v.s.queue = w.s.queue /\ v.s.admission = w.s.admission
      /\ v.s.fifo = w.s.fifo /\ v.s.stage = "sending"
  BY <1>1, StageFields DEF Stages
<1> HIDE DEF v
<1>3. /\ Flushed(v.s) = Flushed(w.s) /\ Waiting(v.s) = Waiting(w.s)
      /\ PlacedBut(v.s, v.told, C) /\ LineOf(v.s, v.told) = LineOf(w.s, w.told)
  BY <1>1, <1>2, PlacesFrame
<1>4. Counted(v.s) /\ Laned(v.s, v.lane) /\ Headed(v.s) /\ Phased(v.s)
  BY <1>1, <1>2, <1>3 DEF Counted, Laned, Headed, Phased, SameControl, SameCounts, Ended
<1> QED BY <1>2, <1>3, <1>4 DEF GoodBut, LineIn, SameControl, v

LEMMA OpeningIs ==
  ASSUME NEW w, NEW C, GoodBut(w, C), w.s.fifo # <<>>, w.s.stage = "waiting",
         Head(w.s.fifo).kind = "prompt"
  PROVE  LET v == [w EXCEPT !.s.stage = "opening", !.lane = "opening"] IN
         /\ GoodBut(v, C) /\ v.told = w.told /\ LineIn(v) = LineIn(w)
         /\ v.s.state = w.s.state
<1> DEFINE u == [w EXCEPT !.s.stage = "opening"]
           v == [u EXCEPT !.lane = "opening"]
<1>1. /\ w \in Worlds /\ Counted(w.s) /\ Laned(w.s, w.lane) /\ Phased(w.s)
      /\ PlacedBut(w.s, w.told, C)
  BY Parts
<1>2. /\ u \in Worlds /\ u.lane = w.lane /\ u.told = w.told
      /\ SameControl(u.s, w.s) /\ SameCounts(u.s, w.s) /\ SameFlush(u.s, w.s)
      /\ u.s.queue = w.s.queue /\ u.s.admission = w.s.admission
      /\ u.s.fifo = w.s.fifo /\ u.s.stage = "opening"
  BY <1>1, StageFields DEF Stages
<1>3. [w EXCEPT !.s.stage = "opening", !.lane = "opening"] = v
  BY <1>1 DEF Worlds
<1> HIDE DEF u
<1>4. v \in Worlds /\ v.s = u.s /\ v.told = w.told /\ v.lane = "opening"
  BY <1>2, PutLane DEF Lanes
<1> HIDE DEF v
<1>5. /\ Flushed(v.s) = Flushed(w.s) /\ Waiting(v.s) = Waiting(w.s)
      /\ PlacedBut(v.s, v.told, C) /\ LineOf(v.s, v.told) = LineOf(w.s, w.told)
  BY <1>1, <1>2, <1>4, PlacesFrame
<1>6. Counted(v.s) /\ Laned(v.s, v.lane) /\ Headed(v.s) /\ Phased(v.s)
  BY <1>1, <1>2, <1>4, <1>5 DEF Counted, Laned, Headed, Phased, SameControl, SameCounts, Ended
<1> QED BY <1>2, <1>3, <1>4, <1>5, <1>6 DEF GoodBut, LineIn, SameControl
-----------------------------------------------------------------------------
(* What the client sees of a step.                                         *)

Stays(w, v) ==
    /\ v.told = w.told /\ LineIn(v) = LineIn(w)
    /\ v.s.state = "closed" <=> w.s.state = "closed"

\* The line loses nothing, its first command, or everything.
Kept(l, m) == m = l \/ (l # <<>> /\ m = Tail(l)) \/ m = <<>>

Fails(w, v, F) ==
    /\ w.s.state # "closed" /\ v.s.state # "closed"
    /\ F \subseteq Commands /\ Owed(w, F)
    /\ v.told = Marks(w.told, F, "failed")
    /\ Kept(LineIn(w), LineIn(v))

LEMMA LineLoses ==
  ASSUME NEW w, NEW C, GoodBut(w, C)
  PROVE  Kept(LineIn(w), w.s.queue)
<1>1. /\ w.s \in Sessions /\ PlacedBut(w.s, w.told, C) /\ Phased(w.s)
  BY Parts
<1>2. /\ w.s.queue \in Seq(Commands)
      /\ w.s.flush # Nobody => w.s.flush.cmd \in Commands
      /\ w.s.admission # Nobody => w.s.admission.cmd \in Commands
  BY <1>1 DEF Sessions, Offers
<1>3. ASSUME NEW c \in Commands PROVE Kept(<<c>> \o w.s.queue, w.s.queue)
  <2>1. <<c>> \o w.s.queue # <<>> /\ Tail(<<c>> \o w.s.queue) = w.s.queue
    BY <1>2, ConsSet
  <2> QED BY <2>1 DEF Kept
<1>4. Flushed(w.s) # {} => w.s.flush # Nobody
  BY DEF Flushed
<1> QED BY <1>1, <1>2, <1>3, <1>4, LineIs DEF Kept, LineIn

\* A session whose commands have all been settled, on its way to its end.
Spent(f) ==
    /\ f \in Worlds /\ Counted(f.s) /\ Headed(f.s) /\ Phased(f.s) /\ PlacedBut(f.s, f.told, {})
    /\ f.s.state = "stopping" /\ Waiting(f.s) = {}
    /\ f.s.queue = <<>> /\ f.s.admission = Nobody

LEMMA StoppedIs ==
  ASSUME NEW w, Good(w)
  PROVE  LET f == FailQueued(FailInFlight(EnterStopping(w))) IN
         /\ Spent(f) /\ f.lane = w.lane
         /\ f.told = Marks(w.told, Waiting(w.s), "failed")
         /\ Waiting(w.s) \subseteq Commands /\ Owed(w, Waiting(w.s))
         /\ f.s.turn = w.s.turn /\ f.s.attached = w.s.attached
         /\ f.s.finishing = w.s.finishing /\ f.s.closers = w.s.closers /\ f.s.stage = w.s.stage
<1> DEFINE e == EnterStopping(w)
           g == FailInFlight(e)
           f == FailQueued(g)
<1>1. /\ w \in Worlds /\ w.s \in Sessions /\ w.told \in [Commands -> Statuses]
      /\ Counted(w.s) /\ Headed(w.s) /\ PlacedBut(w.s, w.told, {})
      /\ Queued(w.s) \subseteq Commands
  BY Parts, PlacesType DEF Good
<1>2. /\ e \in Worlds /\ e.lane = w.lane /\ e.told = w.told
      /\ e.s.state = "stopping" /\ e.s.last.turn = NoTurn /\ e.s.chains = {}
      /\ e.s.turn = w.s.turn /\ e.s.attached = w.s.attached
      /\ e.s.finishing = w.s.finishing /\ e.s.closers = w.s.closers
      /\ e.s.turns = w.s.turns /\ e.s.updates = w.s.updates /\ e.s.asked = w.s.asked
      /\ SameFlush(e.s, w.s) /\ SameFifo(e.s, w.s)
      /\ e.s.queue = w.s.queue /\ e.s.admission = w.s.admission
  BY <1>1, EnterStoppingIs
<1> HIDE DEF e
<1>3. /\ PlacedBut(e.s, e.told, {}) /\ InFlight(e.s) = InFlight(w.s)
      /\ Queued(e.s) = Queued(w.s) /\ Waiting(e.s) = Waiting(w.s)
  BY <1>1, <1>2, PlacesFrame DEF SameFifo
<1>4. /\ g \in Worlds /\ g.lane = e.lane
      /\ SameControl(g.s, e.s) /\ SameCounts(g.s, e.s)
      /\ g.s.queue = e.s.queue /\ g.s.admission = Nobody
      /\ g.s.flush = e.s.flush /\ Flushed(g.s) = {} /\ Answered(g.s, e.s)
      /\ g.told = Marks(e.told, InFlight(e.s), "failed")
  BY <1>2, <1>3, FailInFlightIs
<1> HIDE DEF g
<1>5. Owed(g, Queued(g.s)) /\ Queued(g.s) = Queued(w.s)
  <2>1. Queued(g.s) = Queued(w.s)
    BY <1>3, <1>4 DEF Queued
  <2>2. \A c \in Queued(w.s) : c \notin InFlight(w.s) /\ w.told[c] = "queued"
    BY <1>1, PlacesOf DEF InFlight
  <2> QED BY <1>1, <1>2, <1>3, <1>4, <2>1, <2>2 DEF Owed, Marks
<1>6. /\ f \in Worlds /\ f.lane = g.lane
      /\ SameControl(f.s, g.s) /\ SameCounts(f.s, g.s) /\ SameFlush(f.s, g.s)
      /\ SameFifo(f.s, g.s) /\ f.s.admission = g.s.admission /\ f.s.queue = <<>>
      /\ f.told = Marks(g.told, Queued(g.s), "failed")
  BY <1>4, <1>5, FailQueuedIs
<1> HIDE DEF f
<1>7. /\ f.s.state = "stopping" /\ f.s.turn = w.s.turn /\ f.s.attached = w.s.attached
      /\ f.s.finishing = w.s.finishing /\ f.s.closers = w.s.closers /\ f.s.stage = w.s.stage
      /\ f.s.queue = <<>> /\ f.s.admission = Nobody
  BY <1>2, <1>4, <1>6 DEF SameControl, SameFifo, Answered
<1>8. /\ Starting(f.s) = {} /\ Flushed(f.s) = {} /\ Steered(f.s) = {} /\ Queued(f.s) = {}
      /\ Single(f.s.fifo) /\ Distinct(f.s.queue)
  <2>1. Flushed(f.s) = {} /\ Steered(f.s) = {} /\ Single(f.s.fifo)
    BY <1>4, <1>6 DEF Flushed, Steered, SameFlush, SameFifo, Answered
  <2>2. Queued(f.s) = {} /\ Distinct(f.s.queue)
    BY <1>7 DEF Queued, Distinct, ToSet
  <2> QED BY <1>7, <2>1, <2>2 DEF Starting
<1>9. Waiting(f.s) = {}
  BY <1>8 DEF Waiting, InFlight
<1>10. f.told = Marks(w.told, Waiting(w.s), "failed")
  BY <1>2, <1>3, <1>4, <1>5, <1>6 DEF Marks, Waiting
<1>11. PlacedBut(f.s, f.told, {})
  <2>1. \A c \in Commands : f.told[c] # "twice" /\ f.told[c] \notin {"pending", "queued"}
    BY <1>1, <1>10 DEF Marks, PlacedBut
  <2> QED BY <1>8, <1>9, <2>1 DEF PlacedBut
<1>12. Phased(f.s)
  BY <1>7, <1>8, <1>9 DEF Phased
<1>13. Counted(f.s)
  BY <1>1, <1>2, <1>4, <1>6, BoundsAssumption DEF Counted, SameControl, SameCounts, Worlds, Sessions, NoTurn
<1>14. Headed(f.s)
  BY <1>1, <1>2, <1>4, <1>6 DEF Headed, SameFifo, Answered
<1>15. Waiting(w.s) \subseteq Commands /\ Owed(w, Waiting(w.s))
  BY <1>1, PlacesOf, PlacesType DEF Owed, Waiting, InFlight
<1> QED BY <1>2, <1>4, <1>6, <1>7, <1>9, <1>10, <1>11, <1>12, <1>13, <1>14, <1>15
        DEF Spent, e, g, f

\* Where the end of the session leaves its other fields does not matter.
LEMMA EndedIs ==
  ASSUME NEW f, Spent(f), NEW v \in Worlds, v.s.state = "stopping", v.s.turn \in {f.s.turn, NoTurn},
         SameCounts(v.s, f.s), SameFlush(v.s, f.s), SameFifo(v.s, f.s),
         v.s.queue = f.s.queue, v.s.admission = f.s.admission, v.told = f.told,
         v.lane # "live", v.lane = "opening" => v.s.stage = "opening"
  PROVE  Good(v) /\ LineIn(v) = <<>>
<1>1. /\ Starting(v.s) = Starting(f.s) /\ Flushed(v.s) = Flushed(f.s) /\ Waiting(v.s) = Waiting(f.s)
      /\ PlacedBut(v.s, v.told, {})
  BY PlacesFrame DEF Spent, SameFifo
<1>2. Phased(v.s)
  BY <1>1 DEF Phased, Spent
<1>3. Laned(v.s, v.lane)
  BY DEF Laned, Ended
<1>4. Headed(v.s)
  BY DEF Headed, Spent, SameFifo
<1>5. Counted(v.s)
  BY DEF Counted, Spent, SameCounts, NoTurn, Worlds, Sessions
<1>6. LineIn(v) = <<>>
  <2>1. v.s \in Sessions /\ v.s.queue = <<>> /\ v.s.admission = Nobody
    BY WorldType DEF Spent
  <2>2. Flushed(v.s) = {}
    BY <1>1 DEF Spent, Waiting, InFlight
  <2> QED BY <1>1, <1>2, <2>1, <2>2, LineIs DEF LineIn
<1> QED BY <1>1, <1>2, <1>3, <1>4, <1>5, <1>6 DEF Good, GoodBut

LEMMA FinishIs ==
  ASSUME NEW w, Good(w), w.lane # "live"
  PROVE  LET v == Finish(w) IN
         /\ Good(v)
         /\ w.s.finishing \/ w.s.state = "closed" => v = w
         /\ ~ w.s.finishing /\ w.s.state # "closed" => Fails(w, v, Waiting(w.s)) /\ LineIn(v) = <<>>
<1>1. CASE w.s.finishing \/ w.s.state = "closed"
  BY <1>1 DEF Finish
<1>2. CASE ~ (w.s.finishing \/ w.s.state = "closed")
  <2> DEFINE f == FailQueued(FailInFlight(EnterStopping(w)))
             s == [f.s EXCEPT !.finishing = TRUE, !.turn = NoTurn, !.members = {}]
             v == [f EXCEPT !.s = s]
  <2>1. /\ Spent(f) /\ f.lane = w.lane
        /\ f.told = Marks(w.told, Waiting(w.s), "failed")
        /\ Waiting(w.s) \subseteq Commands /\ Owed(w, Waiting(w.s))
        /\ f.s.stage = w.s.stage
    BY StoppedIs
  <2>2. Finish(w) = [f EXCEPT !.s.finishing = TRUE, !.s.turn = NoTurn, !.s.members = {}]
    BY <1>2 DEF Finish
  <2> HIDE DEF f
  <2>3. f \in Worlds /\ f.s \in Sessions
    BY <2>1, WorldType DEF Spent
  <2>4. Finish(w) = v
    BY <2>2, <2>3 DEF Worlds
  <2>5. /\ s \in Sessions /\ s.state = f.s.state /\ s.turn = NoTurn
        /\ SameCounts(s, f.s) /\ SameFlush(s, f.s) /\ SameFifo(s, f.s)
        /\ s.queue = f.s.queue /\ s.admission = f.s.admission
    BY <2>3 DEF Sessions, SameCounts, SameFlush, SameFifo, NoTurn
  <2> HIDE DEF s
  <2>6. v \in Worlds /\ v.s = s /\ v.lane = f.lane /\ v.told = f.told
    BY <2>3, <2>5, Put
  <2> HIDE DEF v
  <2>7. v.s.state = "stopping" /\ v.lane # "live" /\ (v.lane = "opening" => v.s.stage = "opening")
    <3>1. Laned(w.s, w.lane)
      BY Parts DEF Good
    <3> QED BY <2>1, <2>5, <2>6, <3>1 DEF Spent, Laned, SameFifo
  <2>8. Good(v) /\ LineIn(v) = <<>>
    BY <2>1, <2>5, <2>6, <2>7, EndedIs
  <2> QED BY <1>2, <2>1, <2>4, <2>6, <2>7, <2>8 DEF Fails, Kept
<1> QED BY <1>1, <1>2

\* A start that failed settles its command; without a lane it settles everything.
LEMMA FailedStartIs ==
  ASSUME NEW w, Good(w), w.s.fifo # <<>>, w.lane # "opening", w.s.stage # "over",
         Head(w.s.fifo).kind = "prompt"
  PROVE  LET v == FailedStart(w) IN
         Good(v) /\ (Stays(w, v) \/ \E F : Fails(w, v, F))
<1> DEFINE op == Head(w.s.fifo)
           f0 == FailTurnAdmission(w)
           s == [f0.s EXCEPT !.turn = NoTurn, !.members = {}, !.stage = "over"]
           f == [f0 EXCEPT !.s = s]
<1>1. /\ w \in Worlds /\ w.s \in Sessions /\ w.told \in [Commands -> Statuses]
      /\ Counted(w.s) /\ Laned(w.s, w.lane) /\ Headed(w.s) /\ Phased(w.s)
      /\ PlacedBut(w.s, w.told, {})
      /\ Starting(w.s) \subseteq Commands
  BY Parts, PlacesType DEF Good
<1>2. op \in Entries
  BY <1>1, SteersTail DEF Sessions
<1>3. CASE w.s.state # "starting" \/ w.s.turn # op.turn \/ w.s.admission.turn # op.turn
  <2>1. FailedStart(w) = Done(w)
    BY <1>3 DEF FailedStart
  <2>2. ~ Unanswered(op)
    BY DEF Unanswered
  <2>3. w.s.closers = {} \/ Ended(w.s)
    BY <1>1 DEF Laned
  <2> QED BY <2>1, <2>2, <2>3, DoneIs DEF Good, Stays, SameControl
<1>4. CASE w.s.state = "starting" /\ w.s.turn = op.turn /\ w.s.admission.turn = op.turn
  <2>1. Owed(w, Starting(w.s))
    BY <1>1, PlacesOf DEF Owed
  <2>2. /\ f0 \in Worlds /\ f0.lane = w.lane
        /\ SameControl(f0.s, w.s) /\ SameCounts(f0.s, w.s)
        /\ SameFlush(f0.s, w.s) /\ SameFifo(f0.s, w.s)
        /\ f0.s.queue = w.s.queue /\ f0.s.admission = Nobody
        /\ f0.told = Marks(w.told, Starting(w.s), "failed")
    BY <1>1, <2>1, FailTurnIs
  <2> HIDE DEF f0
  <2>3. f0.s \in Sessions
    BY <2>2, WorldType
  <2>4. /\ s \in Sessions /\ s.turn = NoTurn /\ s.stage = "over" /\ s.state = f0.s.state
        /\ s.attached = f0.s.attached /\ s.finishing = f0.s.finishing /\ s.closers = f0.s.closers
        /\ SameCounts(s, f0.s) /\ SameFlush(s, f0.s) /\ s.fifo = f0.s.fifo
        /\ s.queue = f0.s.queue /\ s.admission = f0.s.admission
    BY <2>3 DEF Sessions, NoTurn, Stages, SameCounts, SameFlush
  <2>5. f = [f0 EXCEPT !.s.turn = NoTurn, !.s.members = {}, !.s.stage = "over"]
    BY <2>2 DEF Worlds
  <2> HIDE DEF s
  <2>6. f \in Worlds /\ f.s = s /\ f.lane = w.lane /\ f.told = f0.told
    BY <2>2, <2>4, Put
  <2> HIDE DEF f
  <2>7. /\ f.s.state = "starting" /\ f.s.turn = NoTurn /\ f.s.stage = "over"
        /\ f.s.attached = w.s.attached /\ f.s.finishing = w.s.finishing /\ f.s.closers = w.s.closers
        /\ SameCounts(f.s, w.s) /\ SameFlush(f.s, w.s) /\ f.s.fifo = w.s.fifo
        /\ f.s.queue = w.s.queue /\ f.s.admission = Nobody
        /\ f.told = Marks(w.told, Starting(w.s), "failed")
    BY <1>4, <2>2, <2>4, <2>6 DEF SameControl, SameCounts, SameFlush, SameFifo
  <2>8. /\ Starting(f.s) = {} /\ Flushed(f.s) = Flushed(w.s) /\ Steered(f.s) = Steered(w.s)
        /\ Queued(f.s) = Queued(w.s)
    BY <2>7 DEF Starting, Flushed, Steered, Queued, SameFlush
  <2>9. Counted(f.s) /\ Headed(f.s) /\ Phased(f.s)
    BY <1>1, <1>4, <2>7, <2>8 DEF Counted, Headed, Phased, SameCounts, NoTurn, Sessions
  <2>10. PlacedBut(f.s, f.told, {})
    <3>1. /\ \A c \in Starting(w.s) : f.told[c] = "failed"
          /\ \A c \in Commands : c \notin Starting(w.s) => f.told[c] = w.told[c]
      BY <1>1, <2>7 DEF Marks
    <3>2. \A c \in Flushed(f.s) \cup Steered(f.s) \cup Queued(f.s) :
             c \in Commands /\ c \notin Starting(w.s)
      BY <1>1, <2>8, PlacesOf, PlacesType
    <3>3. Waiting(w.s) = Starting(w.s) \cup Waiting(f.s)
      BY <2>8 DEF Waiting, InFlight
    <3>4. \A c \in Commands : f.told[c] # "twice"
                            /\ (f.told[c] \in {"pending", "queued"} => c \in Waiting(f.s))
      BY <1>1, <3>1, <3>3 DEF PlacedBut
    <3> QED BY <1>1, <2>7, <2>8, <3>1, <3>2, <3>4 DEF PlacedBut
  <2>11. ~ w.s.finishing /\ w.s.state # "closed"
    BY <1>1, <1>4 DEF Phased
  <2>12. CASE w.s.attached
    <3> DEFINE s2 == [f.s EXCEPT !.attached = FALSE, !.closers = @ \cup {"start"}]
               u == [f EXCEPT !.s = s2]
               v == StopLane(u)
    <3>1. FailedStart(w) = StopLane([f EXCEPT !.s.attached = FALSE, !.s.closers = @ \cup {"start"}])
      BY <1>4, <2>5, <2>12 DEF FailedStart, op, f0
    <3>2. FailedStart(w) = v
      BY <2>6, <3>1 DEF Worlds
    <3>3. f.s \in Sessions
      BY <2>6, WorldType
    <3>4. /\ s2 \in Sessions /\ s2.state = f.s.state /\ s2.turn = f.s.turn /\ s2.stage = f.s.stage
          /\ s2.finishing = f.s.finishing
          /\ SameCounts(s2, f.s) /\ SameFlush(s2, f.s) /\ s2.fifo = f.s.fifo
          /\ s2.queue = f.s.queue /\ s2.admission = f.s.admission
      BY <3>3 DEF Sessions, SameCounts, SameFlush, Closers
    <3> HIDE DEF s2
    <3>5. u \in Worlds /\ u.s = s2 /\ u.lane = f.lane /\ u.told = f.told
      BY <2>6, <3>4, Put
    <3> HIDE DEF u
    <3>6. v \in Worlds /\ v.s = s2 /\ v.told = f.told /\ v.lane # "live" /\ v.lane # "opening"
      BY <2>6, <3>5, StopLaneIs
    <3> HIDE DEF v
    <3>7. /\ Starting(v.s) = Starting(f.s) /\ Flushed(v.s) = Flushed(f.s)
          /\ Waiting(v.s) = Waiting(f.s) /\ PlacedBut(v.s, v.told, {})
      BY <2>10, <3>4, <3>6, PlacesFrame
    <3>8. Counted(v.s) /\ Headed(v.s) /\ Phased(v.s) /\ Laned(v.s, v.lane)
      BY <2>7, <2>9, <3>4, <3>6, <3>7 DEF Counted, Headed, Phased, SameCounts, Laned
    <3>9. Good(v)
      BY <3>6, <3>7, <3>8 DEF Good, GoodBut
    <3>10. LineIn(v) = w.s.queue
      <4>1. Flushed(w.s) = {}
        BY <1>1, <1>2, <1>4 DEF Phased, Entries
      <4> QED BY <2>7, <2>8, <3>4, <3>6, <3>7, <3>8, <4>1, LineIs DEF LineIn
    <3>11. Fails(w, v, Starting(w.s))
      BY <1>1, <2>1, <2>7, <2>11, <3>4, <3>6, <3>10, LineLoses DEF Fails, Good
    <3> QED BY <3>2, <3>9, <3>11
  <2>13. CASE ~ w.s.attached
    <3> DEFINE v == Finish(f)
    <3>1. FailedStart(w) = v
      BY <1>4, <2>5, <2>13 DEF FailedStart, op, f0
    <3>2. w.lane # "live" /\ Laned(f.s, f.lane)
      BY <1>1, <2>6, <2>7, <2>13 DEF Laned
    <3>3. Good(f)
      BY <2>6, <2>9, <2>10, <3>2 DEF Good, GoodBut
    <3>4. Good(v) /\ Fails(f, v, Waiting(f.s)) /\ LineIn(v) = <<>>
      BY <2>6, <2>7, <2>11, <3>2, <3>3, FinishIs
    <3> HIDE DEF v
    <3>5. Waiting(w.s) = Starting(w.s) \cup Waiting(f.s)
      BY <2>8 DEF Waiting, InFlight
    <3>6. v.told = Marks(w.told, Waiting(w.s), "failed")
      BY <2>7, <3>4, <3>5 DEF Fails, Marks
    <3>7. Waiting(w.s) \subseteq Commands /\ Owed(w, Waiting(w.s))
      BY <1>1, PlacesOf, PlacesType DEF Owed, Waiting, InFlight
    <3>8. Fails(w, v, Waiting(w.s))
      BY <2>11, <3>4, <3>6, <3>7 DEF Fails, Kept
    <3> QED BY <3>1, <3>4, <3>8
  <2> QED BY <2>12, <2>13
<1> QED BY <1>3, <1>4

\* A steer without a place is settled.
LEMMA LooseFails ==
  ASSUME NEW w, NEW c \in Commands, GoodBut(w, {c}), w.told[c] \in {"pending", "queued"}
  PROVE  LET v == Tell(w, {c}, "failed") IN
         Good(v) /\ v.told = Marks(w.told, {c}, "failed") /\ LineIn(v) = LineIn(w)
<1> DEFINE v == Tell(w, {c}, "failed")
<1>1. w \in Worlds /\ PlacedBut(w.s, w.told, {c})
  BY Parts
<1>2. v \in Worlds /\ v.s = w.s /\ v.lane = w.lane /\ v.told = Marks(w.told, {c}, "failed")
  BY <1>1, FailedIs DEF Owed
<1> HIDE DEF v
<1>3. Alike(v.s, w.s)
  BY <1>2 DEF Alike, SameControl, SameCounts, SameFlush, SameFifo
<1>4. {c} \cap Waiting(w.s) = {} /\ "failed" \in Statuses \ {"twice"}
  BY <1>1 DEF PlacedBut, Statuses
<1>5. GoodBut(v, {c} \ {c}) /\ LineIn(v) = LineIn(w)
  BY <1>2, <1>3, <1>4, LooseIs
<1> QED BY <1>2, <1>5 DEF Good, v

LEMMA BeginIs ==
  ASSUME NEW w, Good(w), w.s.fifo # <<>>, w.s.stage = "waiting"
  PROVE  LET v == Begin(w) IN
         Good(v) /\ (Stays(w, v) \/ \E F : Fails(w, v, F))
<1> DEFINE op == Head(w.s.fifo)
           v == Begin(w)
<1>1. /\ w \in Worlds /\ w.s \in Sessions /\ Laned(w.s, w.lane) /\ Phased(w.s)
      /\ PlacedBut(w.s, w.told, {})
  BY Parts DEF Good
<1>2. op \in Entries /\ w.lane # "opening" /\ (w.s.closers = {} \/ Ended(w.s))
  BY <1>1, SteersTail DEF Sessions, Laned
<1>3. CASE op.kind = "prompt"
  <2>1. CASE op.opens
    BY <1>3, <2>1, OpeningIs DEF Begin, Good, Stays, SameControl
  <2>2. CASE ~ op.opens /\ w.s.attached
    BY <1>3, <2>2, SendingIs DEF Begin, Good, Stays, SameControl
  <2>3. CASE ~ op.opens /\ ~ w.s.attached
    <3>1. v = FailedStart(w)
      BY <1>3, <2>3 DEF Begin
    <3> QED BY <1>2, <1>3, <3>1, FailedStartIs
  <2> QED BY <2>1, <2>2, <2>3
<1>4. CASE op.kind # "prompt"
  <2>1. CASE op.final
    BY <1>2, <1>4, <2>1, DoneIs DEF Begin, Good, Stays, Unanswered, SameControl
  <2>2. CASE ~ op.final /\ w.s.attached /\ w.s.turn = op.turn
    BY <1>4, <2>2, SendingIs DEF Begin, Good, Stays, SameControl
  <2>3. CASE ~ op.final /\ ~ (w.s.attached /\ w.s.turn = op.turn)
    <3> DEFINE d == Done(w)
               u == Tell(w, {op.cmd}, "failed")
    <3>1. v = Done(u)
      BY <1>4, <2>3 DEF Begin
    <3>2. Unanswered(op) /\ op.cmd \in Commands
      BY <1>2, <1>4, <2>3 DEF Unanswered, Entries
    <3>3. /\ GoodBut(d, {op.cmd}) /\ w.told[op.cmd] = "pending" /\ d.told = w.told
          /\ LineIn(d) = LineIn(w)
      <4>1. {} \cup {op.cmd} = {op.cmd}
        OBVIOUS
      <4> QED BY <1>2, <3>2, <4>1, DoneIs DEF Good
    <3>4. /\ Good(v) /\ v.told = Marks(w.told, {op.cmd}, "failed") /\ LineIn(v) = LineIn(w)
          /\ SameControl(v.s, w.s)
      <4> DEFINE x == Tell(d, {op.cmd}, "failed")
      <4>1. Good(x) /\ x.told = Marks(d.told, {op.cmd}, "failed") /\ LineIn(x) = LineIn(d)
        BY <3>2, <3>3, LooseFails
      <4>2. x \in Worlds /\ x.s = d.s /\ x.lane = d.lane
        BY <3>3, Parts, TellIs DEF Statuses
      <4>3. /\ u \in Worlds /\ u.s = w.s /\ u.lane = w.lane
            /\ u.told = Marks(w.told, {op.cmd}, "failed")
        BY <1>1, <3>3, FailedIs DEF Owed
      <4> HIDE DEF x, u
      <4>4. /\ d.lane = w.lane /\ SameControl(d.s, w.s) /\ SameCounts(d.s, w.s)
            /\ SameFlush(d.s, w.s) /\ d.s.queue = w.s.queue /\ d.s.admission = w.s.admission
            /\ d.s.fifo = Tail(w.s.fifo) /\ d.s.stage = "waiting"
        BY <1>1, DoneFields
      <4>5. /\ v \in Worlds /\ v.lane = u.lane /\ v.told = u.told
            /\ SameControl(v.s, w.s) /\ SameCounts(v.s, w.s) /\ SameFlush(v.s, w.s)
            /\ v.s.queue = w.s.queue /\ v.s.admission = w.s.admission
            /\ v.s.fifo = Tail(w.s.fifo) /\ v.s.stage = "waiting"
        BY <3>1, <4>3, DoneFields
      <4> HIDE DEF d, v
      <4>6. Alike(v.s, x.s) /\ v.lane = x.lane /\ v.told = x.told
        BY <3>3, <4>1, <4>2, <4>3, <4>4, <4>5
           DEF Alike, SameControl, SameCounts, SameFlush, SameFifo
      <4>7. GoodBut(v, {}) /\ LineIn(v) = LineIn(x)
        BY <4>1, <4>5, <4>6, SameIs DEF Good
      <4> QED BY <3>3, <4>1, <4>5, <4>6, <4>7 DEF Good
    <3> HIDE DEF d, v
    <3>5. w.s.state # "closed"
      <4>1. op.cmd \in Steered(w.s)
        BY <1>1, <3>2, SteersTail DEF Steered, Sessions
      <4> QED BY <1>1, <4>1 DEF Phased, Waiting, InFlight
    <3>6. Fails(w, v, {op.cmd})
      BY <3>2, <3>3, <3>4, <3>5 DEF Fails, Owed, Kept, SameControl
    <3> QED BY <3>4, <3>6 DEF v
  <2> QED BY <2>1, <2>2, <2>3
<1> QED BY <1>3, <1>4
-----------------------------------------------------------------------------
(* The safe-boundary queue and the end of a turn.                          *)

FlushTo(w, x, q) == [w EXCEPT !.s = [w.s EXCEPT !.flush = x, !.final = FALSE, !.queue = q]]

LEMMA FlushFields ==
  ASSUME NEW w \in Worlds, NEW x \in Offers \cup {Nobody}, NEW q \in Seq(Commands)
  PROVE  LET v == FlushTo(w, x, q) IN
         /\ v \in Worlds /\ v.lane = w.lane /\ v.told = w.told
         /\ SameControl(v.s, w.s) /\ SameCounts(v.s, w.s) /\ SameFifo(v.s, w.s)
         /\ v.s.admission = w.s.admission
         /\ v.s.flush = x /\ ~ v.s.final /\ v.s.queue = q
<1> USE DEF SameControl, SameCounts, SameFifo
<1> DEFINE s == [w.s EXCEPT !.flush = x, !.final = FALSE, !.queue = q]
           u == [w EXCEPT !.s = s]
<1>1. w.s \in Sessions
  BY WorldType
<1>2. FlushTo(w, x, q) = u
  BY DEF FlushTo
<1>3. /\ s \in Sessions /\ SameControl(s, w.s) /\ SameCounts(s, w.s) /\ SameFifo(s, w.s)
      /\ s.admission = w.s.admission /\ s.flush = x /\ s.final = FALSE /\ s.queue = q
  BY <1>1 DEF Sessions
<1> HIDE DEF s
<1>4. /\ u \in Worlds /\ u.s = s /\ u.lane = w.lane /\ u.told = w.told
  BY <1>3, Put
<1> HIDE DEF u
<1> QED BY <1>2, <1>3, <1>4

\* The places change, and nothing else that matters.
LEMMA PlacesIs ==
  ASSUME NEW w, NEW C, GoodBut(w, C), NEW v \in Worlds, v.lane = w.lane,
         SameControl(v.s, w.s), SameCounts(v.s, w.s), SameFifo(v.s, w.s),
         Phased(v.s), NEW D, PlacedBut(v.s, v.told, D)
  PROVE  GoodBut(v, D)
<1>1. Counted(w.s) /\ Laned(w.s, w.lane) /\ Headed(w.s)
  BY Parts
<1>2. Counted(v.s) /\ Laned(v.s, v.lane) /\ Headed(v.s)
  BY <1>1 DEF Counted, Laned, Headed, SameControl, SameCounts, SameFifo, Ended
<1> QED BY <1>2 DEF GoodBut

\* A flush that is over leaves the commands at their places.
LEMMA FlushEndsIs ==
  ASSUME NEW w, NEW C, GoodBut(w, C), Flushed(w.s) = {}
  PROVE  LET v == FlushEnds(w) IN
         GoodBut(v, C) /\ Stays(w, v) /\ SameControl(v.s, w.s)
<1> DEFINE v == FlushEnds(w)
<1>1. /\ w \in Worlds /\ w.s \in Sessions /\ Phased(w.s) /\ PlacedBut(w.s, w.told, C)
      /\ w.s.queue \in Seq(Commands)
  BY Parts DEF Sessions
<1> DEFINE q == w.s.queue
<1>2. v = FlushTo(w, Nobody, q)
  BY <1>1 DEF FlushEnds, FlushTo, Worlds, Sessions
<1>3. Nobody \in Offers \cup {Nobody} /\ q \in Seq(Commands) /\ q = w.s.queue
  BY <1>1
<1> HIDE DEF q, v
<1>4. /\ v \in Worlds /\ v.lane = w.lane /\ v.told = w.told
      /\ SameControl(v.s, w.s) /\ SameCounts(v.s, w.s) /\ SameFifo(v.s, w.s)
      /\ v.s.admission = w.s.admission
      /\ v.s.flush = Nobody /\ ~ v.s.final /\ v.s.queue = q
  BY <1>1, <1>2, <1>3, FlushFields
<1>5. /\ Starting(v.s) = Starting(w.s) /\ Flushed(v.s) = Flushed(w.s)
      /\ Steered(v.s) = Steered(w.s) /\ Queued(v.s) = Queued(w.s)
  BY <1>4, <1>3 DEF Starting, Flushed, Steered, Queued, SameFifo
<1>6. Waiting(v.s) = Waiting(w.s)
  BY <1>5 DEF Waiting, InFlight
<1>7. PlacedBut(v.s, v.told, C)
  BY <1>1, <1>4, <1>5, <1>6, <1>3 DEF PlacedBut, SameFifo
<1>8. Phased(v.s)
  BY <1>1, <1>4, <1>5, <1>6 DEF Phased, SameControl
<1>9. GoodBut(v, C)
  BY <1>4, <1>7, <1>8, PlacesIs
<1>10. v.s \in Sessions
  BY <1>4, WorldType
<1>11. LineIn(v) = LineIn(w)
  <2> DEFINE a == w.s.admission
  <2>1. CASE a # Nobody /\ w.told[a.cmd] = "queued"
    <3>1. LineOf(v.s, v.told) = <<a.cmd>> \o w.s.queue
      BY <1>4, <1>5, <1>7, <1>8, <1>10, <1>3, <2>1, LineIs
    <3>2. LineOf(w.s, w.told) = <<a.cmd>> \o w.s.queue
      BY <1>1, <2>1, LineIs
    <3> QED BY <3>1, <3>2 DEF LineIn
  <2>2. CASE a # Nobody => w.told[a.cmd] # "queued"
    <3>1. LineOf(v.s, v.told) = w.s.queue
      BY <1>4, <1>5, <1>7, <1>8, <1>10, <1>3, <2>2, LineIs
    <3>2. LineOf(w.s, w.told) = w.s.queue
      BY <1>1, <2>2, LineIs
    <3> QED BY <3>1, <3>2 DEF LineIn
  <2> QED BY <2>1, <2>2
<1> QED BY <1>4, <1>9, <1>11 DEF Stays, v, SameControl

\* drainSafeBoundaryQueue moves the first queued command to the lane, or nothing.
LEMMA DrainIs ==
  ASSUME NEW w, NEW C, GoodBut(w, C), Flushed(w.s) = {}
  PROVE  LET v == Drain(w) IN
         GoodBut(v, C) /\ Stays(w, v) /\ SameControl(v.s, w.s)
<1>1. CASE ~ CanFlush(w.s)
  BY <1>1, FlushEndsIs DEF Drain
<1>2. CASE CanFlush(w.s)
  <2> DEFINE h == Head(w.s.queue)
             q == Tail(w.s.queue)
             x == [cmd |-> h, turn |-> w.s.turn]
             v == Drain(w)
  <2>1. /\ w \in Worlds /\ w.s \in Sessions /\ Phased(w.s) /\ PlacedBut(w.s, w.told, C)
        /\ w.s.queue \in Seq(Commands) /\ w.s.turn \in Nat
    BY Parts DEF Sessions
  <2>2. w.s.state = "working" /\ w.s.turn # NoTurn /\ w.s.queue # <<>>
    BY <1>2 DEF CanFlush
  <2>3. v = FlushTo(w, x, q)
    BY <1>2, <2>1 DEF Drain, FlushTo, Worlds, Sessions
  <2>4. /\ q \in Seq(Commands) /\ h \in Commands
        /\ Queued(w.s) = ToSet(q) \cup {h}
        /\ Distinct(w.s.queue) => Distinct(q) /\ h \notin ToSet(q)
    BY <2>1, <2>2, TailSet DEF Queued
  <2>5. x \in Offers /\ x # Nobody /\ x.cmd = h
    BY <2>1, <2>2, <2>4, NobodyAssumption DEF Offers, Nobody
  <2>6. x \in Offers \cup {Nobody}
    BY <2>5
  <2>7. w.s.admission = Nobody /\ ~ w.s.finishing
    BY <2>1, <2>2 DEF Phased
  <2> HIDE DEF x, q, v, h
  <2>8. /\ v \in Worlds /\ v.lane = w.lane /\ v.told = w.told
        /\ SameControl(v.s, w.s) /\ SameCounts(v.s, w.s) /\ SameFifo(v.s, w.s)
        /\ v.s.admission = w.s.admission
        /\ v.s.flush = x /\ ~ v.s.final /\ v.s.queue = q
    BY <2>1, <2>3, <2>4, <2>5, <2>6, FlushFields
  <2>9. /\ Starting(v.s) = {} /\ Starting(w.s) = {} /\ Flushed(v.s) = {h}
        /\ Steered(v.s) = Steered(w.s) /\ Queued(v.s) = ToSet(q)
    BY <2>5, <2>7, <2>8 DEF Starting, Flushed, Steered, Queued, SameFifo
  <2>10. Waiting(v.s) = Waiting(w.s)
    BY <2>4, <2>9 DEF Waiting, InFlight
  <2>11. PlacedBut(v.s, v.told, C)
    BY <2>1, <2>4, <2>8, <2>9, <2>10 DEF PlacedBut, SameFifo
  <2>12. Phased(v.s)
    BY <2>1, <2>2, <2>7, <2>8, <2>9, <2>10 DEF Phased, SameControl
  <2>13. GoodBut(v, C)
    BY <2>8, <2>11, <2>12, PlacesIs
  <2>14. v.s \in Sessions
    BY <2>8, WorldType
  <2>15. LineIn(v) = <<h>> \o q
    BY <2>5, <2>8, <2>9, <2>11, <2>12, <2>14, LineIs DEF LineIn
  <2>16. LineIn(w) = w.s.queue
    BY <2>1, <2>7, LineIs DEF LineIn
  <2>17. <<h>> \o q = w.s.queue
    <3>1. /\ q = Tail(w.s.queue) /\ h = Head(w.s.queue)
      BY DEF q, h
    <3> QED BY <2>1, <2>2, <2>4, <3>1, HeadAndTail
  <2> QED BY <2>8, <2>13, <2>15, <2>16, <2>17 DEF Stays, v, SameControl
<1> QED BY <1>1, <1>2

LEMMA FlushIs ==
  ASSUME NEW w, Good(w)
  PROVE  LET v == FlushSafeBoundaryQueue(w) IN
         Good(v) /\ Stays(w, v) /\ SameControl(v.s, w.s)
<1>1. CASE w.s.flush # Nobody
  BY <1>1 DEF FlushSafeBoundaryQueue, Stays, SameControl
<1>2. CASE w.s.flush = Nobody
  <2>1. Flushed(w.s) = {}
    BY <1>2 DEF Flushed
  <2> QED BY <1>2, <2>1, DrainIs DEF FlushSafeBoundaryQueue, Good
<1> QED BY <1>1, <1>2

\* completeTurn fails what was offered to the turn; the queue stays.
LEMMA CompleteTurnIs ==
  ASSUME NEW w, Good(w), ~ Ended(w.s)
  PROVE  LET v == CompleteTurn(w) IN
         /\ Good(v) /\ v.told = Marks(w.told, InFlight(w.s), "failed")
         /\ InFlight(w.s) \subseteq Commands /\ Owed(w, InFlight(w.s))
         /\ LineIn(v) = w.s.queue /\ v.s.state = "idle" /\ v.lane = w.lane
         /\ v.s.closers = w.s.closers /\ Answered(v.s, w.s)
<1> DEFINE f == FailInFlight(w)
           l == Closed(w.s.turn, w.s.members)
           n == f.s.chains \cup {Flushing}
           s == [f.s EXCEPT !.last = l,
                            !.turn = NoTurn, !.members = {}, !.gate = TRUE, !.off = FALSE,
                            !.state = "idle", !.chains = n]
           v == CompleteTurn(w)
           u == [f EXCEPT !.s = s]
<1>1. /\ w \in Worlds /\ w.s \in Sessions /\ w.told \in [Commands -> Statuses]
      /\ Counted(w.s) /\ Laned(w.s, w.lane) /\ Headed(w.s) /\ Phased(w.s)
      /\ PlacedBut(w.s, w.told, {}) /\ Queued(w.s) \subseteq Commands
  BY Parts, PlacesType DEF Good
<1>2. /\ f \in Worlds /\ f.lane = w.lane
      /\ SameControl(f.s, w.s) /\ SameCounts(f.s, w.s)
      /\ f.s.queue = w.s.queue /\ f.s.admission = Nobody
      /\ f.s.flush = w.s.flush /\ Flushed(f.s) = {} /\ Answered(f.s, w.s)
      /\ f.told = Marks(w.told, InFlight(w.s), "failed")
  BY <1>1, FailInFlightIs
<1>3. CompleteTurn(w) = [f EXCEPT !.s.last = Closed(w.s.turn, w.s.members),
                                  !.s.turn = NoTurn, !.s.members = {},
                                  !.s.gate = TRUE, !.s.off = FALSE,
                                  !.s.state = "idle",
                                  !.s.chains = @ \cup {Flushing}]
  BY DEF CompleteTurn
<1> HIDE DEF f
<1>4. f.s \in Sessions
  BY <1>2, WorldType
<1>5. v = u
  BY <1>2, <1>3 DEF Worlds
<1>6. l \in [turn : Nat, members : SUBSET Commands] /\ l.turn = w.s.turn
  BY <1>1 DEF Sessions, Closed
<1>7. n \in SUBSET Int
  BY <1>4 DEF Sessions, Flushing
<1> HIDE DEF l, n
<1>8. /\ s \in Sessions /\ s.state = "idle" /\ s.turn = NoTurn /\ s.last.turn = w.s.turn
      /\ s.turns = f.s.turns /\ s.updates = f.s.updates /\ s.asked = f.s.asked
      /\ s.chains = n
  BY <1>4, <1>6, <1>7 DEF Sessions, States, NoTurn
<1>9. /\ s.attached = f.s.attached /\ s.finishing = f.s.finishing /\ s.closers = f.s.closers
      /\ SameFlush(s, f.s) /\ SameFifo(s, f.s)
      /\ s.queue = f.s.queue /\ s.admission = f.s.admission
  BY <1>4 DEF Sessions, SameFlush, SameFifo
<1> HIDE DEF s
<1>10. u \in Worlds /\ u.s = s /\ u.lane = f.lane /\ u.told = f.told
  BY <1>2, <1>8, Put
<1> HIDE DEF u, v
<1>11. Answered(v.s, w.s)
  BY <1>2, <1>5, <1>9, <1>10 DEF Answered, Steered, SameFifo
<1>12. /\ Starting(v.s) = {} /\ Flushed(v.s) = {} /\ Steered(v.s) = {} /\ Queued(v.s) = Queued(w.s)
  BY <1>2, <1>5, <1>9, <1>10, <1>11 DEF Starting, Flushed, Queued, SameFlush, Answered
<1>13. Waiting(v.s) = Queued(w.s)
  BY <1>12 DEF Waiting, InFlight
<1>14. \A c \in Queued(w.s) : c \in Commands /\ c \notin InFlight(w.s) /\ v.told[c] = "queued"
  BY <1>1, <1>2, <1>5, <1>10, PlacesOf DEF InFlight, Marks
<1>15. PlacedBut(v.s, v.told, {})
  <2>1. \A c \in Commands : /\ v.told[c] # "twice"
                            /\ v.told[c] \in {"pending", "queued"} => c \in Queued(w.s)
    BY <1>1, <1>2, <1>5, <1>10 DEF PlacedBut, Waiting, Marks
  <2>2. Distinct(v.s.queue) /\ Single(v.s.fifo)
    BY <1>1, <1>2, <1>5, <1>9, <1>10, <1>11 DEF PlacedBut, Answered
  <2> QED BY <1>12, <1>13, <1>14, <2>1, <2>2 DEF PlacedBut
<1>16. v.s.state = "idle" /\ v.s.admission = Nobody /\ ~ v.s.finishing
  BY <1>1, <1>2, <1>5, <1>8, <1>9, <1>10 DEF Phased, Ended, SameControl
<1>17. Phased(v.s)
  BY <1>12, <1>16 DEF Phased
<1>18. Counted(v.s)
  <2>1. Flushing \in Flushing..MaxUpdates
    BY BoundsAssumption DEF Flushing
  <2> QED BY <1>1, <1>2, <1>5, <1>8, <1>10, <2>1 DEF Counted, SameCounts, SameControl, NoTurn, Sessions, n
<1>19. Headed(v.s) /\ Laned(v.s, v.lane)
  BY <1>1, <1>2, <1>5, <1>8, <1>9, <1>10, <1>11 DEF Headed, Laned, Answered, SameControl, Ended
<1>20. Good(v)
  BY <1>5, <1>10, <1>15, <1>17, <1>18, <1>19 DEF Good, GoodBut
<1>21. InFlight(w.s) \subseteq Commands /\ Owed(w, InFlight(w.s))
  BY <1>1, PlacesOf, PlacesType DEF Owed, InFlight
<1>22. LineIn(v) = w.s.queue
  <2>1. v.s \in Sessions
    BY <1>5, <1>8, <1>10
  <2> QED BY <1>2, <1>5, <1>9, <1>10, <1>12, <1>15, <1>16, <1>17, <2>1, LineIs DEF LineIn
<1>23. v.lane = w.lane /\ v.told = Marks(w.told, InFlight(w.s), "failed")
       /\ v.s.closers = w.s.closers
  BY <1>2, <1>5, <1>9, <1>10 DEF SameControl
<1> QED BY <1>11, <1>16, <1>20, <1>21, <1>22, <1>23 DEF v
-----------------------------------------------------------------------------
(* New commands: a turn of their own, the running turn, or the queue.       *)

FifoTo(w, q) == [w EXCEPT !.s = [w.s EXCEPT !.fifo = q]]

LEMMA FifoFields ==
  ASSUME NEW w \in Worlds, NEW q \in Seq(Entries)
  PROVE  LET v == FifoTo(w, q) IN
         /\ v \in Worlds /\ v.lane = w.lane /\ v.told = w.told
         /\ SameControl(v.s, w.s) /\ SameCounts(v.s, w.s) /\ SameFlush(v.s, w.s)
         /\ v.s.queue = w.s.queue /\ v.s.admission = w.s.admission
         /\ v.s.fifo = q /\ v.s.stage = w.s.stage
<1> USE DEF SameControl, SameCounts, SameFlush
<1> DEFINE s == [w.s EXCEPT !.fifo = q]
           u == [w EXCEPT !.s = s]
<1>1. w.s \in Sessions
  BY WorldType
<1>2. FifoTo(w, q) = u
  BY DEF FifoTo
<1>3. /\ s \in Sessions /\ SameControl(s, w.s) /\ SameCounts(s, w.s) /\ SameFlush(s, w.s)
      /\ s.queue = w.s.queue /\ s.admission = w.s.admission /\ s.fifo = q /\ s.stage = w.s.stage
  BY <1>1 DEF Sessions
<1> HIDE DEF s
<1>4. /\ u \in Worlds /\ u.s = s /\ u.lane = w.lane /\ u.told = w.told
  BY <1>3, Put
<1> HIDE DEF u
<1> QED BY <1>2, <1>3, <1>4

\* An operation joins the queue; if it is the first it begins at once.
LEMMA EnqueueIs ==
  ASSUME NEW w \in Worlds, NEW op \in Entries, Good(FifoTo(w, Append(w.s.fifo, op))),
         w.s.fifo = <<>> => w.s.stage = "waiting",
         op.kind = "prompt" => op.opens \/ w.s.attached,
         op.kind = "steer" => ~ op.final /\ w.s.attached /\ w.s.turn = op.turn
  PROVE  LET v == EnqueueLaneAdmission(w, op)
             q == FifoTo(w, Append(w.s.fifo, op)) IN
         Good(v) /\ Stays(q, v) /\ v.s.state = w.s.state
<1> DEFINE p == Append(w.s.fifo, op)
           q == FifoTo(w, p)
           v == EnqueueLaneAdmission(w, op)
<1>1. w.s \in Sessions /\ w.s.fifo \in Seq(Entries)
  BY WorldType DEF Sessions
<1>2. p \in Seq(Entries) /\ (w.s.fifo = <<>> => p # <<>> /\ Head(p) = op)
  BY <1>1, AppendHead
<1>3. v = IF w.s.fifo = <<>> THEN Begin(q) ELSE q
  BY DEF EnqueueLaneAdmission, FifoTo, Worlds
<1>4. Good(q)
  OBVIOUS
<1> HIDE DEF p, v
<1>5. SameControl(q.s, w.s) /\ q.s.fifo = p /\ q.s.stage = w.s.stage
  BY <1>2, FifoFields
<1> HIDE DEF q
<1>6. CASE w.s.fifo # <<>>
  BY <1>3, <1>4, <1>5, <1>6 DEF Stays, SameControl, v, q, p
<1>7. CASE w.s.fifo = <<>>
  <2>1. v = Begin(q) /\ q.s.fifo # <<>> /\ Head(q.s.fifo) = op /\ q.s.stage = "waiting"
    BY <1>2, <1>3, <1>5, <1>7
  <2>2. Good(v) /\ Stays(q, v) /\ v.s.state = q.s.state
    <3>1. CASE op.kind = "prompt" /\ op.opens
      BY <1>4, <2>1, <3>1, OpeningIs DEF Begin, Good, Stays, SameControl
    <3>2. CASE op.kind = "prompt" /\ ~ op.opens
      <4>1. q.s.attached
        BY <1>5, <3>2 DEF SameControl
      <4> QED BY <1>4, <2>1, <3>2, <4>1, SendingIs DEF Begin, Good, Stays, SameControl
    <3>3. CASE op.kind = "steer"
      <4>1. q.s.attached /\ q.s.turn = op.turn /\ ~ op.final
        BY <1>5, <3>3 DEF SameControl
      <4> QED BY <1>4, <2>1, <3>3, <4>1, SendingIs DEF Begin, Good, Stays, SameControl
    <3> QED BY <3>1, <3>2, <3>3 DEF Entries
  <2> QED BY <1>5, <2>2 DEF SameControl, v, q, p
<1> QED BY <1>6, <1>7

LEMMA DeliverSteerIs ==
  ASSUME NEW w, NEW c \in Commands, GoodBut(w, {c}), w.told[c] = "pending",
         ~ Ended(w.s), w.s.turn # NoTurn, w.s.attached
  PROVE  LET v == DeliverSteer(w, c) IN
         Good(v) /\ Stays(w, v) /\ v.s.state = w.s.state
<1> DEFINE op == [kind |-> "steer", cmd |-> c, turn |-> w.s.turn, opens |-> FALSE, final |-> FALSE]
           p == Append(w.s.fifo, op)
           q == FifoTo(w, p)
<1>1. /\ w \in Worlds /\ w.s \in Sessions /\ w.s.fifo \in Seq(Entries) /\ w.s.turn \in Nat
      /\ Counted(w.s) /\ Laned(w.s, w.lane) /\ Headed(w.s) /\ Phased(w.s)
      /\ PlacedBut(w.s, w.told, {c})
  BY Parts DEF Sessions
<1>2. op \in Entries /\ Unanswered(op) /\ op.cmd = c
  BY <1>1 DEF Entries, Unanswered
<1>3. DeliverSteer(w, c) = EnqueueLaneAdmission(w, op)
  BY DEF DeliverSteer
<1>4. op.kind = "steer" /\ ~ op.final /\ op.turn = w.s.turn
  OBVIOUS
<1> HIDE DEF op
<1>5. c \notin Waiting(w.s)
  BY <1>1 DEF PlacedBut
<1>6. /\ p \in Seq(Entries) /\ Steers(p) = Steered(w.s) \cup {c}
      /\ Single(w.s.fifo) => Single(p)
  BY <1>1, <1>2, <1>5, SteersAppend DEF Steered, Waiting, InFlight
<1>7. p # <<>> /\ (w.s.fifo # <<>> => Head(p) = Head(w.s.fifo))
  BY <1>1, <1>2, AppendHead
<1> HIDE DEF p
<1>8. /\ q \in Worlds /\ q.lane = w.lane /\ q.told = w.told
      /\ SameControl(q.s, w.s) /\ SameCounts(q.s, w.s) /\ SameFlush(q.s, w.s)
      /\ q.s.queue = w.s.queue /\ q.s.admission = w.s.admission
      /\ q.s.fifo = p /\ q.s.stage = w.s.stage
  BY <1>1, <1>6, FifoFields
<1> HIDE DEF q
<1>9. /\ Starting(q.s) = Starting(w.s) /\ Flushed(q.s) = Flushed(w.s)
      /\ Queued(q.s) = Queued(w.s) /\ Steered(q.s) = Steered(w.s) \cup {c}
  BY <1>6, <1>8 DEF Starting, Flushed, Queued, Steered, SameFlush
<1>10. Waiting(q.s) = Waiting(w.s) \cup {c}
  BY <1>9 DEF Waiting, InFlight
<1>11. PlacedBut(q.s, q.told, {})
  <2>1. /\ Single(q.s.fifo) /\ Distinct(q.s.queue)
    BY <1>1, <1>6, <1>8, PlacesOf
  <2>2. \A x \in Steered(q.s) : q.told[x] = "pending" /\ x \notin Starting(q.s)
    BY <1>1, <1>5, <1>8, <1>9, PlacesOf DEF Waiting, InFlight
  <2> QED BY <1>1, <1>8, <1>9, <1>10, <2>1, <2>2 DEF PlacedBut
<1>12. Phased(q.s)
  BY <1>1, <1>8, <1>9 DEF Phased, SameControl, Ended
<1>13. Counted(q.s) /\ Laned(q.s, q.lane) /\ Headed(q.s)
  BY <1>1, <1>7, <1>8 DEF Counted, Laned, Headed, SameControl, SameCounts, Ended
<1>14. Good(q)
  BY <1>8, <1>11, <1>12, <1>13 DEF Good, GoodBut
<1>15. LineIn(q) = LineIn(w)
  BY <1>8 DEF LineIn, LineOf, SameFlush
<1>16. w.s.fifo = <<>> => w.s.stage = "waiting"
  BY <1>1 DEF Headed
<1> QED
  <2> USE DEF q, p
  <2>1. LET v == EnqueueLaneAdmission(w, op) IN Good(v) /\ Stays(q, v) /\ v.s.state = w.s.state
    BY <1>1, <1>2, <1>4, <1>14, <1>16, EnqueueIs
  <2> HIDE DEF q, p
  <2> QED BY <1>3, <1>8, <1>15, <2>1 DEF Stays, SameControl

\* The turn of a command: it is admitted, and its prompt joins the lane's queue.
TurnOf(w, c, t) ==
    [w EXCEPT !.s = [w.s EXCEPT !.turns = t, !.turn = t, !.members = {c}, !.gate = TRUE, !.off = FALSE,
                                !.state = "starting", !.admission = [cmd |-> c, turn |-> t],
                                !.early = FALSE]]

LEMMA TurnFields ==
  ASSUME NEW w \in Worlds, NEW c \in Commands, NEW t \in Nat \ {NoTurn}
  PROVE  LET v == TurnOf(w, c, t) IN
         /\ v \in Worlds /\ v.lane = w.lane /\ v.told = w.told
         /\ v.s.turns = t /\ v.s.turn = t /\ v.s.state = "starting"
         /\ v.s.admission.cmd = c /\ v.s.admission.turn = t /\ v.s.admission # Nobody
         /\ v.s.attached = w.s.attached /\ v.s.finishing = w.s.finishing
         /\ v.s.closers = w.s.closers /\ v.s.last = w.s.last
         /\ v.s.updates = w.s.updates /\ v.s.asked = w.s.asked /\ v.s.chains = w.s.chains
         /\ SameFlush(v.s, w.s) /\ SameFifo(v.s, w.s) /\ v.s.queue = w.s.queue
<1> DEFINE a == [cmd |-> c, turn |-> t]
           m == {c}
           s == [w.s EXCEPT !.turns = t, !.turn = t, !.members = m, !.gate = TRUE, !.off = FALSE,
                            !.state = "starting", !.admission = a, !.early = FALSE]
           u == [w EXCEPT !.s = s]
<1>1. w.s \in Sessions
  BY WorldType
<1>2. TurnOf(w, c, t) = u
  BY DEF TurnOf
<1>3. a \in Offers /\ a # Nobody /\ a.cmd = c /\ a.turn = t
  BY NobodyAssumption DEF Offers, Nobody
<1>4. m \in SUBSET Commands /\ t \in Nat
  OBVIOUS
<1> HIDE DEF a, m
<1>5. /\ s \in Sessions /\ s.turns = t /\ s.turn = t /\ s.state = "starting" /\ s.admission = a
  <2>1. "starting" \in States /\ a \in Offers \cup {Nobody} /\ t \in Nat /\ m \in SUBSET Commands
    BY <1>3, <1>4 DEF States
  <2>2. s \in Sessions
    BY <1>1, <2>1 DEF Sessions
  <2>3. s.turns = t /\ s.turn = t /\ s.state = "starting" /\ s.admission = a
    BY <1>1 DEF Sessions
  <2> QED BY <2>2, <2>3
<1>6. /\ s.attached = w.s.attached /\ s.finishing = w.s.finishing
      /\ s.closers = w.s.closers /\ s.last = w.s.last
      /\ s.updates = w.s.updates /\ s.asked = w.s.asked /\ s.chains = w.s.chains
      /\ SameFlush(s, w.s) /\ SameFifo(s, w.s) /\ s.queue = w.s.queue
  BY <1>1 DEF Sessions, SameFlush, SameFifo
<1> HIDE DEF s
<1>7. u \in Worlds /\ u.s = s /\ u.lane = w.lane /\ u.told = w.told
  BY <1>5, Put
<1> HIDE DEF u
<1> QED BY <1>2, <1>3, <1>5, <1>6, <1>7

LEMMA StartTurnIs ==
  ASSUME NEW w, NEW c \in Commands, GoodBut(w, {c}), w.s.state \in {"new", "idle"},
         w.told[c] \in {"pending", "queued"}
  PROVE  LET v == StartTurn(w, c) IN
         /\ Good(v) /\ v.told = w.told /\ v.s.state = "starting"
         /\ w.told[c] = "queued" => LineIn(v) = <<c>> \o w.s.queue
         /\ w.told[c] # "queued" => LineIn(v) = w.s.queue
<1> DEFINE t == w.s.turns + 1
           op == [kind |-> "prompt", cmd |-> c, turn |-> t, opens |-> ~ w.s.attached, final |-> FALSE]
           u == TurnOf(w, c, t)
           p == Append(u.s.fifo, op)
           q == FifoTo(u, p)
<1>1. /\ w \in Worlds /\ w.s \in Sessions /\ w.s.fifo \in Seq(Entries)
      /\ w.s.turns \in Nat /\ w.s.turn \in Nat /\ w.s.last.turn \in Nat /\ w.s.attached \in BOOLEAN
      /\ w.s.queue \in Seq(Commands)
      /\ Counted(w.s) /\ Laned(w.s, w.lane) /\ Headed(w.s) /\ Phased(w.s)
      /\ PlacedBut(w.s, w.told, {c})
  BY Parts DEF Sessions
<1>2. t \in Nat \ {NoTurn} /\ t = w.s.turns + 1
  BY <1>1 DEF NoTurn
<1>3. StartTurn(w, c) = EnqueueLaneAdmission(u, op)
  BY <1>1 DEF StartTurn, TurnOf, Worlds
<1> HIDE DEF t
<1>4. /\ op \in Entries /\ op.kind = "prompt" /\ (op.opens \/ w.s.attached) /\ ~ Unanswered(op)
  BY <1>1, <1>2 DEF Entries, Unanswered
<1> HIDE DEF op
<1>5. /\ u \in Worlds /\ u.lane = w.lane /\ u.told = w.told
      /\ u.s.turns = t /\ u.s.turn = t /\ u.s.state = "starting"
      /\ u.s.admission.cmd = c /\ u.s.admission.turn = t /\ u.s.admission # Nobody
      /\ u.s.attached = w.s.attached /\ u.s.finishing = w.s.finishing
      /\ u.s.closers = w.s.closers /\ u.s.last = w.s.last
      /\ u.s.updates = w.s.updates /\ u.s.asked = w.s.asked /\ u.s.chains = w.s.chains
      /\ SameFlush(u.s, w.s) /\ SameFifo(u.s, w.s) /\ u.s.queue = w.s.queue
  BY <1>1, <1>2, TurnFields
<1> HIDE DEF u
<1>6. u.s.fifo = w.s.fifo /\ u.s.stage = w.s.stage
  BY <1>5 DEF SameFifo
<1>7. /\ p \in Seq(Entries) /\ Steers(p) = Steered(w.s) /\ (Single(w.s.fifo) => Single(p))
      /\ p # <<>> /\ (w.s.fifo # <<>> => Head(p) = Head(w.s.fifo))
  <2>1. p = Append(w.s.fifo, op)
    BY <1>6
  <2> HIDE DEF p
  <2>2. Steers(Append(w.s.fifo, op)) = Steers(w.s.fifo)
    BY <1>1, <1>4, SteersAppend
  <2>3. Single(w.s.fifo) => Single(Append(w.s.fifo, op))
    BY <1>1, <1>4, SteersAppend
  <2> QED BY <1>1, <1>4, <2>1, <2>2, <2>3, AppendHead DEF Steered
<1> HIDE DEF p
<1>8. /\ q \in Worlds /\ q.lane = u.lane /\ q.told = u.told
      /\ SameControl(q.s, u.s) /\ SameCounts(q.s, u.s) /\ SameFlush(q.s, u.s)
      /\ q.s.queue = u.s.queue /\ q.s.admission = u.s.admission
      /\ q.s.fifo = p /\ q.s.stage = u.s.stage
  BY <1>5, <1>7, FifoFields
<1> HIDE DEF q
<1>9. /\ Starting(q.s) = {c} /\ Flushed(q.s) = Flushed(w.s)
      /\ Queued(q.s) = Queued(w.s) /\ Steered(q.s) = Steered(w.s)
  BY <1>5, <1>7, <1>8 DEF Starting, Flushed, Queued, Steered, SameFlush
<1>10. Starting(w.s) = {} /\ Flushed(w.s) = {} /\ ~ w.s.finishing
  BY <1>1 DEF Phased, Starting
<1>11. Waiting(q.s) = Waiting(w.s) \cup {c} /\ c \notin Waiting(w.s)
  BY <1>1, <1>9, <1>10 DEF Waiting, InFlight, PlacedBut
<1>12. PlacedBut(q.s, q.told, {})
  <2>1. Single(q.s.fifo) /\ Distinct(q.s.queue)
    BY <1>1, <1>5, <1>7, <1>8, PlacesOf
  <2>2. c \notin Queued(q.s) /\ c \notin Steered(q.s) /\ c \notin Flushed(q.s)
    BY <1>9, <1>11 DEF Waiting, InFlight
  <2> QED BY <1>1, <1>5, <1>8, <1>9, <1>10, <1>11, <2>1, <2>2 DEF PlacedBut
<1>13. Phased(q.s)
  BY <1>5, <1>8, <1>9, <1>10 DEF Phased, SameControl
<1>14. Counted(q.s)
  BY <1>1, <1>2, <1>5, <1>8 DEF Counted, SameControl, SameCounts
<1>15. Laned(q.s, q.lane) /\ Headed(q.s)
  BY <1>1, <1>5, <1>6, <1>7, <1>8 DEF Laned, Headed, SameControl, SameCounts, Ended
<1>16. Good(q)
  BY <1>8, <1>12, <1>13, <1>14, <1>15 DEF Good, GoodBut
<1>17. /\ w.told[c] = "queued" => LineIn(q) = <<c>> \o w.s.queue
       /\ w.told[c] # "queued" => LineIn(q) = w.s.queue
  <2>1. q.s \in Sessions /\ q.s.admission # Nobody /\ q.s.admission.cmd = c /\ q.s.queue = w.s.queue
        /\ q.told[c] = w.told[c] /\ Flushed(q.s) = {}
    BY <1>5, <1>8, <1>9, <1>10, WorldType
  <2> QED BY <1>12, <1>13, <2>1, LineIs DEF LineIn
<1>18. u.s.fifo = <<>> => u.s.stage = "waiting"
  BY <1>1, <1>6 DEF Headed
<1>19. op.kind = "prompt" => op.opens \/ u.s.attached
  BY <1>4, <1>5
<1> QED
  <2>1. Good(FifoTo(u, Append(u.s.fifo, op)))
    BY <1>16 DEF q, p
  <2>2. LET v == EnqueueLaneAdmission(u, op) IN
        Good(v) /\ Stays(FifoTo(u, Append(u.s.fifo, op)), v) /\ v.s.state = u.s.state
    BY <1>4, <1>5, <1>18, <1>19, <2>1, EnqueueIs
  <2>3. LET v == EnqueueLaneAdmission(u, op) IN Good(v) /\ Stays(q, v) /\ v.s.state = u.s.state
    BY <2>2 DEF q, p
  <2> QED BY <1>3, <1>5, <1>8, <1>17, <2>3 DEF Stays, SameControl

QueueTo(w, q) == [w EXCEPT !.s = [w.s EXCEPT !.queue = q]]

LEMMA QueueFields ==
  ASSUME NEW w \in Worlds, NEW q \in Seq(Commands)
  PROVE  LET v == QueueTo(w, q) IN
         /\ v \in Worlds /\ v.lane = w.lane /\ v.told = w.told
         /\ SameControl(v.s, w.s) /\ SameCounts(v.s, w.s) /\ SameFlush(v.s, w.s)
         /\ SameFifo(v.s, w.s) /\ v.s.admission = w.s.admission /\ v.s.queue = q
<1> USE DEF SameControl, SameCounts, SameFlush, SameFifo
<1> DEFINE s == [w.s EXCEPT !.queue = q]
           u == [w EXCEPT !.s = s]
<1>1. w.s \in Sessions
  BY WorldType
<1>2. QueueTo(w, q) = u
  BY DEF QueueTo
<1>3. /\ s \in Sessions /\ SameControl(s, w.s) /\ SameCounts(s, w.s) /\ SameFlush(s, w.s)
      /\ SameFifo(s, w.s) /\ s.admission = w.s.admission /\ s.queue = q
  BY <1>1 DEF Sessions
<1> HIDE DEF s
<1>4. u \in Worlds /\ u.s = s /\ u.lane = w.lane /\ u.told = w.told
  BY <1>3, Put
<1> HIDE DEF u
<1> QED BY <1>2, <1>3, <1>4

\* A command without a place joins the queue, and the line, as their last.
LEMMA QueueIs ==
  ASSUME NEW w, NEW c \in Commands, GoodBut(w, {c}), ~ w.s.finishing, w.s.state # "closed"
  PROVE  LET v == Queue(w, c) IN
         /\ Good(v) /\ v.told = Marks(w.told, {c}, "queued")
         /\ LineIn(v) = Append(LineIn(w), c) /\ v.s.state = w.s.state
<1> DEFINE p == Append(w.s.queue, c)
           u == QueueTo(w, p)
           v == Queue(w, c)
<1>1. /\ w \in Worlds /\ w.s \in Sessions /\ w.s.queue \in Seq(Commands)
      /\ w.told \in [Commands -> Statuses]
      /\ Phased(w.s) /\ PlacedBut(w.s, w.told, {c})
      /\ Starting(w.s) \subseteq Commands /\ Flushed(w.s) \subseteq Commands
      /\ Steered(w.s) \subseteq Commands /\ Queued(w.s) \subseteq Commands
  BY Parts, PlacesType DEF Sessions
<1>2. v = Tell(u, {c}, "queued")
  BY <1>1 DEF Queue, QueueTo, Worlds
<1>3. c \notin Waiting(w.s) /\ w.told[c] # "twice"
  BY <1>1 DEF PlacedBut
<1>4. p \in Seq(Commands) /\ ToSet(p) = Queued(w.s) \cup {c} /\ Distinct(p)
  BY <1>1, <1>3, AppendSet, PlacesOf DEF Queued, Waiting
<1> HIDE DEF p
<1>5. /\ u \in Worlds /\ u.lane = w.lane /\ u.told = w.told
      /\ SameControl(u.s, w.s) /\ SameCounts(u.s, w.s) /\ SameFlush(u.s, w.s)
      /\ SameFifo(u.s, w.s) /\ u.s.admission = w.s.admission /\ u.s.queue = p
  BY <1>1, <1>4, QueueFields
<1> HIDE DEF u
<1>6. "queued" \in Statuses /\ "queued" \notin Settled
  BY DEF Statuses, Settled
<1>7. v \in Worlds /\ v.s = u.s /\ v.lane = w.lane /\ v.told = Marks(w.told, {c}, "queued")
  BY <1>2, <1>3, <1>5, <1>6, TellIs
<1> HIDE DEF v
<1>8. /\ Starting(v.s) = Starting(w.s) /\ Flushed(v.s) = Flushed(w.s)
      /\ Steered(v.s) = Steered(w.s) /\ Queued(v.s) = Queued(w.s) \cup {c}
  BY <1>4, <1>5, <1>7 DEF Starting, Flushed, Steered, Queued, SameFlush, SameFifo
<1>9. Waiting(v.s) = Waiting(w.s) \cup {c}
  BY <1>8 DEF Waiting, InFlight
<1>10. \A x \in Commands : v.told[x] = IF x = c THEN "queued" ELSE w.told[x]
  BY <1>7 DEF Marks
<1>11. c \notin Starting(w.s) /\ c \notin Flushed(w.s) /\ c \notin Steered(w.s)
  BY <1>3 DEF Waiting, InFlight
<1>12. PlacedBut(v.s, v.told, {})
  <2>1. Single(v.s.fifo) /\ Distinct(v.s.queue)
    BY <1>1, <1>4, <1>5, <1>7, PlacesOf DEF SameFifo
  <2> QED BY <1>1, <1>8, <1>9, <1>10, <1>11, <2>1 DEF PlacedBut
<1>13. Phased(v.s)
  BY <1>1, <1>5, <1>7, <1>8 DEF Phased, SameControl, Ended
<1>14. Good(v)
  BY <1>5, <1>7, <1>12, <1>13, PlacesIs DEF Good
<1>15. LineIn(v) = Append(LineIn(w), c)
  <2> DEFINE a == w.s.admission
  <2>1. /\ v.s \in Sessions /\ v.s.queue = p /\ v.s.flush = w.s.flush /\ v.s.admission = a
        /\ a # Nobody => a.cmd \in Commands /\ v.told[a.cmd] = w.told[a.cmd]
        /\ w.s.flush # Nobody => w.s.flush.cmd \in Commands
    BY <1>1, <1>5, <1>7, <1>10, <1>11, WorldType DEF Sessions, Offers, SameFlush, Starting
  <2>2. \A x \in Commands : <<x>> \o p = Append(<<x>> \o w.s.queue, c)
    BY <1>1, ConsAppend DEF p
  <2>3. CASE Flushed(w.s) # {}
    <3>1. w.s.flush # Nobody
      BY <2>3 DEF Flushed
    <3>2. LineIn(v) = <<w.s.flush.cmd>> \o p /\ LineIn(w) = <<w.s.flush.cmd>> \o w.s.queue
      BY <1>1, <1>8, <1>12, <1>13, <2>1, <2>3, LineIs DEF LineIn
    <3> QED BY <2>1, <2>2, <3>1, <3>2
  <2>4. CASE Flushed(w.s) = {} /\ a # Nobody /\ w.told[a.cmd] = "queued"
    <3>1. LineIn(v) = <<a.cmd>> \o p
      BY <1>8, <1>12, <1>13, <2>1, <2>4, LineIs DEF LineIn
    <3>2. LineIn(w) = <<a.cmd>> \o w.s.queue
      BY <1>1, <2>4, LineIs DEF LineIn
    <3> QED BY <2>1, <2>2, <2>4, <3>1, <3>2
  <2>5. CASE Flushed(w.s) = {} /\ (a # Nobody => w.told[a.cmd] # "queued")
    <3>1. LineIn(v) = p
      BY <1>8, <1>12, <1>13, <2>1, <2>5, LineIs DEF LineIn
    <3>2. LineIn(w) = w.s.queue
      BY <1>1, <2>5, LineIs DEF LineIn
    <3> QED BY <3>1, <3>2 DEF p
  <2> QED BY <2>3, <2>4, <2>5
<1>16. v.s.state = w.s.state
  BY <1>5, <1>7 DEF SameControl
<1> QED BY <1>7, <1>14, <1>15, <1>16 DEF v
-----------------------------------------------------------------------------
(* A turn is accepted.                                                     *)

\* At most what came before the line loses its first command is accepted with it.
Accepts(w, v, c, to, F) ==
    /\ w.s.state # "closed" /\ v.s.state # "closed"
    /\ c \in Commands /\ F \subseteq Commands \ {c} /\ to \in {"accepted", "returned"}
    /\ Owed(w, {c} \cup F)
    /\ w.told[c] = "queued" => c = Head(LineIn(w))
    /\ v.told = Marks(Marks(w.told, {c}, to), F, "failed")
    /\ Kept(LineIn(w), LineIn(v))

StateTo(w, x) == [w EXCEPT !.s = [w.s EXCEPT !.state = x]]
AdmittedIn(w) == [w EXCEPT !.s = [w.s EXCEPT !.admission = Nobody, !.early = FALSE]]

LEMMA StateFields ==
  ASSUME NEW w \in Worlds, NEW x \in States
  PROVE  LET v == StateTo(w, x) IN
         /\ v \in Worlds /\ v.lane = w.lane /\ v.told = w.told
         /\ v.s.state = x /\ v.s.turn = w.s.turn /\ v.s.attached = w.s.attached
         /\ v.s.finishing = w.s.finishing /\ v.s.closers = w.s.closers
         /\ SameCounts(v.s, w.s) /\ SameFlush(v.s, w.s) /\ SameFifo(v.s, w.s)
         /\ v.s.admission = w.s.admission /\ v.s.queue = w.s.queue
<1> USE DEF SameCounts, SameFlush, SameFifo
<1> DEFINE s == [w.s EXCEPT !.state = x]
           u == [w EXCEPT !.s = s]
<1>1. w.s \in Sessions
  BY WorldType
<1>2. StateTo(w, x) = u
  BY DEF StateTo
<1>3. /\ s \in Sessions /\ s.state = x /\ s.turn = w.s.turn /\ s.attached = w.s.attached
      /\ s.finishing = w.s.finishing /\ s.closers = w.s.closers
      /\ SameCounts(s, w.s) /\ SameFlush(s, w.s) /\ SameFifo(s, w.s)
      /\ s.admission = w.s.admission /\ s.queue = w.s.queue
  BY <1>1 DEF Sessions
<1> HIDE DEF s
<1>4. u \in Worlds /\ u.s = s /\ u.lane = w.lane /\ u.told = w.told
  BY <1>3, Put
<1> HIDE DEF u
<1> QED BY <1>2, <1>3, <1>4

LEMMA AdmittedFields ==
  ASSUME NEW w \in Worlds
  PROVE  LET v == AdmittedIn(w) IN
         /\ v \in Worlds /\ v.lane = w.lane /\ v.told = w.told
         /\ SameControl(v.s, w.s) /\ SameCounts(v.s, w.s) /\ SameFlush(v.s, w.s)
         /\ SameFifo(v.s, w.s) /\ v.s.admission = Nobody /\ v.s.queue = w.s.queue
<1> USE DEF SameControl, SameCounts, SameFlush, SameFifo
<1> DEFINE s == [w.s EXCEPT !.admission = Nobody, !.early = FALSE]
           u == [w EXCEPT !.s = s]
<1>1. w.s \in Sessions
  BY WorldType
<1>2. AdmittedIn(w) = u
  BY DEF AdmittedIn
<1>3. /\ s \in Sessions /\ SameControl(s, w.s) /\ SameCounts(s, w.s) /\ SameFlush(s, w.s)
      /\ SameFifo(s, w.s) /\ s.admission = Nobody /\ s.queue = w.s.queue
  BY <1>1 DEF Sessions
<1> HIDE DEF s
<1>4. u \in Worlds /\ u.s = s /\ u.lane = w.lane /\ u.told = w.told
  BY <1>3, Put
<1> HIDE DEF u
<1> QED BY <1>2, <1>3, <1>4

\* The world in which the turn is accepted, before what came early is made up for.
LEMMA AdmissionAccepted ==
  ASSUME NEW w, Good(w), w.s.state = "starting", w.s.admission # Nobody
  PROVE  LET c == w.s.admission.cmd
             a == AdmittedIn(Accepted(StateTo(w, "working"), c)) IN
         /\ Good(a) /\ a.lane = w.lane /\ a.s.state = "working"
         /\ a.s.closers = w.s.closers /\ SameFifo(a.s, w.s)
         /\ LineIn(a) = w.s.queue /\ a.s.queue = w.s.queue
         /\ c \in Commands /\ Owed(w, {c})
         /\ w.told[c] = "queued" => LineIn(w) = <<c>> \o w.s.queue
         /\ \E to \in {"accepted", "returned"} : a.told = Marks(w.told, {c}, to)
         /\ InFlight(a.s) = Steered(w.s) /\ c \notin Steered(w.s)
<1> DEFINE c == w.s.admission.cmd
           x == StateTo(w, "working")
           y == Accepted(x, c)
           a == AdmittedIn(y)
<1>1. /\ w \in Worlds /\ w.s \in Sessions /\ w.told \in [Commands -> Statuses]
      /\ Counted(w.s) /\ Laned(w.s, w.lane) /\ Headed(w.s) /\ Phased(w.s)
      /\ PlacedBut(w.s, w.told, {})
  BY Parts DEF Good
<1>2. /\ c \in Commands /\ Starting(w.s) = {c} /\ w.told[c] \in {"pending", "queued"}
      /\ Flushed(w.s) = {} /\ ~ w.s.finishing
  <2>1. c \in Commands /\ Starting(w.s) = {c}
    BY <1>1 DEF Sessions, Offers, Starting
  <2> QED BY <1>1, <2>1, PlacesOf DEF Phased
<1>3. c \notin Queued(w.s) /\ c \notin Steered(w.s)
  BY <1>1, <1>2, PlacesOf
<1>4. w.told[c] = "queued" => LineIn(w) = <<c>> \o w.s.queue
  BY <1>1, <1>2, LineIs DEF LineIn
<1> HIDE DEF c
<1>5. /\ x \in Worlds /\ x.lane = w.lane /\ x.told = w.told
      /\ x.s.state = "working" /\ x.s.turn = w.s.turn /\ x.s.attached = w.s.attached
      /\ x.s.finishing = w.s.finishing /\ x.s.closers = w.s.closers
      /\ SameCounts(x.s, w.s) /\ SameFlush(x.s, w.s) /\ SameFifo(x.s, w.s)
      /\ x.s.admission = w.s.admission /\ x.s.queue = w.s.queue
  BY <1>1, StateFields DEF States
<1> HIDE DEF x
<1>6. /\ y \in Worlds /\ y.lane = x.lane /\ Alike(y.s, x.s)
      /\ \E to \in {"accepted", "returned"} : y.told = Marks(x.told, {c}, to)
  BY <1>2, <1>5, AcceptedIs
<1> HIDE DEF y
<1>7. /\ a \in Worlds /\ a.lane = y.lane /\ a.told = y.told
      /\ SameControl(a.s, y.s) /\ SameCounts(a.s, y.s) /\ SameFlush(a.s, y.s)
      /\ SameFifo(a.s, y.s) /\ a.s.admission = Nobody /\ a.s.queue = y.s.queue
  BY <1>6, AdmittedFields
<1> HIDE DEF a
<1>8. PICK to \in {"accepted", "returned"} : a.told = Marks(w.told, {c}, to)
  BY <1>5, <1>6, <1>7
<1>9. /\ a.s.state = "working" /\ a.s.turn = w.s.turn /\ a.s.attached = w.s.attached
      /\ a.s.finishing = w.s.finishing /\ a.s.closers = w.s.closers
      /\ SameCounts(a.s, w.s) /\ SameFlush(a.s, w.s) /\ SameFifo(a.s, w.s)
      /\ a.s.admission = Nobody /\ a.s.queue = w.s.queue /\ a.lane = w.lane
  BY <1>5, <1>6, <1>7 DEF Alike, SameControl, SameCounts, SameFlush, SameFifo
<1>10. /\ Starting(a.s) = {} /\ Flushed(a.s) = {} /\ Steered(a.s) = Steered(w.s)
      /\ Queued(a.s) = Queued(w.s)
  BY <1>2, <1>9 DEF Starting, Flushed, Steered, Queued, SameFlush, SameFifo
<1>11. Waiting(w.s) = Waiting(a.s) \cup {c}
  BY <1>2, <1>10 DEF Waiting, InFlight
<1>12. \A d \in Commands : a.told[d] = IF d = c THEN to ELSE w.told[d]
  BY <1>8 DEF Marks
<1>13. PlacedBut(a.s, a.told, {})
  <2>1. Single(a.s.fifo) /\ Distinct(a.s.queue)
    BY <1>1, <1>9, PlacesOf DEF SameFifo
  <2>2. Steered(w.s) \subseteq Commands /\ Queued(w.s) \subseteq Commands
    BY <1>1, PlacesType
  <2> QED BY <1>1, <1>3, <1>8, <1>10, <1>11, <1>12, <2>1, <2>2 DEF PlacedBut
<1>14. Phased(a.s)
  BY <1>2, <1>9, <1>10 DEF Phased
<1>15. Counted(a.s) /\ Laned(a.s, a.lane) /\ Headed(a.s)
  BY <1>1, <1>9 DEF Counted, Laned, Headed, SameCounts, SameFifo, Ended
<1>16. Good(a)
  BY <1>7, <1>13, <1>14, <1>15 DEF Good, GoodBut
<1>17. LineIn(a) = w.s.queue
  BY <1>7, <1>9, <1>10, <1>13, <1>14, WorldType, LineIs DEF LineIn
<1>18. InFlight(a.s) = Steered(w.s)
  BY <1>10 DEF InFlight
<1> QED BY <1>2, <1>3, <1>4, <1>8, <1>9, <1>16, <1>17, <1>18 DEF Owed, a, y, x, c

LEMMA AcceptTurnIs ==
  ASSUME NEW w, Good(w), w.s.state = "starting", w.s.admission # Nobody,
         w.s.fifo # <<>>, Head(w.s.fifo).kind = "prompt", w.s.stage \in {"starting", "sending"}
  PROVE  LET v == AcceptTurn(w) IN
         Good(v) /\ \E to, F : Accepts(w, v, w.s.admission.cmd, to, F)
<1> DEFINE c == w.s.admission.cmd
           a == AdmittedIn(Accepted(StateTo(w, "working"), c))
           e == IF w.s.early THEN CompleteTurn(a) ELSE a
           d == Done(e)
           v == AcceptTurn(w)
           F == IF w.s.early THEN Steered(w.s) ELSE {}
<1>1. /\ w \in Worlds /\ w.s \in Sessions /\ w.told \in [Commands -> Statuses]
      /\ Laned(w.s, w.lane) /\ PlacedBut(w.s, w.told, {})
  BY Parts DEF Good
<1>2. v = FlushSafeBoundaryQueue(d)
  <2> DEFINE x == [w EXCEPT !.s.state = "working"]
             z == [Accepted(x, c) EXCEPT !.s.admission = Nobody, !.s.early = FALSE]
  <2>1. AcceptTurn(w) = FlushSafeBoundaryQueue(Done(IF w.s.early THEN CompleteTurn(z) ELSE z))
    BY Zenon DEF AcceptTurn
  <2>2. x = StateTo(w, "working")
    BY <1>1 DEF StateTo, Worlds
  <2> HIDE DEF x
  <2>3. x \in Worlds /\ x.told = w.told
    BY <1>1, <2>2, StateFields DEF States
  <2>4. c \in Commands /\ w.told[c] \in {"pending", "queued"}
    BY AdmissionAccepted DEF Owed
  <2>5. Accepted(x, c) \in Worlds
    <3> HIDE DEF c
    <3> QED BY <2>3, <2>4, AcceptedIs
  <2>6. z = AdmittedIn(Accepted(x, c))
    BY <2>5 DEF AdmittedIn, Worlds
  <2>7. z = a
    BY <2>2, <2>6
  <2> HIDE DEF z, a
  <2> QED BY <2>1, <2>7
<1>3. /\ Good(a) /\ a.lane = w.lane /\ a.s.state = "working"
      /\ a.s.closers = w.s.closers /\ SameFifo(a.s, w.s)
      /\ LineIn(a) = w.s.queue /\ a.s.queue = w.s.queue
      /\ c \in Commands /\ Owed(w, {c})
      /\ w.told[c] = "queued" => LineIn(w) = <<c>> \o w.s.queue
      /\ InFlight(a.s) = Steered(w.s) /\ c \notin Steered(w.s)
  BY AdmissionAccepted
<1>4. PICK to \in {"accepted", "returned"} : a.told = Marks(w.told, {c}, to)
  BY AdmissionAccepted
<1> HIDE DEF a, c
<1>5. a.s.fifo # <<>> /\ Head(a.s.fifo).kind = "prompt" /\ a.lane # "opening" /\ a.s.closers = {}
  BY <1>1, <1>3 DEF SameFifo, Laned, Ended
<1>6. /\ Good(e) /\ LineIn(e) = w.s.queue /\ e.s.state \in {"working", "idle"}
      /\ e.lane = a.lane /\ e.s.closers = {} /\ e.s.fifo # <<>> /\ Head(e.s.fifo).kind = "prompt"
      /\ e.told = Marks(a.told, F, "failed")
  <2>1. CASE w.s.early
    <3>1. e = CompleteTurn(a) /\ F = InFlight(a.s) /\ ~ Ended(a.s)
      BY <1>3, <2>1 DEF Ended
    <3> HIDE DEF e, F
    <3> QED BY <1>3, <1>5, <3>1, CompleteTurnIs DEF Answered
  <2>2. CASE ~ w.s.early
    <3>1. Marks(a.told, {}, "failed") = a.told
      BY <1>4 DEF Marks
    <3> QED BY <1>3, <1>5, <2>2, <3>1
  <2> QED BY <2>1, <2>2
<1> HIDE DEF e
<1>7. Good(d) /\ d.told = e.told /\ LineIn(d) = LineIn(e) /\ d.s.state = e.s.state
  BY <1>5, <1>6, DoneIs DEF Good, Unanswered, SameControl
<1> HIDE DEF d
<1>8. Good(v) /\ Stays(d, v)
  BY <1>2, <1>7, FlushIs
<1> HIDE DEF v
<1>9. F \subseteq Commands \ {c} /\ Owed(w, {c} \cup F)
  BY <1>1, <1>3, PlacesOf, PlacesType DEF Owed
<1>10. w.told[c] = "queued" => c = Head(LineIn(w))
  BY <1>1, <1>3, ConsSet DEF Sessions
<1>11. LineIn(v) = w.s.queue /\ v.told = Marks(Marks(w.told, {c}, to), F, "failed")
       /\ v.s.state # "closed"
  BY <1>4, <1>6, <1>7, <1>8 DEF Stays
<1>12. Kept(LineIn(w), LineIn(v))
  BY <1>11, LineLoses DEF Good
<1>13. Accepts(w, v, c, to, F)
  BY <1>3, <1>9, <1>10, <1>11, <1>12 DEF Accepts
<1> QED BY <1>8, <1>13 DEF v, c
-----------------------------------------------------------------------------
(* The actions: each leads to a good world, by a move the client may see.  *)

Admits(w, v, c) ==
    /\ w.told[c] \in {"new", "returned"}
    /\ v.s.state = "closed" <=> w.s.state = "closed"
    /\ \/ v.told = Marks(w.told, {c}, "rejected") /\ LineIn(v) = LineIn(w)
       \/ /\ w.s.state # "closed"
          /\ v.told = Marks(w.told, {c}, "pending") /\ LineIn(v) = LineIn(w)
       \/ /\ w.s.state # "closed"
          /\ v.told = Marks(w.told, {c}, "queued") /\ LineIn(v) = Append(LineIn(w), c)

Requeues(w, v, c) ==
    /\ w.s.state # "closed" /\ v.s.state # "closed"
    /\ w.told[c] = "pending"
    /\ v.told = Marks(w.told, {c}, "queued") /\ LineIn(v) = Append(LineIn(w), c)

Returns(w, v, c) ==
    /\ w.s.state # "closed" /\ v.s.state # "closed"
    /\ w.told[c] = "accepted"
    /\ v.told = Marks(w.told, {c}, "returned") /\ LineIn(v) = LineIn(w)

Closes(w, v) ==
    /\ w.s.state # "closed" /\ v.s.state = "closed" /\ Waiting(w.s) = {}
    /\ v.told = w.told /\ LineIn(v) = LineIn(w)

Moves(w, v) ==
    \/ Stays(w, v)
    \/ \E F : Fails(w, v, F)
    \/ \E c, to, F : Accepts(w, v, c, to, F)
    \/ \E c \in Commands : Admits(w, v, c) \/ Requeues(w, v, c) \/ Returns(w, v, c)
    \/ Closes(w, v)

Reaches == \E v : Good(v) /\ Moves(World, v) /\ Becomes(v)

LEMMA WorldIs == World.s = session /\ World.lane = lane /\ World.told = told
BY DEF World

LEMMA Loosen ==
  ASSUME NEW w, Good(w), NEW c, w.told[c] \notin {"pending", "queued"}
  PROVE  GoodBut(w, {c}) /\ c \notin Waiting(w.s)
<1>1. PlacedBut(w.s, w.told, {})
  BY Parts DEF Good
<1>2. c \notin Waiting(w.s)
  BY <1>1, PlacesOf
<1>3. PlacedBut(w.s, w.told, {c})
  BY <1>1, <1>2 DEF PlacedBut
<1> QED BY <1>2, <1>3 DEF Good, GoodBut

LEMMA PendingIs ==
  ASSUME NEW w, Good(w), NEW c \in Commands, w.told[c] \in {"new", "returned"}
  PROVE  LET v == Pending(w, c) IN
         /\ GoodBut(v, {c}) /\ v.told = Marks(w.told, {c}, "pending") /\ v.told[c] = "pending"
         /\ v.s = w.s /\ LineIn(v) = LineIn(w)
<1> DEFINE v == Pending(w, c)
<1>1. w \in Worlds /\ GoodBut(w, {c}) /\ c \notin Waiting(w.s)
  BY Parts, Loosen DEF Good
<1>2. "pending" \in Statuses /\ "pending" \notin Settled /\ "pending" # "twice"
  BY DEF Statuses, Settled
<1>3. v \in Worlds /\ v.s = w.s /\ v.lane = w.lane /\ v.told = Marks(w.told, {c}, "pending")
  BY <1>1, <1>2, TellIs DEF Pending
<1> HIDE DEF v
<1>4. Alike(v.s, w.s) /\ {c} \cap Waiting(w.s) = {} /\ {c} \cup {c} = {c}
  BY <1>1, <1>3 DEF Alike, SameControl, SameCounts, SameFlush, SameFifo
<1>5. GoodBut(v, {c} \cup {c}) /\ LineIn(v) = LineIn(w)
  BY <1>1, <1>2, <1>3, <1>4, LooseIs
<1> QED BY <1>3, <1>4, <1>5 DEF Marks, v

\* A world in which nothing but counters has changed.
LEMMA CountsIs ==
  ASSUME NEW w, Good(w), NEW v \in Worlds, v.lane = w.lane, v.told = w.told,
         SameControl(v.s, w.s), SameFlush(v.s, w.s), SameFifo(v.s, w.s),
         v.s.queue = w.s.queue, v.s.admission = w.s.admission, Counted(v.s)
  PROVE  Good(v) /\ Stays(w, v)
<1>1. /\ Laned(w.s, w.lane) /\ Headed(w.s) /\ Phased(w.s) /\ PlacedBut(w.s, w.told, {})
  BY Parts DEF Good
<1>2. /\ Flushed(v.s) = Flushed(w.s) /\ Waiting(v.s) = Waiting(w.s)
      /\ PlacedBut(v.s, v.told, {}) /\ LineOf(v.s, v.told) = LineOf(w.s, w.told)
  BY <1>1, PlacesFrame DEF SameFifo
<1>3. Laned(v.s, v.lane) /\ Headed(v.s) /\ Phased(v.s)
  BY <1>1, <1>2 DEF Laned, Headed, Phased, SameControl, SameFifo, Ended
<1> QED BY <1>2, <1>3 DEF Good, GoodBut, Stays, LineIn, SameControl

LEMMA AdmitIs ==
  ASSUME NEW w, Good(w), NEW c \in Commands, w.told[c] \in {"new", "returned"}, w.s.state # "new"
  PROVE  LET v == Admit(w, c) IN
         Good(v) /\ Admits(w, v, c)
<1> DEFINE v == Admit(w, c)
           p == Pending(w, c)
<1>1. /\ w \in Worlds /\ w.s \in Sessions /\ Phased(w.s) /\ PlacedBut(w.s, w.told, {})
      /\ GoodBut(w, {c}) /\ c \notin Waiting(w.s)
  BY Parts, Loosen DEF Good
<1>2. /\ GoodBut(p, {c}) /\ p.told = Marks(w.told, {c}, "pending") /\ p.told[c] = "pending"
      /\ p.s = w.s /\ LineIn(p) = LineIn(w)
  BY PendingIs
<1>3. CASE Ended(w.s) \/ w.s.finishing
  <2>1. v = Tell(w, {c}, "rejected")
    BY <1>3 DEF Admit
  <2>2. "rejected" \in Statuses /\ "rejected" \notin Settled /\ "rejected" # "twice"
        /\ "rejected" \notin {"pending", "queued"}
    BY DEF Statuses, Settled
  <2>3. v \in Worlds /\ v.s = w.s /\ v.lane = w.lane /\ v.told = Marks(w.told, {c}, "rejected")
    BY <1>1, <2>1, <2>2, TellIs
  <2> HIDE DEF v
  <2>4. /\ Alike(v.s, w.s) /\ {c} \cap Waiting(w.s) = {} /\ {} \ {c} = {}
        /\ GoodBut(w, {}) /\ "rejected" \in Statuses \ {"twice"}
    BY <1>1, <2>2, <2>3 DEF Alike, SameControl, SameCounts, SameFlush, SameFifo, Good
  <2>5. GoodBut(v, {} \ {c}) /\ LineIn(v) = LineIn(w)
    BY <2>2, <2>3, <2>4, LooseIs
  <2> QED BY <2>3, <2>4, <2>5 DEF Good, Admits, v
<1>4. CASE ~ (Ended(w.s) \/ w.s.finishing)
  <2>1. w.s.state # "closed" /\ ~ w.s.finishing
    BY <1>4 DEF Ended
  <2>2. LET q == Queue(w, c) IN
        /\ Good(q) /\ q.told = Marks(w.told, {c}, "queued")
        /\ LineIn(q) = Append(LineIn(w), c) /\ q.s.state = w.s.state
    BY <1>1, <2>1, QueueIs
  <2>3. CASE v = Queue(w, c)
    <3> HIDE DEF v
    <3> QED BY <2>1, <2>2, <2>3 DEF Admits, v
  <2>4. CASE v = FlushSafeBoundaryQueue(Queue(w, c))
    <3> DEFINE q == Queue(w, c)
    <3>1. Good(v) /\ Stays(q, v)
      BY <2>2, <2>4, FlushIs
    <3> HIDE DEF v, q
    <3> QED BY <2>1, <2>2, <3>1 DEF Admits, Stays, v, q
  <2>5. CASE v = StartTurn(p, c) /\ w.s.state = "idle" /\ w.s.queue = <<>>
    <3>1. LineIn(w) = w.s.queue
      <4>1. w.s.admission = Nobody /\ Flushed(w.s) = {}
        BY <1>1, <2>5 DEF Phased
      <4> QED BY <1>1, <4>1, LineIs DEF LineIn
    <3> HIDE DEF p
    <3>2. Good(v) /\ v.told = p.told /\ v.s.state = "starting" /\ LineIn(v) = p.s.queue
      BY <1>2, <2>5, StartTurnIs
    <3> HIDE DEF v
    <3> QED BY <1>2, <2>1, <3>1, <3>2 DEF Admits, v
  <2>6. CASE v = DeliverSteer(p, c) /\ w.s.turn # NoTurn /\ w.s.attached
    <3> HIDE DEF p
    <3>1. Good(v) /\ Stays(p, v) /\ v.s.state = p.s.state
      BY <1>2, <1>4, <2>6, DeliverSteerIs
    <3> HIDE DEF v
    <3> QED BY <1>2, <2>1, <3>1 DEF Admits, Stays, v
  <2>7. \/ v = Queue(w, c)
        \/ v = FlushSafeBoundaryQueue(Queue(w, c))
        \/ v = StartTurn(p, c) /\ w.s.state = "idle" /\ w.s.queue = <<>>
        \/ v = DeliverSteer(p, c) /\ w.s.turn # NoTurn /\ w.s.attached
    BY <1>4 DEF Admit
  <2> QED BY <2>3, <2>4, <2>5, <2>6, <2>7
<1> QED BY <1>3, <1>4

\* The fields that nothing here depends on.
RestTo(w, later, members, early, gate, off, returns, given) ==
    [w EXCEPT !.s = [w.s EXCEPT !.later = later, !.members = members, !.early = early,
                                !.gate = gate, !.off = off, !.returns = returns, !.given = given]]

LEMMA RestIs ==
  ASSUME NEW w, NEW C, GoodBut(w, C), NEW later \in SUBSET Commands, NEW members \in SUBSET Commands,
         NEW early \in BOOLEAN, NEW gate \in BOOLEAN, NEW off \in BOOLEAN,
         NEW returns \in SUBSET Commands, NEW given \in Nat
  PROVE  LET v == RestTo(w, later, members, early, gate, off, returns, given) IN
         GoodBut(v, C) /\ Stays(w, v) /\ Alike(v.s, w.s) /\ v.lane = w.lane
<1> DEFINE s == [w.s EXCEPT !.later = later, !.members = members, !.early = early,
                            !.gate = gate, !.off = off, !.returns = returns, !.given = given]
           u == [w EXCEPT !.s = s]
<1>1. w \in Worlds /\ w.s \in Sessions
  BY Parts
<1>2. RestTo(w, later, members, early, gate, off, returns, given) = u
  BY DEF RestTo
<1>3. s \in Sessions
  BY <1>1 DEF Sessions
<1>4. Alike(s, w.s)
  BY <1>1 DEF Sessions, Alike, SameControl, SameCounts, SameFlush, SameFifo
<1> HIDE DEF s
<1>5. u \in Worlds /\ u.s = s /\ u.lane = w.lane /\ u.told = w.told
  BY <1>1, <1>3, Put
<1> HIDE DEF u
<1>6. GoodBut(u, C) /\ LineIn(u) = LineIn(w)
  BY <1>4, <1>5, SameIs
<1> QED BY <1>2, <1>4, <1>5, <1>6 DEF Stays, Alike, SameControl

\* A session in which nothing but counters has changed.
LEMMA CountIs ==
  ASSUME NEW w, Good(w), NEW x \in Sessions, SameControl(x, w.s), SameFlush(x, w.s),
         SameFifo(x, w.s), x.queue = w.s.queue, x.admission = w.s.admission, Counted(x)
  PROVE  LET v == [w EXCEPT !.s = x] IN
         Good(v) /\ Stays(w, v) /\ v.s = x
<1> DEFINE v == [w EXCEPT !.s = x]
<1>1. w \in Worlds
  BY Parts DEF Good
<1>2. v \in Worlds /\ v.s = x /\ v.lane = w.lane /\ v.told = w.told
  BY <1>1, Put
<1> HIDE DEF v
<1>3. Good(v) /\ Stays(w, v)
  BY <1>2, CountsIs
<1> QED BY <1>2, <1>3 DEF v

\* What the fields of a good session are.
LEMMA GoodSession ==
  ASSUME Good(World)
  PROVE  /\ session \in Sessions /\ lane \in Lanes /\ told \in [Commands -> Statuses]
         /\ Counted(session) /\ Laned(session, lane) /\ Headed(session) /\ Phased(session)
         /\ PlacedBut(session, told, {})
         /\ session.turn \in Nat /\ session.members \in SUBSET Commands
         /\ session.later \in SUBSET Commands /\ session.early \in BOOLEAN
         /\ session.gate \in BOOLEAN /\ session.off \in BOOLEAN
         /\ session.returns \in SUBSET Commands /\ session.given \in Nat
         /\ session.asked \in Nat /\ session.updates \in Nat /\ session.holds \in BOOLEAN
         /\ session.refused \in BOOLEAN /\ session.queue \in Seq(Commands)
         /\ session.fifo \in Seq(Entries)
<1>1. /\ session \in Sessions /\ lane \in Lanes /\ told \in [Commands -> Statuses]
      /\ Counted(session) /\ Laned(session, lane) /\ Headed(session) /\ Phased(session)
      /\ PlacedBut(session, told, {})
  BY WorldIs, Parts DEF Good
<1> QED BY <1>1 DEF Sessions

LEMMA StartReaches ==
  ASSUME NEW c \in Commands, Good(World), Start(c)
  PROVE  Reaches
<1> DEFINE p == Pending(World, c)
           v == StartTurn(p, c)
<1>1. session.state = "new" /\ told[c] = "new" /\ Becomes(v)
  BY DEF Start
<1>2. /\ GoodBut(p, {c}) /\ p.told = Marks(told, {c}, "pending") /\ p.told[c] = "pending"
      /\ p.s = session /\ LineIn(p) = LineIn(World)
  BY <1>1, PendingIs, WorldIs
<1> HIDE DEF p
<1>3. Good(v) /\ v.told = p.told /\ v.s.state = "starting" /\ LineIn(v) = session.queue
  BY <1>1, <1>2, StartTurnIs
<1>4. LineIn(World) = session.queue
  <2>1. session \in Sessions /\ session.admission = Nobody /\ Flushed(session) = {}
        /\ PlacedBut(session, told, {}) /\ Phased(session)
    BY <1>1, GoodSession DEF Phased
  <2> QED BY <2>1, WorldIs, LineIs DEF LineIn
<1> HIDE DEF v
<1>5. Admits(World, v, c)
  BY <1>1, <1>2, <1>3, <1>4, WorldIs DEF Admits
<1> QED BY <1>1, <1>3, <1>5 DEF Reaches, Moves

LEMMA SendReaches ==
  ASSUME NEW c \in Commands, Good(World), Send(c)
  PROVE  Reaches
<1>1. CASE told[c] = "new" /\ Becomes(Admit(World, c))
  <2>1. session.state # "new"
    BY DEF Send
  <2>2. Good(Admit(World, c)) /\ Admits(World, Admit(World, c), c)
    BY <1>1, <2>1, WorldIs, AdmitIs
  <2> QED BY <1>1, <2>2 DEF Reaches, Moves
<1>2. CASE told[c] = "returned" /\ Becomes(Admit([World EXCEPT !.s.later = @ \cup {c}], c))
  <2> DEFINE s == session
             n == s.later \cup {c}
             w == [World EXCEPT !.s.later = @ \cup {c}]
             v == Admit(w, c)
  <2>1. /\ s \in Sessions
        /\ w = RestTo(World, n, s.members, s.early, s.gate, s.off, s.returns, s.given)
    <3>1. s \in Sessions
      BY GoodSession
    <3> QED BY <3>1 DEF RestTo, World, Sessions
  <2>2. n \in SUBSET Commands
    BY GoodSession
  <2> HIDE DEF n, w
  <2>3. GoodBut(w, {}) /\ Stays(World, w) /\ Alike(w.s, World.s)
    BY <2>1, <2>2, GoodSession, RestIs DEF Good
  <2>4. Good(w) /\ w.told = told /\ w.s.state # "new"
    BY <2>3, WorldIs DEF Stays, Good, Alike, SameControl, Send
  <2>5. Good(v) /\ Admits(w, v, c)
    BY <1>2, <2>4, AdmitIs
  <2> HIDE DEF v
  <2>6. Admits(World, v, c)
    BY <2>3, <2>5, WorldIs DEF Admits, Stays, Alike, SameControl
  <2> QED BY <1>2, <2>5, <2>6 DEF Reaches, Moves, v, w
<1> QED BY <1>1, <1>2 DEF Send

LEMMA UpdateReaches ==
  ASSUME Good(World), UpdateSettings
  PROVE  Reaches
<1> DEFINE s == session
           n == s.asked + 1
           m == s.updates + 1
           x == [s EXCEPT !.asked = n, !.holds = TRUE]
           w == [World EXCEPT !.s = x]
           v == CASE s.refused -> w
                  [] ~ s.refused /\ s.attached -> [w EXCEPT !.s.updates = @ + 1]
                  [] ~ s.refused /\ ~ s.attached -> [w EXCEPT !.s.refused = TRUE]
<1>1. /\ s \in Sessions /\ Counted(s) /\ s.asked \in Nat /\ s.updates \in Nat /\ s.refused \in BOOLEAN
      /\ s.attached \in BOOLEAN /\ n \in Nat /\ m \in Nat
      /\ n <= MaxUpdates /\ s.updates <= n /\ m <= n
  BY GoodSession, BoundsAssumption DEF Counted, Sessions, UpdateSettings
<1>2. [World EXCEPT !.s.asked = @ + 1, !.s.holds = TRUE] = w
  BY <1>1 DEF World, Sessions
<1>3. Becomes(v)
  <2> HIDE DEF w
  <2> QED BY <1>2 DEF UpdateSettings
<1> HIDE DEF n, m
<1>4. /\ x \in Sessions /\ SameControl(x, s) /\ SameFlush(x, s) /\ SameFifo(x, s)
      /\ x.queue = s.queue /\ x.admission = s.admission
      /\ x.asked = n /\ x.updates = s.updates /\ x.chains = s.chains
      /\ x.turns = s.turns /\ x.turn = s.turn /\ x.last = s.last
  BY <1>1 DEF Sessions, SameControl, SameFlush, SameFifo
<1>5. Counted(x)
  BY <1>1, <1>4 DEF Counted
<1> HIDE DEF x
<1>6. Good(w) /\ Stays(World, w) /\ w.s = x
  BY <1>4, <1>5, CountIs, WorldIs
<1> HIDE DEF w
<1>7. w \in Worlds
  BY <1>6, Parts DEF Good
<1>8. CASE s.refused
  BY <1>3, <1>6, <1>8 DEF Reaches, Moves
<1>9. CASE ~ s.refused /\ s.attached
  <2> DEFINE y == [x EXCEPT !.updates = m]
             u == [w EXCEPT !.s = y]
  <2>1. [w EXCEPT !.s.updates = @ + 1] = u
    BY <1>4, <1>6, <1>7 DEF Worlds, m
  <2>2. v = u
    BY <1>9, <2>1
  <2>3. /\ y \in Sessions /\ SameControl(y, x) /\ SameFlush(y, x) /\ SameFifo(y, x)
        /\ y.queue = x.queue /\ y.admission = x.admission
        /\ y.asked = n /\ y.updates = m /\ y.chains = s.chains
        /\ y.turns = s.turns /\ y.turn = s.turn /\ y.last = s.last
    BY <1>1, <1>4 DEF Sessions, SameControl, SameFlush, SameFifo
  <2>4. Counted(y)
    BY <1>1, <2>3 DEF Counted
  <2> HIDE DEF y
  <2>5. Good(u) /\ Stays(w, u)
    BY <1>6, <2>3, <2>4, CountIs
  <2> HIDE DEF u
  <2>6. Becomes(u)
    BY <1>3, <2>2
  <2> QED BY <1>6, <2>5, <2>6 DEF Reaches, Moves, Stays
<1>10. CASE ~ s.refused /\ ~ s.attached
  <2> DEFINE y == [x EXCEPT !.refused = TRUE]
             u == [w EXCEPT !.s = y]
  <2>1. [w EXCEPT !.s.refused = TRUE] = u
    BY <1>4, <1>6, <1>7 DEF Worlds
  <2>2. v = u
    BY <1>10, <2>1
  <2>3. /\ y \in Sessions /\ SameControl(y, x) /\ SameFlush(y, x) /\ SameFifo(y, x)
        /\ y.queue = x.queue /\ y.admission = x.admission
        /\ y.asked = n /\ y.updates = s.updates /\ y.chains = s.chains
        /\ y.turns = s.turns /\ y.turn = s.turn /\ y.last = s.last
    BY <1>1, <1>4 DEF Sessions, SameControl, SameFlush, SameFifo
  <2>4. Counted(y)
    BY <1>1, <2>3 DEF Counted
  <2> HIDE DEF y
  <2>5. Good(u) /\ Stays(w, u)
    BY <1>6, <2>3, <2>4, CountIs
  <2> HIDE DEF u
  <2>6. Becomes(u)
    BY <1>3, <2>2
  <2> QED BY <1>6, <2>5, <2>6 DEF Reaches, Moves, Stays
<1> QED BY <1>1, <1>8, <1>9, <1>10

LEMMA FlushAwaitedReaches ==
  ASSUME Good(World), FlushAwaited
  PROVE  Reaches
<1> DEFINE s == session
           chains == (s.chains \ {Flushing}) \cup (IF s.refused THEN {} ELSE {s.updates})
           x == [s EXCEPT !.chains = chains]
           v == [World EXCEPT !.s = x]
<1>1. s \in Sessions /\ Counted(s) /\ s.updates \in Nat
  BY GoodSession
<1>2. chains \in SUBSET (Flushing..MaxUpdates) /\ chains \in SUBSET Int
  BY <1>1, BoundsAssumption DEF Flushing, Counted, Sessions
<1>3. [World EXCEPT !.s.chains = (@ \ {Flushing}) \cup
                    (IF s.refused THEN {} ELSE {s.updates})] = v
  BY DEF World
<1>4. Becomes(v)
  BY <1>3, Zenon DEF FlushAwaited
<1> HIDE DEF chains
<1>5. /\ x \in Sessions /\ SameControl(x, s) /\ SameFlush(x, s) /\ SameFifo(x, s)
      /\ x.queue = s.queue /\ x.admission = s.admission /\ x.chains = chains
  BY <1>1, <1>2 DEF Sessions, SameControl, SameFlush, SameFifo
<1>6. Counted(x)
  BY <1>1, <1>2, <1>5 DEF Counted, Sessions
<1> HIDE DEF x
<1>7. Good(v) /\ Stays(World, v)
  BY <1>5, <1>6, CountIs, WorldIs
<1> QED BY <1>4, <1>7 DEF Reaches, Moves

LEMMA NothingQueuedReaches ==
  ASSUME Good(World), NothingQueued
  PROVE  Reaches
<1> DEFINE s == session
           chains == s.chains \ {0}
           x == [s EXCEPT !.chains = chains]
           v == [World EXCEPT !.s = x]
<1>1. s \in Sessions /\ Counted(s)
  BY GoodSession
<1>2. chains \in SUBSET (Flushing..MaxUpdates) /\ chains \in SUBSET Int
  BY <1>1 DEF Counted, Sessions
<1>3. [World EXCEPT !.s.chains = @ \ {0}] = v
  BY DEF World
<1>4. Becomes(v)
  BY <1>3, Zenon DEF NothingQueued
<1> HIDE DEF chains
<1>5. /\ x \in Sessions /\ SameControl(x, s) /\ SameFlush(x, s) /\ SameFifo(x, s)
      /\ x.queue = s.queue /\ x.admission = s.admission /\ x.chains = chains
  BY <1>1, <1>2 DEF Sessions, SameControl, SameFlush, SameFifo
<1>6. Counted(x)
  BY <1>1, <1>2, <1>5 DEF Counted, Sessions
<1> HIDE DEF x
<1>7. Good(v) /\ Stays(World, v)
  BY <1>5, <1>6, CountIs, WorldIs
<1> QED BY <1>4, <1>7 DEF Reaches, Moves

LEMMA UpdateAnsweredReaches ==
  ASSUME NEW ok \in BOOLEAN, Good(World), UpdateAnswered(ok)
  PROVE  Reaches
<1> DEFINE s == session
           n == s.updates - 1
           fewer == {IF i > 0 THEN i - 1 ELSE i : i \in s.chains}
           first == {i \in s.chains : i <= 0}
<1>1. /\ s \in Sessions /\ Counted(s) /\ n \in Nat /\ n <= s.asked /\ s.asked \in Nat
      /\ s.chains \in SUBSET (Flushing..MaxUpdates)
  BY GoodSession DEF Counted, UpdateAnswered
<1>2. /\ fewer \in SUBSET (Flushing..MaxUpdates) /\ first \in SUBSET (Flushing..MaxUpdates)
      /\ fewer \in SUBSET Int /\ first \in SUBSET Int
  BY <1>1, BoundsAssumption DEF Flushing
<1>3. CASE ok
  <2> DEFINE x == [s EXCEPT !.updates = n, !.holds = FALSE, !.chains = fewer]
             v == [World EXCEPT !.s = x]
  <2>1. [World EXCEPT !.s.updates = @ - 1, !.s.holds = FALSE,
                      !.s.chains = {IF i > 0 THEN i - 1 ELSE i : i \in @}] = v
    BY <1>1 DEF World, Sessions
  <2>2. Becomes(v)
    BY <1>3, <2>1, Zenon DEF UpdateAnswered
  <2> HIDE DEF n, fewer
  <2>3. /\ x \in Sessions /\ SameControl(x, s) /\ SameFlush(x, s) /\ SameFifo(x, s)
        /\ x.queue = s.queue /\ x.admission = s.admission /\ x.chains = fewer
        /\ x.updates = n /\ x.asked = s.asked
        /\ x.turns = s.turns /\ x.turn = s.turn /\ x.last = s.last
    BY <1>1, <1>2 DEF Sessions, SameControl, SameFlush, SameFifo
  <2>4. Counted(x)
    BY <1>1, <1>2, <2>3 DEF Counted
  <2> HIDE DEF x
  <2>5. Good(v) /\ Stays(World, v)
    BY <2>3, <2>4, CountIs, WorldIs
  <2> QED BY <2>2, <2>5 DEF Reaches, Moves
<1>4. CASE ~ ok
  <2> DEFINE x == [s EXCEPT !.updates = 0, !.refused = TRUE, !.chains = first]
             v == [World EXCEPT !.s = x]
  <2>1. [World EXCEPT !.s.updates = 0, !.s.refused = TRUE,
                      !.s.chains = {i \in @ : i <= 0}] = v
    BY <1>1 DEF World, Sessions
  <2>2. Becomes(v)
    BY <1>4, <2>1, Zenon DEF UpdateAnswered
  <2> HIDE DEF first
  <2>3. /\ x \in Sessions /\ SameControl(x, s) /\ SameFlush(x, s) /\ SameFifo(x, s)
        /\ x.queue = s.queue /\ x.admission = s.admission /\ x.chains = first
        /\ x.updates = 0 /\ x.asked = s.asked
        /\ x.turns = s.turns /\ x.turn = s.turn /\ x.last = s.last
    BY <1>1, <1>2 DEF Sessions, SameControl, SameFlush, SameFifo
  <2>4. Counted(x)
    BY <1>1, <1>2, <2>3 DEF Counted
  <2> HIDE DEF x
  <2>5. Good(v) /\ Stays(World, v)
    BY <2>3, <2>4, CountIs, WorldIs
  <2> QED BY <2>2, <2>5 DEF Reaches, Moves
<1> QED BY <1>3, <1>4

LEMMA StopReaches ==
  ASSUME Good(World), Stop
  PROVE  Reaches
<1> DEFINE s == session
           f == FailQueued(FailInFlight(EnterStopping(World)))
           g == [f EXCEPT !.s = [f.s EXCEPT !.closers = @ \cup {"stop"}]]
           v == IF s.attached THEN StopLane(g) ELSE Finish(f)
<1>1. /\ s \in Sessions /\ Laned(s, lane) /\ ~ Ended(s) /\ ~ s.finishing
  BY GoodSession DEF Stop
<1>2. /\ Spent(f) /\ f.lane = lane /\ f.told = Marks(told, Waiting(s), "failed")
      /\ Waiting(s) \subseteq Commands /\ Owed(World, Waiting(s))
      /\ f.s.turn = s.turn /\ f.s.attached = s.attached
      /\ f.s.finishing = s.finishing /\ f.s.closers = s.closers /\ f.s.stage = s.stage
  BY StoppedIs, WorldIs
<1>3. Becomes(v)
  <2>1. Becomes(IF s.attached THEN StopLane([f EXCEPT !.s.closers = @ \cup {"stop"}]) ELSE Finish(f))
    BY Zenon DEF Stop
  <2> HIDE DEF f
  <2>2. [f EXCEPT !.s.closers = @ \cup {"stop"}] = g
    OBVIOUS
  <2> QED BY <2>1, <2>2
<1> HIDE DEF f
<1>4. f \in Worlds /\ f.s \in Sessions /\ f.told \in [Commands -> Statuses] /\ f.s.state = "stopping"
  BY <1>2, WorldType DEF Spent
<1>5. ASSUME NEW u, Good(u), LineIn(u) = <<>>, u.s.state = "stopping", u.told = f.told
      PROVE  Fails(World, u, Waiting(s))
  BY <1>1, <1>2, <1>5, WorldIs DEF Fails, Kept, Ended
<1>6. CASE s.attached
  <2> DEFINE x == [f.s EXCEPT !.closers = @ \cup {"stop"}]
             u == StopLane(g)
  <2>1. /\ x \in Sessions /\ x.state = "stopping" /\ x.turn = f.s.turn
        /\ SameCounts(x, f.s) /\ SameFlush(x, f.s) /\ SameFifo(x, f.s)
        /\ x.queue = f.s.queue /\ x.admission = f.s.admission
    BY <1>4 DEF Sessions, Closers, SameCounts, SameFlush, SameFifo
  <2> HIDE DEF x
  <2>2. g \in Worlds /\ g.s = x /\ g.lane = f.lane /\ g.told = f.told
    BY <1>4, <2>1, Put DEF x
  <2> HIDE DEF g
  <2>3. /\ u \in Worlds /\ u.s = g.s /\ u.told = g.told /\ u.lane # "live"
        /\ (u.lane = "opening" => g.lane = "opening")
    BY <2>2, StopLaneIs
  <2>4. v = u
    BY <1>6
  <2> HIDE DEF u, v
  <2>5. Good(u) /\ LineIn(u) = <<>>
    <3>1. u.lane = "opening" => u.s.stage = "opening"
      BY <1>1, <1>2, <2>1, <2>2, <2>3 DEF Laned, SameFifo
    <3> QED BY <1>2, <2>1, <2>2, <2>3, <3>1, EndedIs
  <2>6. Fails(World, u, Waiting(s))
    BY <1>5, <2>1, <2>2, <2>3, <2>5
  <2> QED BY <1>3, <2>4, <2>5, <2>6 DEF Reaches, Moves
<1>7. CASE ~ s.attached
  <2> DEFINE u == Finish(f)
  <2>1. f.lane # "live"
    BY <1>1, <1>2, <1>7 DEF Laned
  <2>2. Good(f) /\ LineIn(f) = <<>>
    <3>1. SameCounts(f.s, f.s) /\ SameFlush(f.s, f.s) /\ SameFifo(f.s, f.s)
      BY DEF SameCounts, SameFlush, SameFifo
    <3>2. f.lane = "opening" => f.s.stage = "opening"
      BY <1>1, <1>2 DEF Laned
    <3>3. f.s.turn \in {f.s.turn, NoTurn}
      OBVIOUS
    <3> QED BY <1>2, <1>4, <2>1, <3>1, <3>2, <3>3, EndedIs
  <2>3. Good(u) /\ Fails(f, u, Waiting(f.s)) /\ LineIn(u) = <<>>
    BY <1>1, <1>2, <1>4, <2>1, <2>2, FinishIs
  <2>4. v = u
    BY <1>7
  <2> HIDE DEF u, v
  <2>5. u.told = f.told
    <3>1. u.told = Marks(f.told, {}, "failed")
      BY <1>2, <2>3 DEF Fails, Spent
    <3> QED BY <1>4, <3>1 DEF Marks
  <2>6. Fails(World, u, Waiting(s))
    BY <1>1, <1>2, <2>3, <2>5, WorldIs DEF Fails, Kept, Ended
  <2> QED BY <1>3, <2>3, <2>4, <2>6 DEF Reaches, Moves
<1> QED BY <1>1, <1>6, <1>7

LEMMA NextBeginsReaches ==
  ASSUME Good(World), NextBegins
  PROVE  Reaches
<1>1. session.fifo # <<>> /\ session.stage = "waiting" /\ Becomes(Begin(World))
  BY DEF NextBegins
<1>2. LET v == Begin(World) IN Good(v) /\ (Stays(World, v) \/ \E F : Fails(World, v, F))
  BY <1>1, BeginIs, WorldIs
<1> QED BY <1>1, <1>2 DEF Reaches, Moves

\* A command leaves the queue for a turn of its own; in the line it stays the first.
LEMMA StartNextReaches ==
  ASSUME Good(World), StartNextQueued
  PROVE  Reaches
<1> DEFINE s == session
           c == Head(s.queue)
           q == Tail(s.queue)
           chains == s.chains \ {0}
           x == [s EXCEPT !.chains = chains, !.queue = q]
           u == [World EXCEPT !.s = x]
           v == StartTurn(u, c)
<1>1. /\ s \in Sessions /\ Counted(s) /\ Laned(s, lane) /\ Headed(s) /\ Phased(s)
      /\ PlacedBut(s, told, {}) /\ s.queue \in Seq(Commands) /\ s.queue # <<>>
      /\ s.state = "idle"
  BY GoodSession DEF StartNextQueued
<1>2. [World EXCEPT !.s.chains = @ \ {0}, !.s.queue = Tail(@)] = u
  BY <1>1 DEF World, Sessions
<1>3. Becomes(v)
  BY <1>2, Zenon DEF StartNextQueued
<1>4. /\ q \in Seq(Commands) /\ c \in Commands /\ Queued(s) = ToSet(q) \cup {c}
      /\ Distinct(q) /\ c \notin ToSet(q) /\ <<c>> \o q = s.queue
  BY <1>1, TailSet, HeadAndTail, PlacesOf DEF Queued
<1>5. chains \in SUBSET (Flushing..MaxUpdates) /\ chains \in SUBSET Int
  BY <1>1 DEF Counted, Sessions
<1> HIDE DEF c, q, chains
<1>6. /\ x \in Sessions /\ SameControl(x, s) /\ SameFlush(x, s) /\ SameFifo(x, s)
      /\ x.queue = q /\ x.admission = s.admission /\ x.chains = chains
      /\ x.updates = s.updates /\ x.asked = s.asked /\ x.turns = s.turns /\ x.last = s.last
  BY <1>1, <1>4, <1>5 DEF Sessions, SameControl, SameFlush, SameFifo
<1> HIDE DEF x
<1>7. u \in Worlds /\ u.s = x /\ u.lane = lane /\ u.told = told
  <2>1. World \in Worlds
    BY Parts DEF Good
  <2> QED BY <1>6, <2>1, Put, WorldIs
<1> HIDE DEF u
<1>8. /\ Starting(x) = {} /\ Flushed(x) = {} /\ Starting(s) = {} /\ Flushed(s) = {}
      /\ Steered(x) = Steered(s) /\ Queued(x) = ToSet(q)
  BY <1>1, <1>6 DEF Phased, Starting, Flushed, Steered, Queued, SameFlush, SameFifo
<1>9. /\ told[c] = "queued" /\ c \notin Steered(s) /\ Waiting(s) = Waiting(x) \cup {c}
      /\ c \notin Waiting(x)
  <2>1. Queued(s) \cap Steered(s) = {} /\ \A d \in Queued(s) : told[d] = "queued"
    BY <1>1, PlacesOf
  <2> QED BY <1>4, <1>8, <2>1 DEF Waiting, InFlight
<1>10. PlacedBut(x, told, {c})
  BY <1>1, <1>4, <1>6, <1>8, <1>9 DEF PlacedBut, SameFifo
<1>11. Phased(x)
  BY <1>1, <1>6, <1>8, <1>9 DEF Phased, SameControl
<1>12. Counted(x) /\ Laned(x, lane) /\ Headed(x)
  BY <1>1, <1>5, <1>6 DEF Counted, Laned, Headed, SameControl, SameFifo, Ended
<1>13. GoodBut(u, {c})
  BY <1>7, <1>10, <1>11, <1>12 DEF GoodBut
<1>14. Good(v) /\ v.told = told /\ v.s.state = "starting" /\ LineIn(v) = s.queue
  BY <1>1, <1>4, <1>6, <1>7, <1>9, <1>13, StartTurnIs DEF SameControl
<1> HIDE DEF v
<1>15. LineIn(World) = s.queue
  BY <1>1, <1>8, LineIs, WorldIs DEF LineIn, Phased
<1>16. Stays(World, v)
  BY <1>1, <1>14, <1>15, WorldIs DEF Stays
<1> QED BY <1>3, <1>14, <1>16 DEF Reaches, Moves

LEMMA SettlesReaches ==
  ASSUME NEW c \in session.closers, Good(World), Settles(c)
  PROVE  Reaches
<1> DEFINE s == session
           n == s.closers \ {c}
           a == IF c = "exit" THEN FALSE ELSE s.attached
           x == [s EXCEPT !.closers = n, !.attached = a]
           u == [World EXCEPT !.s = x]
           v == Finish(u)
<1>1. /\ s \in Sessions /\ Counted(s) /\ Laned(s, lane) /\ Headed(s) /\ Phased(s)
      /\ PlacedBut(s, told, {}) /\ s.closers # {} /\ lane # "live"
  BY GoodSession DEF Laned
<1>2. [World EXCEPT !.s.closers = @ \ {c}, !.s.attached = IF c = "exit" THEN FALSE ELSE @] = u
  BY <1>1 DEF World, Sessions
<1>3. Becomes(v)
  BY <1>2, Zenon DEF Settles
<1>4. n \in SUBSET Closers /\ n \subseteq s.closers /\ a \in BOOLEAN
  BY <1>1 DEF Sessions
<1> HIDE DEF n, a
<1>5. /\ x \in Sessions /\ x.closers = n /\ x.state = s.state /\ x.turn = s.turn
      /\ x.finishing = s.finishing
      /\ SameCounts(x, s) /\ SameFlush(x, s) /\ SameFifo(x, s)
      /\ x.queue = s.queue /\ x.admission = s.admission
  BY <1>1, <1>4 DEF Sessions, SameCounts, SameFlush, SameFifo
<1> HIDE DEF x
<1>6. u \in Worlds /\ u.s = x /\ u.lane = lane /\ u.told = told
  <2>1. World \in Worlds
    BY Parts DEF Good
  <2> QED BY <1>5, <2>1, Put, WorldIs
<1> HIDE DEF u
<1>7. /\ Starting(x) = Starting(s) /\ Flushed(x) = Flushed(s) /\ Waiting(x) = Waiting(s)
      /\ PlacedBut(x, told, {}) /\ LineOf(x, told) = LineOf(s, told)
  BY <1>1, <1>5, PlacesFrame DEF SameFifo
<1>8. Phased(x) /\ Counted(x)
  BY <1>1, <1>5, <1>7 DEF Phased, Counted, SameCounts
<1>9. Headed(x) /\ Laned(x, lane)
  BY <1>1, <1>4, <1>5 DEF Headed, Laned, SameFifo, Ended
<1>10. Good(u) /\ Stays(World, u) /\ u.lane # "live"
  BY <1>1, <1>5, <1>6, <1>7, <1>8, <1>9, WorldIs DEF Good, GoodBut, Stays, LineIn
<1>11. Good(v) /\ (v = u \/ \E F : Fails(u, v, F))
  BY <1>10, FinishIs
<1> HIDE DEF v
<1>12. CASE v = u
  BY <1>3, <1>10, <1>12 DEF Reaches, Moves
<1>13. ASSUME NEW F, Fails(u, v, F)
       PROVE  Reaches
  <2>1. Fails(World, v, F)
    BY <1>10, <1>13 DEF Fails, Stays, Owed
  <2> QED BY <1>3, <1>11, <2>1 DEF Reaches, Moves
<1> QED BY <1>11, <1>12, <1>13
\* Once its commands are settled a session may close, whatever its lane still does.
LEMMA CleanupReaches ==
  ASSUME Good(World), CleanupDone
  PROVE  Reaches
<1> DEFINE s == session
           q == IF s.stage = "opening" THEN <<Head(s.fifo)>> ELSE <<>>
           g == IF s.stage = "opening" THEN s.stage ELSE "waiting"
           x == [s EXCEPT !.state = "closed", !.finishing = FALSE, !.fifo = q, !.stage = g]
           v == [World EXCEPT !.s = x]
<1>1. /\ s \in Sessions /\ Counted(s) /\ Laned(s, lane) /\ Headed(s) /\ Phased(s)
      /\ PlacedBut(s, told, {}) /\ s.fifo \in Seq(Entries) /\ s.finishing
  BY GoodSession DEF CleanupDone
<1>2. [World EXCEPT !.s.state = "closed", !.s.finishing = FALSE,
                    !.s.fifo = IF session.stage = "opening" THEN <<Head(@)>> ELSE <<>>,
                    !.s.stage = IF @ = "opening" THEN @ ELSE "waiting"] = v
  BY <1>1 DEF World, Sessions
<1>3. Becomes(v)
  BY <1>2, Zenon DEF CleanupDone
<1>4. s.state = "stopping" /\ Waiting(s) = {}
  BY <1>1 DEF Phased
<1>5. /\ q \in Seq(Entries) /\ Steers(q) = {} /\ Single(q) /\ g \in Stages
      /\ (g # "waiting" => g = "opening" /\ q # <<>> /\ Head(q).kind = "prompt")
      /\ (s.stage = "opening" => g = "opening")
  <2>1. CASE s.stage = "opening"
    <3> DEFINE op == Head(s.fifo)
    <3>1. op \in Entries /\ op.kind = "prompt" /\ ~ Unanswered(op)
      BY <1>1, <2>1, SteersTail DEF Headed, Unanswered
    <3>2. q = <<op>> /\ g = "opening"
      BY <2>1
    <3> HIDE DEF op, q, g
    <3>3. q \in Seq(Entries) /\ Len(q) = 1 /\ q[1] = op /\ q # <<>> /\ Head(q) = op
      BY <3>1, <3>2
    <3> QED BY <2>1, <3>1, <3>2, <3>3 DEF Steers, Single, Stages
  <2>2. CASE s.stage # "opening"
    BY <2>2 DEF Steers, Single, Stages
  <2> QED BY <2>1, <2>2
<1> HIDE DEF q, g
<1>6. /\ x \in Sessions /\ x.state = "closed" /\ ~ x.finishing /\ x.fifo = q /\ x.stage = g
      /\ x.turn = s.turn /\ x.closers = s.closers
      /\ SameCounts(x, s) /\ SameFlush(x, s) /\ x.queue = s.queue /\ x.admission = s.admission
  BY <1>1, <1>5 DEF Sessions, States, SameCounts, SameFlush
<1> HIDE DEF x
<1>7. v \in Worlds /\ v.s = x /\ v.lane = lane /\ v.told = told
  <2>1. World \in Worlds
    BY Parts DEF Good
  <2> QED BY <1>6, <2>1, Put, WorldIs
<1> HIDE DEF v
<1>8. /\ Starting(x) = Starting(s) /\ Flushed(x) = Flushed(s) /\ Queued(x) = Queued(s)
      /\ Steered(x) = {} /\ Waiting(x) = {}
  <2>1. /\ Starting(x) = Starting(s) /\ Flushed(x) = Flushed(s) /\ Queued(x) = Queued(s)
        /\ Steered(x) = {}
    BY <1>5, <1>6 DEF Starting, Flushed, Queued, Steered, SameFlush
  <2> QED BY <1>4, <2>1 DEF Waiting, InFlight
<1>9. PlacedBut(x, told, {})
  <2>1. Distinct(x.queue) /\ Single(x.fifo)
    BY <1>1, <1>5, <1>6, PlacesOf
  <2>2. Starting(x) = {} /\ Flushed(x) = {} /\ Queued(x) = {}
    BY <1>8 DEF Waiting, InFlight
  <2> QED BY <1>1, <1>4, <1>8, <2>1, <2>2 DEF PlacedBut
<1>10. Phased(x)
  <2>1. s.admission = Nobody /\ Flushed(x) = {}
    BY <1>4, <1>8 DEF Waiting, InFlight, Starting
  <2> QED BY <1>6, <1>8, <2>1 DEF Phased
<1>11. Counted(x) /\ Headed(x) /\ Laned(x, lane)
  BY <1>1, <1>4, <1>5, <1>6 DEF Counted, Headed, Laned, SameCounts, Ended
<1>12. Good(v)
  BY <1>7, <1>9, <1>10, <1>11 DEF Good, GoodBut
<1>13. LineIn(v) = LineIn(World)
  <2>1. LineOf(x, told) = LineOf(s, told)
    BY <1>6 DEF LineOf, SameFlush
  <2> QED BY <1>7, <2>1, WorldIs DEF LineIn
<1>14. Closes(World, v)
  BY <1>4, <1>6, <1>7, <1>13, WorldIs DEF Closes
<1> QED BY <1>3, <1>12, <1>14 DEF Reaches, Moves

\* A lane that is gone, or going, is good for every session.
LEMMA LaneIs ==
  ASSUME NEW w, Good(w), NEW l \in {"stopping", "dead"}
  PROVE  LET v == [w EXCEPT !.lane = l] IN
         Good(v) /\ Stays(w, v) /\ v.s = w.s /\ v.lane = l
<1> DEFINE v == [w EXCEPT !.lane = l]
<1>1. /\ w \in Worlds /\ Counted(w.s) /\ Laned(w.s, w.lane) /\ Headed(w.s) /\ Phased(w.s)
      /\ PlacedBut(w.s, w.told, {})
  BY Parts DEF Good
<1>2. v \in Worlds /\ v.s = w.s /\ v.lane = l /\ v.told = w.told
  <2>1. l \in Lanes
    BY DEF Lanes
  <2> QED BY <1>1, <2>1, PutLane
<1> HIDE DEF v
<1>3. Laned(v.s, v.lane)
  BY <1>1, <1>2 DEF Laned
<1> QED BY <1>1, <1>2, <1>3 DEF Good, GoodBut, Stays, LineIn, v

LEMMA LaneOpensReaches ==
  ASSUME Good(World), LaneOpens
  PROVE  Reaches
<1> DEFINE s == session
<1>1. /\ s \in Sessions /\ Counted(s) /\ Laned(s, lane) /\ Headed(s) /\ Phased(s)
      /\ PlacedBut(s, told, {}) /\ lane = "opening" /\ World \in Worlds
  BY GoodSession, Parts DEF LaneOpens, Good
<1>2. s.stage = "opening" /\ s.fifo # <<>> /\ Head(s.fifo).kind = "prompt"
      /\ (s.closers = {} \/ Ended(s))
  BY <1>1 DEF Laned, Headed
<1>3. CASE s.state = "starting"
  <2> DEFINE x == [s EXCEPT !.attached = TRUE, !.stage = "starting"]
             v == [World EXCEPT !.s = x, !.lane = "live"]
  <2>1. [World EXCEPT !.lane = "live", !.s.attached = TRUE, !.s.stage = "starting"] = v
    BY <1>1 DEF World, Sessions
  <2>2. Becomes(v)
    BY <1>3, <2>1, Zenon DEF LaneOpens
  <2>3. /\ x \in Sessions /\ x.attached /\ x.stage = "starting" /\ x.state = s.state
        /\ x.turn = s.turn /\ x.finishing = s.finishing /\ x.closers = s.closers
        /\ x.fifo = s.fifo /\ x.queue = s.queue /\ x.admission = s.admission
        /\ SameCounts(x, s) /\ SameFlush(x, s)
    BY <1>1 DEF Sessions, Stages, SameCounts, SameFlush
  <2> HIDE DEF x
  <2>4. v \in Worlds /\ v.s = x /\ v.lane = "live" /\ v.told = told
    <3>1. "live" \in Lanes
      BY DEF Lanes
    <3> QED BY <1>1, <2>3, <3>1, PutBoth, WorldIs
  <2> HIDE DEF v
  <2>5. /\ Starting(x) = Starting(s) /\ Flushed(x) = Flushed(s) /\ Waiting(x) = Waiting(s)
        /\ PlacedBut(x, told, {}) /\ LineOf(x, told) = LineOf(s, told)
    BY <1>1, <2>3, PlacesFrame
  <2>6. Phased(x) /\ Counted(x)
    BY <1>1, <2>3, <2>5 DEF Phased, Counted, SameCounts
  <2>7. Headed(x) /\ Laned(x, "live")
    BY <1>1, <1>2, <1>3, <2>3 DEF Headed, Laned, Ended
  <2>8. Good(v) /\ Stays(World, v)
    BY <2>3, <2>4, <2>5, <2>6, <2>7, WorldIs DEF Good, GoodBut, Stays, LineIn
  <2> QED BY <2>2, <2>8 DEF Reaches, Moves
<1>4. CASE s.state # "starting"
  <2> DEFINE u == [World EXCEPT !.lane = "stopping"]
             v == Done(u)
  <2>1. Becomes(v)
    BY <1>4, Zenon DEF LaneOpens
  <2>2. Good(u) /\ Stays(World, u) /\ u.s = s /\ u.lane = "stopping"
    BY LaneIs, WorldIs
  <2> HIDE DEF u
  <2>3. ~ Unanswered(Head(u.s.fifo))
    BY <1>2, <2>2 DEF Unanswered
  <2>4. GoodBut(v, {}) /\ v.told = u.told /\ SameControl(v.s, u.s) /\ LineIn(v) = LineIn(u)
    BY <1>2, <2>2, <2>3, DoneIs DEF Good
  <2> HIDE DEF v
  <2>5. Good(v) /\ Stays(World, v)
    BY <2>2, <2>4 DEF Good, Stays, SameControl
  <2> QED BY <2>1, <2>5 DEF Reaches, Moves
<1> QED BY <1>3, <1>4

LEMMA LaneFailsReaches ==
  ASSUME Good(World), LaneFails
  PROVE  Reaches
<1> DEFINE s == session
           u == [World EXCEPT !.lane = "dead"]
           v == FailedStart(u)
<1>1. s.stage = "opening" /\ s.fifo # <<>> /\ Head(s.fifo).kind = "prompt"
  BY GoodSession DEF Laned, Headed, LaneFails
<1>2. Becomes(v)
  BY Zenon DEF LaneFails
<1>3. Good(u) /\ Stays(World, u) /\ u.s = s /\ u.lane = "dead"
  BY LaneIs, WorldIs
<1> HIDE DEF u
<1>4. Good(v) /\ (Stays(u, v) \/ \E F : Fails(u, v, F))
  BY <1>1, <1>3, FailedStartIs
<1> HIDE DEF v
<1>5. CASE Stays(u, v)
  <2>1. Stays(World, v)
    BY <1>3, <1>5 DEF Stays
  <2> QED BY <1>2, <1>4, <2>1 DEF Reaches, Moves
<1>6. ASSUME NEW F, Fails(u, v, F)
      PROVE  Reaches
  <2>1. Fails(World, v, F)
    BY <1>3, <1>6 DEF Fails, Stays, Owed
  <2> QED BY <1>2, <1>4, <2>1 DEF Reaches, Moves
<1> QED BY <1>4, <1>5, <1>6

LEMMA LaneStopsReaches ==
  ASSUME Good(World), LaneStops
  PROVE  Reaches
<1> DEFINE v == [World EXCEPT !.lane = "dead"]
<1>1. Good(v) /\ Stays(World, v)
  BY LaneIs
<1>2. Becomes(v)
  BY DEF LaneStops, Becomes, World
<1> QED BY <1>1, <1>2 DEF Reaches, Moves

LEMMA PromptAnsweredReaches ==
  ASSUME NEW ok \in BOOLEAN, Good(World), PromptAnswered(ok)
  PROVE  Reaches
<1> DEFINE s == session
           current == s.state = "starting" /\ s.turn = Head(s.fifo).turn
<1>1. /\ s \in Sessions /\ Laned(s, lane) /\ Headed(s) /\ Phased(s) /\ s.fifo \in Seq(Entries)
      /\ s.stage \in {"starting", "sending"} /\ Head(s.fifo).kind = "prompt" /\ World \in Worlds
  BY GoodSession, Parts DEF PromptAnswered, Good
<1>2. /\ s.fifo # <<>> /\ lane # "opening" /\ s.stage # "over"
      /\ (s.closers = {} \/ Ended(s)) /\ ~ Unanswered(Head(s.fifo))
  BY <1>1 DEF Headed, Laned, Unanswered
<1>3. CASE ~ ok
  <2> DEFINE v == FailedStart(World)
  <2>1. Becomes(v)
    BY <1>3, Zenon DEF PromptAnswered
  <2>2. Good(v) /\ (Stays(World, v) \/ \E F : Fails(World, v, F))
    BY <1>1, <1>2, FailedStartIs, WorldIs
  <2> HIDE DEF v
  <2> QED BY <2>1, <2>2 DEF Reaches, Moves
<1>4. CASE ok /\ current
  <2> DEFINE v == AcceptTurn(World)
  <2>1. Becomes(v)
    BY <1>4, Zenon DEF PromptAnswered
  <2>2. s.admission # Nobody
    <3>1. Head(s.fifo).turn # NoTurn
      BY <1>1, <1>2, SteersTail DEF Entries
    <3> QED BY <1>1, <1>4, <3>1 DEF Phased
  <2>3. Good(v) /\ \E to, F : Accepts(World, v, s.admission.cmd, to, F)
    BY <1>1, <1>2, <1>4, <2>2, AcceptTurnIs, WorldIs
  <2> HIDE DEF v
  <2> QED BY <2>1, <2>3 DEF Reaches, Moves
<1>5. CASE ok /\ ~ current
  <2> DEFINE u == IF s.stage = "starting" THEN StopLane(World) ELSE World
             v == Done(u)
  <2>1. Becomes(v)
    BY <1>5, Zenon DEF PromptAnswered
  <2>2. Good(u) /\ Stays(World, u) /\ u.s = s /\ u.lane # "opening"
    <3>1. CASE s.stage = "starting" /\ lane = "live"
      <4>1. u = [World EXCEPT !.lane = "stopping"]
        BY <3>1, WorldIs DEF StopLane
      <4> QED BY <4>1, LaneIs, WorldIs
    <3>2. CASE ~ (s.stage = "starting" /\ lane = "live")
      <4>1. u = World
        BY <1>1, <3>2, WorldIs DEF StopLane, World
      <4> QED BY <1>2, <4>1, WorldIs DEF Stays
    <3> QED BY <3>1, <3>2
  <2> HIDE DEF u
  <2>3. GoodBut(v, {}) /\ v.told = u.told /\ SameControl(v.s, u.s) /\ LineIn(v) = LineIn(u)
    BY <1>2, <2>2, DoneIs DEF Good
  <2> HIDE DEF v
  <2>4. Good(v) /\ Stays(World, v)
    BY <2>2, <2>3 DEF Good, Stays, SameControl
  <2> QED BY <2>1, <2>4 DEF Reaches, Moves
<1> QED BY <1>3, <1>4, <1>5

LEMMA LaneExitsReaches ==
  ASSUME Good(World), LaneExits
  PROVE  Reaches
<1> DEFINE s == session
           u == EnterStopping(World)
           x == [u.s EXCEPT !.closers = @ \cup {"exit"}]
           v == [u EXCEPT !.s = x, !.lane = "dead"]
<1>1. /\ s \in Sessions /\ Counted(s) /\ Laned(s, lane) /\ Headed(s) /\ Phased(s)
      /\ PlacedBut(s, told, {}) /\ lane = "live" /\ ~ Ended(s) /\ World \in Worlds
  BY GoodSession, Parts DEF LaneExits, Laned, Good
<1>2. /\ u \in Worlds /\ u.told = told
      /\ u.s.state = "stopping" /\ u.s.last.turn = NoTurn /\ u.s.chains = {}
      /\ u.s.turn = s.turn /\ u.s.finishing = s.finishing
      /\ u.s.turns = s.turns /\ u.s.updates = s.updates /\ u.s.asked = s.asked
      /\ SameFlush(u.s, s) /\ SameFifo(u.s, s)
      /\ u.s.queue = s.queue /\ u.s.admission = s.admission
  BY <1>1, EnterStoppingIs, WorldIs
<1>3. Becomes(v)
  <2>1. Becomes([EnterStopping(World) EXCEPT !.lane = "dead", !.s.closers = @ \cup {"exit"}])
    BY <1>1, Zenon DEF LaneExits
  <2> HIDE DEF u
  <2>2. [u EXCEPT !.lane = "dead", !.s.closers = @ \cup {"exit"}] = v
    BY <1>2 DEF Worlds
  <2> QED BY <2>1, <2>2 DEF u
<1> HIDE DEF u
<1>4. u.s \in Sessions
  BY <1>2, WorldType
<1>5. /\ x \in Sessions /\ x.state = "stopping" /\ x.turn = u.s.turn /\ x.finishing = u.s.finishing
      /\ SameCounts(x, u.s) /\ SameFlush(x, u.s) /\ SameFifo(x, u.s)
      /\ x.queue = u.s.queue /\ x.admission = u.s.admission
  BY <1>2, <1>4 DEF Sessions, Closers, SameCounts, SameFlush, SameFifo
<1> HIDE DEF x
<1>6. v \in Worlds /\ v.s = x /\ v.lane = "dead" /\ v.told = told
  <2>1. "dead" \in Lanes
    BY DEF Lanes
  <2>2. u \in Worlds /\ x \in Sessions /\ u.told = told
    BY <1>2, <1>5
  <2>3. v \in Worlds /\ v.s = x /\ v.lane = "dead" /\ v.told = u.told
    BY <2>1, <2>2 DEF Worlds
  <2> QED BY <2>2, <2>3
<1> HIDE DEF v
<1>7. /\ x.queue = s.queue /\ x.admission = s.admission /\ SameFlush(x, s) /\ x.fifo = s.fifo
      /\ x.stage = s.stage
  BY <1>2, <1>5 DEF SameFlush, SameFifo
<1>8. /\ Starting(x) = Starting(s) /\ Flushed(x) = Flushed(s) /\ Waiting(x) = Waiting(s)
      /\ PlacedBut(x, told, {}) /\ LineOf(x, told) = LineOf(s, told)
  BY <1>1, <1>7, PlacesFrame
<1>9. Phased(x)
  BY <1>1, <1>2, <1>5, <1>7, <1>8 DEF Phased
<1>10. Counted(x)
  BY <1>1, <1>2, <1>5 DEF Counted, SameCounts, NoTurn, Sessions
<1>11. Headed(x) /\ Laned(x, "dead")
  BY <1>1, <1>5, <1>7 DEF Headed, Laned, Ended
<1>12. Good(v) /\ Stays(World, v)
  BY <1>1, <1>5, <1>6, <1>8, <1>9, <1>10, <1>11, WorldIs DEF Good, GoodBut, Stays, LineIn, Ended
<1> QED BY <1>3, <1>12 DEF Reaches, Moves
\* A session in which nothing has changed that the invariant looks at.
LEMMA SimilarIs ==
  ASSUME NEW w, NEW C, GoodBut(w, C), NEW x \in Sessions, Alike(x, w.s)
  PROVE  LET v == [w EXCEPT !.s = x] IN
         GoodBut(v, C) /\ Stays(w, v) /\ v.s = x /\ v.told = w.told
<1> DEFINE v == [w EXCEPT !.s = x]
<1>1. w \in Worlds
  BY Parts
<1>2. v \in Worlds /\ v.s = x /\ v.lane = w.lane /\ v.told = w.told
  BY <1>1, Put
<1> HIDE DEF v
<1>3. GoodBut(v, C) /\ LineIn(v) = LineIn(w)
  BY <1>2, SameIs
<1> QED BY <1>2, <1>3 DEF Stays, Alike, SameControl, v

LEMMA GateClosesReaches ==
  ASSUME Good(World), GateCloses
  PROVE  Reaches
<1> DEFINE x == [session EXCEPT !.gate = FALSE]
           v == [World EXCEPT !.s = x]
<1>1. Becomes(v)
  BY DEF GateCloses, World
<1>2. x \in Sessions /\ Alike(x, session)
  BY GoodSession DEF Sessions, Alike, SameControl, SameCounts, SameFlush, SameFifo
<1> HIDE DEF x
<1>3. Good(v) /\ Stays(World, v)
  BY <1>2, SimilarIs, WorldIs DEF Good
<1> QED BY <1>1, <1>3 DEF Reaches, Moves

LEMMA RuntimeErrorReaches ==
  ASSUME Good(World), RuntimeError
  PROVE  Reaches
<1> DEFINE x == [session EXCEPT !.off = TRUE]
           v == [World EXCEPT !.s = x]
<1>1. Becomes(v)
  BY DEF RuntimeError, World
<1>2. x \in Sessions /\ Alike(x, session)
  BY GoodSession DEF Sessions, Alike, SameControl, SameCounts, SameFlush, SameFifo
<1> HIDE DEF x
<1>3. Good(v) /\ Stays(World, v)
  BY <1>2, SimilarIs, WorldIs DEF Good
<1> QED BY <1>1, <1>3 DEF Reaches, Moves

LEMMA GateOpensReaches ==
  ASSUME Good(World), GateOpens
  PROVE  Reaches
<1> DEFINE x == [session EXCEPT !.gate = TRUE]
           u == [World EXCEPT !.s = x]
           v == FlushSafeBoundaryQueue(u)
<1>1. Becomes(v)
  BY DEF GateOpens, World
<1>2. x \in Sessions /\ Alike(x, session)
  BY GoodSession DEF Sessions, Alike, SameControl, SameCounts, SameFlush, SameFifo
<1> HIDE DEF x
<1>3. Good(u) /\ Stays(World, u)
  BY <1>2, SimilarIs, WorldIs DEF Good
<1> HIDE DEF u
<1>4. Good(v) /\ Stays(u, v)
  BY <1>3, FlushIs
<1> HIDE DEF v
<1>5. Stays(World, v)
  BY <1>3, <1>4 DEF Stays
<1> QED BY <1>1, <1>4, <1>5 DEF Reaches, Moves

\* The end of a turn settles what was offered to it, or waits for the turn's admission.
LEMMA TurnEndsReaches ==
  ASSUME Good(World), TurnEnds
  PROVE  Reaches
<1>1. ~ Ended(session)
  BY DEF TurnEnds, Listening
<1>2. CASE Becomes(CompleteTurn(World))
  <2> DEFINE v == CompleteTurn(World)
  <2>1. /\ Good(v) /\ v.told = Marks(told, InFlight(session), "failed")
        /\ InFlight(session) \subseteq Commands /\ Owed(World, InFlight(session))
        /\ LineIn(v) = session.queue /\ v.s.state = "idle"
    BY <1>1, CompleteTurnIs, WorldIs
  <2> HIDE DEF v
  <2>2. Kept(LineIn(World), session.queue)
    BY LineLoses, WorldIs DEF Good
  <2>3. Fails(World, v, InFlight(session))
    BY <1>1, <2>1, <2>2, WorldIs DEF Fails, Ended
  <2> QED BY <1>2, <2>1, <2>3 DEF Reaches, Moves, v
<1>3. CASE Becomes([World EXCEPT !.s.early = TRUE])
  <2> DEFINE x == [session EXCEPT !.early = TRUE]
             v == [World EXCEPT !.s = x]
  <2>1. Becomes(v)
    BY <1>3 DEF World
  <2>2. x \in Sessions /\ Alike(x, session)
    BY GoodSession DEF Sessions, Alike, SameControl, SameCounts, SameFlush, SameFifo
  <2> HIDE DEF x
  <2>3. Good(v) /\ Stays(World, v)
    BY <2>2, SimilarIs, WorldIs DEF Good
  <2> QED BY <2>1, <2>3 DEF Reaches, Moves
<1> QED BY <1>2, <1>3 DEF TurnEnds

LEMMA LateWorkReaches ==
  ASSUME Good(World), WorkAfterTerminal
  PROVE  Reaches
<1> DEFINE s == session
<1>1. /\ s \in Sessions /\ Counted(s) /\ Laned(s, lane) /\ Headed(s) /\ Phased(s)
      /\ PlacedBut(s, told, {}) /\ ~ Ended(s) /\ s.turn = NoTurn
      /\ s.last.turn \in Nat /\ s.last.members \in SUBSET Commands /\ World \in Worlds
  BY GoodSession, Parts DEF WorkAfterTerminal, Listening, Sessions, Good
<1>2. PICK free \in BOOLEAN, flushes \in BOOLEAN :
        LET w == [World EXCEPT !.s.turn = session.last.turn,
                               !.s.members = session.last.members,
                               !.s.state = "working", !.s.gate = free]
        IN  Becomes(IF flushes THEN FlushSafeBoundaryQueue(w) ELSE w)
  BY DEF WorkAfterTerminal
<1> DEFINE t == s.last.turn
           m == s.last.members
           x == [s EXCEPT !.turn = t, !.members = m, !.state = "working", !.gate = free]
           u == [World EXCEPT !.s = x]
<1>3. Becomes(IF flushes THEN FlushSafeBoundaryQueue(u) ELSE u)
  <2>1. [World EXCEPT !.s.turn = session.last.turn, !.s.members = session.last.members,
                      !.s.state = "working", !.s.gate = free] = u
    BY <1>1 DEF World, Sessions
  <2> QED BY <1>2, <2>1
<1>4. s.admission = Nobody
  <2>1. s.admission # Nobody => s.admission.turn # NoTurn
    BY <1>1 DEF Sessions, Offers
  <2> QED BY <1>1, <2>1 DEF Phased, Ended
<1> HIDE DEF t, m
<1>5. t \in Nat /\ m \in SUBSET Commands /\ t <= s.turns
  BY <1>1 DEF t, m, Counted
<1>6. /\ x \in Sessions /\ x.state = "working" /\ x.turn = t
      /\ x.attached = s.attached /\ x.finishing = s.finishing /\ x.closers = s.closers
      /\ SameCounts(x, s) /\ SameFlush(x, s) /\ SameFifo(x, s)
      /\ x.queue = s.queue /\ x.admission = s.admission
  BY <1>1, <1>2, <1>5 DEF Sessions, States, SameCounts, SameFlush, SameFifo
<1> HIDE DEF x
<1>7. u \in Worlds /\ u.s = x /\ u.lane = lane /\ u.told = told
  BY <1>1, <1>6, Put, WorldIs
<1> HIDE DEF u
<1>8. /\ Starting(x) = Starting(s) /\ Flushed(x) = Flushed(s) /\ Waiting(x) = Waiting(s)
      /\ PlacedBut(x, told, {}) /\ LineOf(x, told) = LineOf(s, told)
  BY <1>1, <1>6, PlacesFrame DEF SameFifo
<1>9. Phased(x)
  BY <1>1, <1>4, <1>6, <1>8 DEF Phased, Ended
<1>10. Counted(x) /\ Headed(x) /\ Laned(x, lane)
  BY <1>1, <1>5, <1>6 DEF Counted, Headed, Laned, SameCounts, SameFifo, Ended
<1>11. Good(u) /\ Stays(World, u)
  BY <1>1, <1>6, <1>7, <1>8, <1>9, <1>10, WorldIs DEF Good, GoodBut, Stays, LineIn, Ended
<1>12. CASE flushes
  <2> DEFINE v == FlushSafeBoundaryQueue(u)
  <2>1. Becomes(v)
    BY <1>3, <1>12
  <2>2. Good(v) /\ Stays(u, v)
    BY <1>11, FlushIs
  <2> HIDE DEF v
  <2>3. Stays(World, v)
    BY <1>11, <2>2 DEF Stays
  <2> QED BY <2>1, <2>2, <2>3 DEF Reaches, Moves
<1>13. CASE ~ flushes
  BY <1>3, <1>11, <1>13 DEF Reaches, Moves
<1> QED BY <1>12, <1>13

LEMMA ReturnedReaches ==
  ASSUME NEW c \in Commands, Good(World), InputReturned(c)
  PROVE  Reaches
<1> DEFINE s == session
           n == s.given + 1
           x == [s EXCEPT !.given = n]
           w == [World EXCEPT !.s = x]
<1>1. /\ s \in Sessions /\ PlacedBut(s, told, {}) /\ ~ Ended(s) /\ n \in Nat /\ World \in Worlds
      /\ s.returns \in SUBSET Commands
  BY GoodSession, Parts DEF InputReturned, Listening, Good
<1>2. \/ told[c] = "accepted" /\ Becomes(GiveBack(w, c))
      \/ Becomes([w EXCEPT !.s.returns = @ \cup {c}])
  <2>1. [World EXCEPT !.s.given = @ + 1] = w
    BY <1>1 DEF World, Sessions
  <2> HIDE DEF w
  <2> QED BY <2>1 DEF InputReturned
<1> HIDE DEF n
<1>3. x \in Sessions /\ Alike(x, s)
  BY <1>1 DEF Sessions, Alike, SameControl, SameCounts, SameFlush, SameFifo
<1> HIDE DEF x
<1>4. GoodBut(w, {}) /\ Stays(World, w) /\ w.s = x /\ w.told = told
  BY <1>3, SimilarIs, WorldIs DEF Good
<1> HIDE DEF w
<1>5. CASE told[c] = "accepted" /\ Becomes(GiveBack(w, c))
  <2> DEFINE v == GiveBack(w, c)
  <2>1. /\ v \in Worlds /\ v.lane = w.lane /\ Alike(v.s, w.s)
        /\ v.told = Marks(w.told, {c}, "returned")
    BY <1>4, <1>5, Parts, GiveBackIs
  <2> HIDE DEF v
  <2>2. {c} \cap Waiting(w.s) = {}
    <3>1. PlacedBut(w.s, w.told, {})
      BY <1>4, Parts
    <3> QED BY <1>4, <1>5, <3>1, PlacesOf
  <2>3. "returned" \in Statuses \ {"twice"} /\ "returned" \notin {"pending", "queued"}
    BY DEF Statuses
  <2>4. {} \ {c} = {}
    OBVIOUS
  <2>5. GoodBut(v, {} \ {c}) /\ LineIn(v) = LineIn(w)
    BY <1>4, <2>1, <2>2, <2>3, LooseIs
  <2>6. v.s.state = s.state
    BY <1>3, <1>4, <2>1 DEF Alike, SameControl
  <2>7. Returns(World, v, c)
    BY <1>1, <1>4, <1>5, <2>1, <2>5, <2>6, WorldIs DEF Returns, Stays, Ended
  <2> QED BY <1>5, <2>4, <2>5, <2>7 DEF Reaches, Moves, Good, v
<1>6. CASE Becomes([w EXCEPT !.s.returns = @ \cup {c}])
  <2> DEFINE r == w.s.returns \cup {c}
             y == [w.s EXCEPT !.returns = r]
             v == [w EXCEPT !.s = y]
  <2>1. Becomes(v)
    BY <1>6
  <2>2. r \in SUBSET Commands
    BY <1>3, <1>4 DEF Sessions
  <2> HIDE DEF r
  <2>3. y \in Sessions /\ Alike(y, w.s)
    BY <1>3, <1>4, <2>2 DEF Sessions, Alike, SameControl, SameCounts, SameFlush, SameFifo
  <2> HIDE DEF y
  <2>4. GoodBut(v, {}) /\ Stays(w, v)
    BY <1>4, <2>3, SimilarIs
  <2> HIDE DEF v
  <2>5. Good(v) /\ Stays(World, v)
    BY <1>4, <2>4 DEF Stays, Good
  <2> QED BY <2>1, <2>5 DEF Reaches, Moves
<1> QED BY <1>2, <1>5, <1>6
\* A steer without a place is accepted.
LEMMA LooseAccepted ==
  ASSUME NEW w, NEW c \in Commands, GoodBut(w, {c}), w.told[c] \in {"pending", "queued"}
  PROVE  LET v == Accepted(w, c) IN
         /\ Good(v) /\ LineIn(v) = LineIn(w) /\ v.s.state = w.s.state
         /\ \E to \in {"accepted", "returned"} : v.told = Marks(w.told, {c}, to)
<1> DEFINE v == Accepted(w, c)
<1>1. w \in Worlds /\ PlacedBut(w.s, w.told, {c})
  BY Parts
<1>2. /\ v \in Worlds /\ v.lane = w.lane /\ Alike(v.s, w.s)
      /\ \E to \in {"accepted", "returned"} : v.told = Marks(w.told, {c}, to)
  BY <1>1, AcceptedIs
<1> HIDE DEF v
<1>3. PICK to \in {"accepted", "returned"} : v.told = Marks(w.told, {c}, to)
  BY <1>2
<1>4. to \in Statuses \ {"twice"} /\ to \notin {"pending", "queued"} /\ {c} \ {c} = {}
  BY <1>3 DEF Statuses
<1>5. {c} \cap Waiting(w.s) = {}
  BY <1>1 DEF PlacedBut
<1>6. GoodBut(v, {c} \ {c}) /\ LineIn(v) = LineIn(w)
  BY <1>2, <1>3, <1>4, <1>5, LooseIs
<1>7. v.s.state = w.s.state
  BY <1>2 DEF Alike, SameControl
<1> QED BY <1>2, <1>4, <1>6, <1>7 DEF Good, v

LEMMA SteerAnsweredReaches ==
  ASSUME NEW answer \in {"ok", "busy", "refused"}, Good(World), SteerAnswered(answer)
  PROVE  Reaches
<1> DEFINE s == session
           op == Head(s.fifo)
           c == op.cmd
           w == Done(World)
<1>1. /\ s \in Sessions /\ Laned(s, lane) /\ Headed(s) /\ Phased(s)
      /\ s.stage = "sending" /\ op.kind = "steer" /\ s.fifo \in Seq(Entries)
  BY GoodSession DEF SteerAnswered
<1>2. s.fifo # <<>> /\ lane # "opening" /\ (s.closers = {} \/ Ended(s)) /\ op \in Entries
  BY <1>1, SteersTail DEF Headed, Laned
<1>3. /\ w.told = told /\ SameControl(w.s, s) /\ LineIn(w) = LineIn(World)
      /\ ~ Unanswered(op) => GoodBut(w, {})
      /\ Unanswered(op) => GoodBut(w, {} \cup {c}) /\ told[c] = "pending"
  BY <1>2, DoneIs, WorldIs DEF Good
<1>4. CASE op.final
  <2>1. Becomes(w)
    BY <1>4, Zenon DEF SteerAnswered
  <2> HIDE DEF w
  <2>2. Good(w) /\ Stays(World, w)
    BY <1>3, <1>4, WorldIs DEF Good, Stays, SameControl, Unanswered
  <2> QED BY <2>1, <2>2 DEF Reaches, Moves
<1>5. CASE ~ op.final
  <2>1. Unanswered(op) /\ c \in Commands /\ {} \cup {c} = {c}
    BY <1>1, <1>2, <1>5 DEF Unanswered, Entries
  <2>2. GoodBut(w, {c}) /\ told[c] = "pending"
    BY <1>3, <2>1
  <2>3. /\ s.state # "closed" /\ ~ s.finishing
    <3>1. c \in Waiting(s)
      BY <1>1, <1>2, <2>1, SteersTail DEF Steered, Waiting, InFlight
    <3> QED BY <1>1, <3>1 DEF Phased
  <2>4. CASE answer = "ok"
    <3> DEFINE m == w.s.members \cup {c}
               x == [w.s EXCEPT !.members = m]
               u == [w EXCEPT !.s = x]
               v == Accepted(u, c)
    <3>1. Becomes(v)
      <4>1. Becomes(Accepted([w EXCEPT !.s.members = @ \cup {c}], c))
        BY <1>5, <2>4, Zenon DEF SteerAnswered
      <4> QED BY <4>1
    <3>2. w.s \in Sessions
      BY <2>2, Parts
    <3> HIDE DEF w
    <3>3. m \in SUBSET Commands
      BY <2>1, <3>2 DEF Sessions
    <3> HIDE DEF m
    <3>4. x \in Sessions /\ Alike(x, w.s)
      BY <3>2, <3>3 DEF Sessions, Alike, SameControl, SameCounts, SameFlush, SameFifo
    <3> HIDE DEF x
    <3>5. GoodBut(u, {c}) /\ Stays(w, u) /\ u.s = x /\ u.told = w.told
      BY <2>2, <3>4, SimilarIs
    <3> HIDE DEF u
    <3>6. u.told[c] \in {"pending", "queued"}
      BY <1>3, <2>2, <3>5
    <3>7. /\ Good(v) /\ LineIn(v) = LineIn(u) /\ v.s.state = u.s.state
          /\ \E to \in {"accepted", "returned"} : v.told = Marks(u.told, {c}, to)
      BY <2>1, <3>5, <3>6, LooseAccepted
    <3> HIDE DEF v
    <3>8. PICK to \in {"accepted", "returned"} : v.told = Marks(told, {c}, to)
      BY <1>3, <3>5, <3>7
    <3>9. v.told = Marks(Marks(told, {c}, to), {}, "failed")
      BY <3>8 DEF Marks
    <3>10. LineIn(v) = LineIn(World) /\ v.s.state = s.state
      BY <1>3, <3>4, <3>5, <3>7 DEF Stays, Alike, SameControl
    <3> HIDE DEF c
    <3>11. Accepts(World, v, c, to, {})
      BY <2>1, <2>2, <2>3, <3>8, <3>9, <3>10, WorldIs DEF Accepts, Owed, Kept
    <3> QED BY <3>1, <3>7, <3>11 DEF Reaches, Moves
  <2>5. CASE answer = "busy"
    <3> DEFINE v == Queue(w, c)
    <3>1. Becomes(v)
      BY <1>5, <2>5, Zenon DEF SteerAnswered
    <3> HIDE DEF w
    <3>2. /\ Good(v) /\ v.told = Marks(w.told, {c}, "queued")
          /\ LineIn(v) = Append(LineIn(w), c) /\ v.s.state = w.s.state
      BY <1>3, <2>1, <2>2, <2>3, QueueIs DEF SameControl
    <3> HIDE DEF v
    <3>3. Requeues(World, v, c)
      BY <1>3, <2>2, <2>3, <3>2, WorldIs DEF Requeues, SameControl
    <3> QED BY <2>1, <3>1, <3>2, <3>3 DEF Reaches, Moves
  <2>6. CASE answer = "refused"
    <3> DEFINE v == Tell(w, {c}, "failed")
    <3>1. Becomes(v)
      BY <1>5, <2>6, Zenon DEF SteerAnswered
    <3>2. w \in Worlds /\ w.told[c] \in {"pending", "queued"}
      BY <1>3, <2>2, Parts
    <3> HIDE DEF w
    <3>3. Good(v) /\ v.told = Marks(w.told, {c}, "failed") /\ LineIn(v) = LineIn(w)
      BY <2>1, <2>2, <3>2, LooseFails
    <3>4. v.s = w.s
      BY <3>2, TellIs DEF Statuses
    <3> HIDE DEF v
    <3>5. Fails(World, v, {c})
      BY <1>3, <2>1, <2>2, <2>3, <3>3, <3>4, WorldIs DEF Fails, Owed, Kept, SameControl
    <3> QED BY <3>1, <3>3, <3>5 DEF Reaches, Moves
  <2> QED BY <2>4, <2>5, <2>6
<1> QED BY <1>1, <1>2, <1>4, <1>5 DEF Entries
\* The command at the lane is settled, and the next one takes its place: what the flush
\* says of it before does not matter.
LEMMA SettledFlush ==
  ASSUME NEW w, Good(w), Flushed(w.s) # {}, NEW a \in Worlds, Alike(a.s, w.s), a.lane = w.lane,
         NEW what \in Statuses \ {"twice", "pending", "queued"},
         a.told = Marks(w.told, {w.s.flush.cmd}, what)
  PROVE  LET v == Drain(a)
             c == w.s.flush.cmd IN
         /\ Good(v) /\ v.told = a.told /\ v.s.state = w.s.state
         /\ c \in Commands /\ w.told[c] = "queued"
         /\ LineIn(w) = <<c>> \o w.s.queue /\ LineIn(v) = w.s.queue
<1> DEFINE c == w.s.flush.cmd
           v == Drain(a)
           x == [a.s EXCEPT !.final = TRUE]
           b == [a EXCEPT !.s = x]
<1>1. /\ w \in Worlds /\ w.s \in Sessions /\ Counted(w.s) /\ Laned(w.s, w.lane) /\ Headed(w.s)
      /\ Phased(w.s) /\ PlacedBut(w.s, w.told, {}) /\ w.told \in [Commands -> Statuses]
      /\ a.s \in Sessions
  BY Parts, WorldType DEF Good
<1>2. /\ Flushed(w.s) = {c} /\ c \in Commands /\ w.told[c] = "queued"
      /\ c \notin Queued(w.s) /\ c \notin Steered(w.s) /\ c \notin Starting(w.s)
      /\ w.s.admission = Nobody /\ Starting(w.s) = {}
  <2>1. Flushed(w.s) = {c} /\ Flushed(w.s) \subseteq Commands
    BY <1>1, PlacesType DEF Flushed
  <2> HIDE DEF c
  <2> QED BY <1>1, <2>1, PlacesOf DEF Phased, Starting
<1>3. LineIn(w) = <<c>> \o w.s.queue
  BY <1>1, LineIs DEF LineIn
<1> HIDE DEF c
<1>4. /\ x \in Sessions /\ x.final /\ SameControl(x, w.s) /\ SameCounts(x, w.s)
      /\ SameFifo(x, w.s) /\ x.queue = w.s.queue /\ x.admission = w.s.admission
  BY <1>1 DEF Sessions, Alike, SameControl, SameCounts, SameFifo
<1>5. v = Drain(b)
  <2>1. CanFlush(a.s) <=> CanFlush(x)
    BY <1>1 DEF CanFlush, Sessions
  <2>2. \A y, q : FlushTo(a, y, q) = FlushTo(b, y, q)
    BY <1>1 DEF FlushTo, Worlds, Sessions
  <2>3. b.s = x /\ x.queue = a.s.queue /\ x.turn = a.s.turn /\ x.flush = a.s.flush
    BY <1>1 DEF Worlds, Sessions
  <2> HIDE DEF b, x
  <2>4. CASE CanFlush(a.s)
    <3> DEFINE y == [cmd |-> Head(a.s.queue), turn |-> a.s.turn]
    <3>1. v = FlushTo(a, y, Tail(a.s.queue))
      BY <1>1, <2>4 DEF Drain, FlushTo, Worlds, Sessions
    <3>2. Drain(b) = FlushTo(b, y, Tail(a.s.queue))
      <4>1. CanFlush(b.s)
        BY <2>1, <2>3, <2>4
      <4>2. Drain(b) = [b EXCEPT !.s.flush = [cmd |-> Head(b.s.queue), turn |-> b.s.turn],
                                 !.s.final = FALSE, !.s.queue = Tail(@)]
        BY <4>1 DEF Drain
      <4>3. b \in Worlds /\ b.s \in Sessions
        BY <1>4, <2>3, Put DEF b
      <4> QED BY <2>3, <4>2, <4>3 DEF FlushTo, Worlds, Sessions
    <3> HIDE DEF v, y
    <3> QED BY <2>2, <3>1, <3>2
  <2>5. CASE ~ CanFlush(a.s)
    <3>1. v = FlushTo(a, Nobody, a.s.queue)
      BY <1>1, <2>5 DEF Drain, FlushEnds, FlushTo, Worlds, Sessions
    <3>2. Drain(b) = FlushTo(b, Nobody, b.s.queue)
      <4>1. ~ CanFlush(b.s)
        BY <2>1, <2>3, <2>5
      <4>2. b \in Worlds /\ b.s \in Sessions
        BY <1>4, <2>3, Put DEF b
      <4> QED BY <4>1, <4>2 DEF Drain, FlushEnds, FlushTo, Worlds, Sessions
    <3> HIDE DEF v
    <3> QED BY <2>2, <2>3, <3>1, <3>2
  <2> QED BY <2>4, <2>5
<1> HIDE DEF x
<1>6. b \in Worlds /\ b.s = x /\ b.lane = w.lane /\ b.told = a.told
  BY <1>4, Put
<1> HIDE DEF b, v
<1>7. /\ Starting(x) = {} /\ Flushed(x) = {} /\ Queued(x) = Queued(w.s) /\ Steered(x) = Steered(w.s)
      /\ Waiting(w.s) = Waiting(x) \cup {c} /\ c \notin Waiting(x)
  <2>1. /\ Starting(x) = {} /\ Flushed(x) = {} /\ Queued(x) = Queued(w.s)
        /\ Steered(x) = Steered(w.s)
    BY <1>2, <1>4 DEF Starting, Flushed, Queued, Steered, SameFifo
  <2> QED BY <1>2, <2>1 DEF Waiting, InFlight
<1>8. PlacedBut(x, b.told, {})
  <2>1. /\ Distinct(x.queue) /\ Single(x.fifo)
        /\ \A d \in Queued(w.s) : w.told[d] = "queued"
        /\ \A d \in Steered(w.s) : w.told[d] = "pending"
        /\ \A d \in Commands : w.told[d] # "twice"
        /\ \A d \in Commands : w.told[d] \in {"pending", "queued"} => d \in Waiting(w.s)
    BY <1>1, <1>4, PlacesOf DEF SameFifo, PlacedBut
  <2>2. \A d \in Commands : b.told[d] = IF d = c THEN what ELSE w.told[d]
    BY <1>6 DEF Marks, c
  <2>3. Queued(w.s) \subseteq Commands /\ Steered(w.s) \subseteq Commands
    BY <1>1, PlacesType
  <2> QED BY <1>2, <1>7, <2>1, <2>2, <2>3 DEF PlacedBut
<1>9. Phased(x)
  BY <1>1, <1>2, <1>4, <1>7 DEF Phased, SameControl
<1>10. Counted(x) /\ Headed(x) /\ Laned(x, w.lane)
  BY <1>1, <1>4 DEF Counted, Headed, Laned, SameControl, SameCounts, SameFifo, Ended
<1>11. GoodBut(b, {})
  BY <1>6, <1>8, <1>9, <1>10 DEF GoodBut
<1>12. LineIn(b) = w.s.queue
  BY <1>2, <1>4, <1>6, <1>7, <1>8, <1>9, LineIs DEF LineIn
<1>13. GoodBut(v, {}) /\ Stays(b, v) /\ SameControl(v.s, b.s)
  BY <1>5, <1>6, <1>7, <1>11, DrainIs
<1>14. v.s.state = w.s.state
  BY <1>4, <1>6, <1>13 DEF SameControl
<1> QED BY <1>2, <1>3, <1>6, <1>12, <1>13, <1>14 DEF Good, Stays, v, c

\* The answer to a command of the queue; a busy lane gets it back as the first.
LEMMA BoundaryAnsweredReaches ==
  ASSUME NEW answer \in {"ok", "busy", "refused"}, Good(World), BoundaryAnswered(answer)
  PROVE  Reaches
<1> DEFINE s == session
           c == s.flush.cmd
<1>1. /\ s \in Sessions /\ Counted(s) /\ Laned(s, lane) /\ Headed(s) /\ Phased(s)
      /\ PlacedBut(s, told, {}) /\ World \in Worlds /\ s.queue \in Seq(Commands)
      /\ told \in [Commands -> Statuses] /\ s.flush # Nobody /\ s.state # "closed"
      /\ (answer = "busy" => ~ s.final)
  BY GoodSession, Parts DEF BoundaryAnswered, Good
<1>2. ~ s.final => /\ Flushed(s) = {c} /\ c \in Commands /\ told[c] = "queued"
                   /\ LineIn(World) = <<c>> \o s.queue /\ <<c>> \o s.queue # <<>>
                   /\ Head(<<c>> \o s.queue) = c /\ Tail(<<c>> \o s.queue) = s.queue
  <2>1. ~ s.final => Flushed(s) = {c} /\ c \in Commands
    BY <1>1, PlacesType DEF Flushed
  <2>2. ~ s.final => told[c] = "queued" /\ LineIn(World) = <<c>> \o s.queue
    <3>1. \A d \in Flushed(s) : told[d] = "queued"
      BY <1>1, PlacesOf
    <3>2. Flushed(s) # {} => LineOf(s, told) = <<c>> \o s.queue
      BY <1>1, LineIs
    <3>3. LineIn(World) = LineOf(s, told)
      BY WorldIs DEF LineIn
    <3> HIDE DEF c
    <3> QED BY <2>1, <3>1, <3>2, <3>3
  <2> HIDE DEF c
  <2> QED BY <1>1, <2>1, <2>2, ConsSet
<1>3. CASE answer = "busy"
  <2> DEFINE q == <<c>> \o s.queue
             x == [s EXCEPT !.flush = Nobody, !.final = FALSE, !.queue = q, !.off = TRUE]
             v == [World EXCEPT !.s = x]
  <2>1. FlushEnds([World EXCEPT !.s.queue = <<c>> \o @, !.s.off = TRUE]) = v
    <3> DEFINE y == [s EXCEPT !.queue = q, !.off = TRUE]
               u == [World EXCEPT !.s = y]
    <3>1. [World EXCEPT !.s.queue = <<c>> \o @, !.s.off = TRUE] = u
      BY <1>1 DEF World, Sessions
    <3> HIDE DEF q
    <3>2. u.s = y /\ [u EXCEPT !.s = x] = v
      BY DEF World
    <3>3. [y EXCEPT !.flush = Nobody, !.final = FALSE] = x
      BY <1>1 DEF Sessions
    <3> HIDE DEF x, y, u, v
    <3> QED BY <3>1, <3>2, <3>3 DEF FlushEnds
  <2>2. Becomes(v)
    BY <1>3, <2>1, Zenon DEF BoundaryAnswered
  <2>3. /\ q \in Seq(Commands) /\ ToSet(q) = Queued(s) \cup {c}
        /\ (c \notin Queued(s) => Distinct(q))
    <3> HIDE DEF c
    <3> QED BY <1>1, <1>2, <1>3, ConsSet, PlacesOf DEF Queued
  <2>4. LineIn(World) = q
    BY <1>1, <1>2, <1>3
  <2> HIDE DEF c, q
  <2>5. /\ x \in Sessions /\ x.flush = Nobody /\ x.queue = q /\ x.admission = s.admission
        /\ SameControl(x, s) /\ SameCounts(x, s) /\ SameFifo(x, s)
    BY <1>1, <2>3 DEF Sessions, SameControl, SameCounts, SameFifo
  <2> HIDE DEF x
  <2>6. v \in Worlds /\ v.s = x /\ v.lane = lane /\ v.told = told
    BY <1>1, <2>5, Put, WorldIs
  <2> HIDE DEF v
  <2>7. s.admission = Nobody /\ Starting(s) = {} /\ ~ s.finishing
    BY <1>1, <1>2, <1>3 DEF Phased, Starting, Waiting, InFlight
  <2>8. /\ c \notin Queued(s) /\ c \notin Steered(s) /\ Queued(s) \cap Steered(s) = {}
        /\ \A d \in Queued(s) : told[d] = "queued"
    BY <1>1, <1>2, <1>3, PlacesOf
  <2>9. /\ Starting(x) = {} /\ Flushed(x) = {} /\ Steered(x) = Steered(s)
        /\ Queued(x) = Queued(s) \cup {c}
    BY <2>3, <2>5, <2>7 DEF Starting, Flushed, Steered, Queued, SameFifo
  <2>10. Waiting(x) = Waiting(s)
    BY <1>1, <1>2, <1>3, <2>7, <2>9 DEF Waiting, InFlight
  <2>11. PlacedBut(x, told, {})
    BY <1>1, <1>2, <1>3, <2>3, <2>5, <2>8, <2>9, <2>10 DEF PlacedBut, SameFifo
  <2>12. Phased(x)
    BY <1>1, <2>5, <2>7, <2>9 DEF Phased, SameControl
  <2>13. Good(v)
    <3>1. GoodBut(World, {})
      BY DEF Good
    <3> QED BY <2>5, <2>6, <2>11, <2>12, <3>1, PlacesIs, WorldIs DEF Good
  <2>14. LineIn(v) = q
    BY <2>5, <2>6, <2>7, <2>9, <2>11, <2>12, LineIs DEF LineIn
  <2>15. Stays(World, v)
    BY <2>4, <2>5, <2>6, <2>14, WorldIs DEF Stays, SameControl
  <2> QED BY <2>2, <2>13, <2>15 DEF Reaches, Moves
<1>4. CASE answer = "ok" /\ ~ s.final
  <2> DEFINE m == s.members \cup {c}
             x == [s EXCEPT !.members = m]
             u == [World EXCEPT !.s = x]
             a == Accepted(u, c)
             v == Drain(a)
  <2>1. Becomes(v)
    <3>1. [World EXCEPT !.s.members = @ \cup {c}] = u
      BY <1>1 DEF World, Sessions
    <3> QED BY <1>4, <3>1, Zenon DEF BoundaryAnswered
  <2>2. m \in SUBSET Commands
    BY <1>1, <1>2, <1>4 DEF Sessions
  <2> HIDE DEF m
  <2>3. x \in Sessions /\ Alike(x, s)
    BY <1>1, <2>2 DEF Sessions, Alike, SameControl, SameCounts, SameFlush, SameFifo
  <2> HIDE DEF x
  <2>4. u \in Worlds /\ u.s = x /\ u.told = told /\ u.lane = lane
    BY <1>1, <2>3, Put, WorldIs
  <2> HIDE DEF u
  <2>5. /\ a \in Worlds /\ a.lane = u.lane /\ Alike(a.s, u.s)
        /\ \E to \in {"accepted", "returned"} : a.told = Marks(u.told, {c}, to)
    BY <1>2, <1>4, <2>4, AcceptedIs
  <2> HIDE DEF a
  <2>6. PICK to \in {"accepted", "returned"} : a.told = Marks(told, {c}, to)
    BY <2>4, <2>5
  <2>7. Alike(a.s, s) /\ to \in Statuses \ {"twice", "pending", "queued"} /\ Flushed(s) # {}
    BY <1>2, <1>4, <2>3, <2>4, <2>5, <2>6
       DEF Alike, SameControl, SameCounts, SameFlush, SameFifo, Statuses
  <2>8. Good(v) /\ v.told = a.told /\ v.s.state = s.state /\ LineIn(v) = s.queue
    <3>1. a \in Worlds /\ a.lane = lane
      BY <2>4, <2>5
    <3> QED BY <2>6, <2>7, <3>1, SettledFlush, WorldIs
  <2> HIDE DEF v
  <2>9. v.told = Marks(Marks(told, {c}, to), {}, "failed")
    BY <2>6, <2>8 DEF Marks
  <2> HIDE DEF c
  <2>10. Accepts(World, v, c, to, {})
    BY <1>1, <1>2, <1>4, <2>6, <2>8, <2>9, WorldIs DEF Accepts, Owed, Kept
  <2> QED BY <2>1, <2>8, <2>10 DEF Reaches, Moves
<1>5. CASE answer = "refused" /\ ~ s.final
  <2> DEFINE a == Tell(World, {c}, "failed")
             v == Drain(a)
  <2>1. Becomes(v)
    BY <1>5, Zenon DEF BoundaryAnswered
  <2>2. /\ a \in Worlds /\ a.s = s /\ a.lane = lane /\ a.told = Marks(told, {c}, "failed")
    BY <1>1, <1>2, <1>5, FailedIs, WorldIs DEF Owed
  <2> HIDE DEF a
  <2>3. Alike(a.s, s) /\ "failed" \in Statuses \ {"twice", "pending", "queued"} /\ Flushed(s) # {}
    BY <1>2, <1>5, <2>2 DEF Alike, SameControl, SameCounts, SameFlush, SameFifo, Statuses
  <2>4. Good(v) /\ v.told = a.told /\ v.s.state = s.state /\ LineIn(v) = s.queue
    BY <2>2, <2>3, SettledFlush, WorldIs
  <2> HIDE DEF v, c
  <2>5. Fails(World, v, {c})
    BY <1>1, <1>2, <1>5, <2>2, <2>4, WorldIs DEF Fails, Owed, Kept
  <2> QED BY <2>1, <2>4, <2>5 DEF Reaches, Moves
<1>6. CASE answer # "busy" /\ s.final
  <2> DEFINE v == Drain(World)
  <2>1. Becomes(v)
    BY <1>6, Zenon DEF BoundaryAnswered
  <2>2. GoodBut(v, {}) /\ Stays(World, v)
    BY <1>6, DrainIs, WorldIs DEF Good, Flushed
  <2> HIDE DEF v
  <2> QED BY <2>1, <2>2 DEF Reaches, Moves, Good
<1> QED BY <1>1, <1>3, <1>4, <1>5, <1>6
-----------------------------------------------------------------------------
(* The invariant.                                                          *)

LEMMA NextReaches ==
  ASSUME Good(World), Next
  PROVE  Reaches
<1>1. CASE \E c \in Commands : Start(c) \/ Send(c) \/ InputReturned(c)
  BY <1>1, StartReaches, SendReaches, ReturnedReaches
<1>2. CASE UpdateSettings
  BY <1>2, UpdateReaches
<1>3. CASE Stop
  BY <1>3, StopReaches
<1>4. CASE NextBegins
  BY <1>4, NextBeginsReaches
<1>5. CASE FlushAwaited
  BY <1>5, FlushAwaitedReaches
<1>6. CASE StartNextQueued
  BY <1>6, StartNextReaches
<1>7. CASE NothingQueued
  BY <1>7, NothingQueuedReaches
<1>8. CASE \E c \in session.closers : Settles(c)
  BY <1>8, SettlesReaches
<1>9. CASE CleanupDone
  BY <1>9, CleanupReaches
<1>10. CASE LaneAnswers
  <2>1. CASE LaneOpens
    BY <2>1, LaneOpensReaches
  <2>2. CASE LaneFails
    BY <2>2, LaneFailsReaches
  <2>3. CASE \E ok \in BOOLEAN : PromptAnswered(ok) \/ UpdateAnswered(ok)
    BY <2>3, PromptAnsweredReaches, UpdateAnsweredReaches
  <2>4. CASE \E answer \in {"ok", "busy", "refused"} :
               SteerAnswered(answer) \/ BoundaryAnswered(answer)
    BY <2>4, SteerAnsweredReaches, BoundaryAnsweredReaches
  <2> QED BY <1>10, <2>1, <2>2, <2>3, <2>4 DEF LaneAnswers
<1>11. CASE TurnEnds
  BY <1>11, TurnEndsReaches
<1>12. CASE WorkAfterTerminal
  BY <1>12, LateWorkReaches
<1>13. CASE GateCloses
  BY <1>13, GateClosesReaches
<1>14. CASE GateOpens
  BY <1>14, GateOpensReaches
<1>15. CASE RuntimeError
  BY <1>15, RuntimeErrorReaches
<1>16. CASE LaneExits
  BY <1>16, LaneExitsReaches
<1>17. CASE LaneStops
  BY <1>17, LaneStopsReaches
<1> QED BY <1>1, <1>2, <1>3, <1>4, <1>5, <1>6, <1>7, <1>8, <1>9, <1>10, <1>11, <1>12,
           <1>13, <1>14, <1>15, <1>16, <1>17 DEF Next

LEMMA StepMoves ==
  ASSUME Good(World), Next
  PROVE  Good(World') /\ Moves(World, World')
<1>1. PICK v : Good(v) /\ Moves(World, v) /\ Becomes(v)
  BY NextReaches DEF Reaches
<1>2. v \in Worlds
  BY <1>1, Parts DEF Good
<1>3. World' = v
  <2>1. World' = [s |-> v.s, lane |-> v.lane, told |-> v.told]
    BY <1>1 DEF World, Becomes
  <2>2. v = [s |-> v.s, lane |-> v.lane, told |-> v.told]
    BY <1>2 DEF Worlds
  <2> QED BY <2>1, <2>2
<1> QED BY <1>1, <1>3

LEMMA InitGood ==
  ASSUME Init
  PROVE  Good(World) /\ LineIn(World) = <<>> /\ session.state # "closed"
<1>1. PICK d \in Deliveries : session = Fresh(d)
  BY DEF Init
<1> DEFINE s == session
<1>2. s \in Sessions
  <2>1. <<>> \in Seq(Commands) /\ <<>> \in Seq(Entries)
    OBVIOUS
  <2> QED BY <1>1, <2>1 DEF Fresh, Sessions, States, Stages, Closed, NoTurn
<1>3. /\ s.queue = <<>> /\ s.fifo = <<>> /\ s.admission = Nobody /\ s.flush = Nobody
      /\ s.state = "new" /\ s.turn = 0 /\ s.turns = 0 /\ s.last.turn = 0
      /\ s.updates = 0 /\ s.asked = 0 /\ s.chains = {} /\ s.stage = "waiting"
      /\ s.closers = {} /\ ~ s.finishing
  BY <1>1 DEF Fresh, Closed, NoTurn
<1>4. World \in Worlds /\ lane = "none" /\ told = [c \in Commands |-> "new"]
  BY <1>2 DEF Init, World, Worlds, Lanes, Statuses
<1>5. Starting(s) = {} /\ Flushed(s) = {} /\ Queued(s) = {} /\ Steered(s) = {}
  <2>1. ToSet(<<>>) = {} /\ Steers(<<>>) = {}
    BY DEF ToSet, Steers
  <2> QED BY <1>3, <2>1 DEF Starting, Flushed, Queued, Steered
<1>6. PlacedBut(s, told, {})
  BY <1>3, <1>4, <1>5 DEF PlacedBut, Waiting, InFlight, Distinct, Single
<1>7. Phased(s) /\ Laned(s, lane) /\ Headed(s)
  BY <1>3, <1>4, <1>5 DEF Phased, Laned, Headed, Waiting, InFlight
<1>8. Counted(s)
  BY <1>3, BoundsAssumption DEF Counted
<1>9. Good(World)
  BY <1>4, <1>6, <1>7, <1>8, WorldIs DEF Good, GoodBut
<1>10. LineIn(World) = <<>>
  BY <1>2, <1>3, <1>5, <1>6, <1>7, LineIs, WorldIs DEF LineIn
<1> QED BY <1>3, <1>9, <1>10

\* The inductive invariant: every command that is not settled is at exactly one place,
\* the places agree with the state of the session, and the lane with both.
THEOREM Inductive == Spec => []Good(World)
<1>1. Init => Good(World)
  BY InitGood
<1>2. Good(World) /\ [Next]_vars => Good(World)'
  <2> SUFFICES ASSUME Good(World), [Next]_vars
               PROVE  Good(World')
    OBVIOUS
  <2>1. CASE Next
    BY <2>1, StepMoves
  <2>2. CASE UNCHANGED vars
    <3>1. World' = World
      BY <2>2 DEF vars, World
    <3> QED BY <3>1
  <2> QED BY <2>1, <2>2
<1> QED BY <1>1, <1>2, PTL DEF Spec

\* The fields of a session keep their types, the turn is one that was counted, and no
\* continuation waits for more updates than there are.
THEOREM TypeCorrect == Spec => []TypeOK
<1>1. Good(World) => TypeOK
  <2> SUFFICES ASSUME Good(World)
               PROVE  TypeOK
    OBVIOUS
  <2>1. session \in Sessions /\ lane \in Lanes /\ told \in [Commands -> Statuses] /\ Counted(session)
    BY GoodSession
  <2>2. /\ session.state \in States /\ session.turn \in Nat /\ session.turns \in Nat
        /\ session.members \in SUBSET Commands /\ session.queue \in Seq(Commands)
        /\ session.stage \in Stages /\ session.closers \in SUBSET Closers
    BY <2>1 DEF Sessions
  <2>3. session.turn \in 0..session.turns /\ session.chains \subseteq Flushing..MaxUpdates
    BY <2>1, <2>2 DEF Counted
  <2> QED BY <2>1, <2>2, <2>3 DEF TypeOK, States, Stages, Closers, Lanes, Statuses
<1> QED BY <1>1, Inductive, PTL

\* A session that has closed left no lane behind that was not told to stop.
THEOREM NoLaneRemains == Spec => []NoLaneLeft
<1>1. Good(World) => NoLaneLeft
  BY GoodSession DEF NoLaneLeft, Laned, Ended
<1> QED BY <1>1, Inductive, PTL
-----------------------------------------------------------------------------
(* The contract.                                                           *)

\* What moves a world is a step of the contract, or none.
LEMMA MovesKeepContract ==
  ASSUME Good(World), Good(World'), Moves(World, World')
  PROVE  [Contract!Next]_(Contract!contract)
<1> DEFINE w == World
           v == World'
           l == LineIn(w)
           m == LineIn(v)
<1>1. /\ w.told = told /\ v.told = told' /\ w.s = session /\ v.s = session'
  BY DEF World
<1>2. Line = l /\ Line' = m
  BY DEF Line, LineIn, LineOf, World
<1>3. /\ told \in [Commands -> Statuses] /\ told' \in [Commands -> Statuses]
      /\ ToSet(l) = {c \in Commands : told[c] = "queued"}
      /\ ToSet(m) = {c \in Commands : told'[c] = "queued"}
  <2>1. /\ w.s \in Sessions /\ w.told \in [Commands -> Statuses] /\ PlacedBut(w.s, w.told, {})
        /\ Phased(w.s)
    BY Parts DEF Good
  <2>2. /\ v.s \in Sessions /\ v.told \in [Commands -> Statuses] /\ PlacedBut(v.s, v.told, {})
        /\ Phased(v.s)
    BY Parts DEF Good
  <2> HIDE DEF w, v
  <2>3. ToSet(LineOf(w.s, w.told)) = {c \in Commands : w.told[c] = "queued"}
    BY <2>1, LineType
  <2>4. ToSet(LineOf(v.s, v.told)) = {c \in Commands : v.told[c] = "queued"}
    BY <2>2, LineType
  <2> QED BY <1>1, <2>1, <2>2, <2>3, <2>4 DEF LineIn
<1> HIDE DEF w, v, l, m
<1>4. \A q : Contract!ToSet(q) = ToSet(q)
  BY DEF Contract!ToSet, ToSet
<1>5. CASE Stays(w, v)
  <2>1. told' = told /\ m = l /\ (session'.state # "closed") = (session.state # "closed")
    BY <1>1, <1>5 DEF Stays, l, m
  <2> QED BY <1>2, <2>1 DEF Contract!contract
<1>6. ASSUME NEW F, Fails(w, v, F)
      PROVE  Contract!Next
  <2>1. /\ session.state # "closed" /\ session'.state # "closed" /\ F \subseteq Commands
        /\ (\A c \in F : told[c] \in {"pending", "queued"})
        /\ told' = Marks(told, F, "failed") /\ Kept(l, m)
    BY <1>1, <1>6 DEF Fails, Owed, l, m
  <2>2. told' = [c \in Commands |-> IF c \in {} THEN "accepted"
                                    ELSE IF c \in F THEN "failed" ELSE told[c]]
    BY <2>1 DEF Marks
  <2>3. ToSet(m) = ToSet(l) \ ({} \cup F)
    BY <1>3, <2>1 DEF Marks
  <2>4. {} \subseteq Contract!Unsettled /\ F \subseteq Contract!Unsettled \ {}
    BY <2>1 DEF Contract!Unsettled
  <2>5. Line' = Line \/ (Line # <<>> /\ Line' = Tail(Line)) \/ Line' = <<>>
    BY <1>2, <2>1 DEF Kept
  <2>6. /\ session.state # "closed" /\ (session'.state # "closed") = (session.state # "closed")
        /\ ToSet(Line') = ToSet(Line) \ ({} \cup F) /\ \A c : c \notin {}
    BY <1>2, <2>1, <2>3
  <2>7. Contract!Settle({}, "accepted", F)
    BY <1>4, <2>2, <2>4, <2>5, <2>6 DEF Contract!Settle
  <2> QED BY <2>1, <2>7 DEF Contract!Next
<1>7. ASSUME NEW c, NEW to, NEW F, Accepts(w, v, c, to, F)
      PROVE  Contract!Next
  <2>1. /\ session.state # "closed" /\ session'.state # "closed"
        /\ c \in Commands /\ F \subseteq Commands \ {c} /\ to \in {"accepted", "returned"}
        /\ (\A d \in {c} \cup F : told[d] \in {"pending", "queued"})
        /\ (told[c] = "queued" => c = Head(l))
        /\ told' = Marks(Marks(told, {c}, to), F, "failed") /\ Kept(l, m)
    BY <1>1, <1>7 DEF Accepts, Owed, l, m
  <2>2. told' = [d \in Commands |-> IF d \in {c} THEN to
                                    ELSE IF d \in F THEN "failed" ELSE told[d]]
    BY <2>1 DEF Marks
  <2>3. ToSet(m) = ToSet(l) \ ({c} \cup F)
    BY <1>3, <2>1, <2>2
  <2>4. {c} \subseteq Contract!Unsettled /\ F \subseteq Contract!Unsettled \ {c}
    BY <2>1 DEF Contract!Unsettled
  <2>5. Line' = Line \/ (Line # <<>> /\ Line' = Tail(Line)) \/ Line' = <<>>
    BY <1>2, <2>1 DEF Kept
  <2>6. /\ session.state # "closed" /\ (session'.state # "closed") = (session.state # "closed")
        /\ ToSet(Line') = ToSet(Line) \ ({c} \cup F)
        /\ \A d \in {c} : {c} = {d} /\ (told[d] = "queued" => d = Head(Line))
    BY <1>2, <2>1, <2>3
  <2>7. Contract!Settle({c}, to, F)
    BY <1>4, <2>2, <2>4, <2>5, <2>6 DEF Contract!Settle
  <2> QED BY <2>1, <2>7 DEF Contract!Next
<1>8. ASSUME NEW c \in Commands, Admits(w, v, c)
      PROVE  Contract!Next
  <2>1. \A x : Marks(told, {c}, x) = [told EXCEPT ![c] = x]
    BY <1>3 DEF Marks
  <2>2. Contract!Admit(c)
    BY <1>1, <1>2, <1>8, <2>1 DEF Admits, Contract!Admit, l, m
  <2> QED BY <2>2 DEF Contract!Next
<1>9. ASSUME NEW c \in Commands, Requeues(w, v, c)
      PROVE  Contract!Next
  <2>1. \A x : Marks(told, {c}, x) = [told EXCEPT ![c] = x]
    BY <1>3 DEF Marks
  <2>2. Contract!Enqueue(c)
    BY <1>1, <1>2, <1>9, <2>1 DEF Requeues, Contract!Enqueue, l, m
  <2> QED BY <2>2 DEF Contract!Next
<1>10. ASSUME NEW c \in Commands, Returns(w, v, c)
      PROVE  Contract!Next
  <2>1. \A x : Marks(told, {c}, x) = [told EXCEPT ![c] = x]
    BY <1>3 DEF Marks
  <2>2. Contract!Return(c)
    BY <1>1, <1>2, <1>10, <2>1 DEF Returns, Contract!Return, l, m
  <2> QED BY <2>2 DEF Contract!Next
<1>11. CASE Closes(w, v)
  <2>1. \A c \in Commands : told[c] \notin {"pending", "queued"}
    <3>1. PlacedBut(w.s, w.told, {}) /\ Waiting(w.s) = {}
      BY <1>11, Parts DEF Closes, Good, w
    <3> QED BY <1>1, <3>1 DEF PlacedBut
  <2>2. Contract!Close
    BY <1>1, <1>2, <1>11, <2>1 DEF Closes, Contract!Close, Contract!Unsettled, l, m
  <2> QED BY <2>2 DEF Contract!Next
<1>12. Moves(w, v)
  BY DEF w, v
<1> QED BY <1>5, <1>6, <1>7, <1>8, <1>9, <1>10, <1>11, <1>12 DEF Moves

\* Every command is settled once and in order before the session closes, whatever the
\* backend answers, and when: the session implements its contract.
THEOREM ContractIsKept == Spec => ImplementsContract
<1>1. Init => Contract!Init
  <2> SUFFICES ASSUME Init
               PROVE  Contract!Init
    OBVIOUS
  <2>1. LineIn(World) = <<>> /\ session.state # "closed"
    BY InitGood
  <2>2. Line = LineIn(World)
    BY DEF Line, LineIn, LineOf, World
  <2> QED BY <2>1, <2>2 DEF Init, Contract!Init
<1>2. Good(World) /\ [Next]_vars => [Contract!Next]_(Contract!contract)
  <2> SUFFICES ASSUME Good(World), [Next]_vars
               PROVE  [Contract!Next]_(Contract!contract)
    OBVIOUS
  <2>1. CASE Next
    BY <2>1, StepMoves, MovesKeepContract
  <2>2. CASE UNCHANGED vars
    BY <2>2 DEF vars, Contract!contract, Line
  <2> QED BY <2>1, <2>2
<1>3. Spec => Contract!Spec
  BY <1>1, <1>2, Inductive, PTL DEF Spec, Contract!Spec
<1> QED BY <1>3 DEF ImplementsContract
-----------------------------------------------------------------------------
(* A prompt is alone at the lane, until a settings update is asked for.    *)

Prompts(q) == {i \in DOMAIN q : q[i].kind = "prompt"}

\* A prompt is at the lane, or waits for it, only while the turn is being admitted or
\* after the session was told to stop, and then no delivery of the queue is at the
\* lane.  A start that failed leaves the session without a lane.  The continuation that
\* starts the next turn is ready only with no delivery at the lane, or in a turn that
\* was reopened, where it does nothing.
Alone(s) ==
    /\ Prompts(s.fifo) # {} => s.flush = Nobody /\ s.state \in {"starting", "stopping", "closed"}
    /\ s.state \in {"new", "starting"} => s.flush = Nobody
    /\ s.state = "starting" =>
          /\ \A i, j \in Prompts(s.fifo) : i = j
          /\ s.turn = NoTurn => ~s.attached /\ s.stage = "over"
    /\ 0 \in s.chains /\ s.flush # Nobody => s.state \in {"working", "stopping", "closed"}

\* The start that failed is over.
Going(s) == s.state = "starting" => s.turn # NoTurn

\* A world that has asked for so many updates.
Lone(w, n) == w \in Worlds /\ w.s.asked = n /\ (n = 0 => Alone(w.s))

\* Nothing that Alone looks at changes.
Resembles(a, b) ==
    /\ a.state = b.state /\ a.turn = b.turn /\ a.attached = b.attached /\ a.flush = b.flush
    /\ a.chains = b.chains /\ a.stage = b.stage /\ a.asked = b.asked
    /\ Prompts(a.fifo) = Prompts(b.fifo)
    /\ a.fifo = <<>> <=> b.fifo = <<>>
    /\ a.fifo # <<>> => Head(a.fifo).kind = Head(b.fifo).kind

LEMMA ResemblesLone ==
  ASSUME NEW w, NEW n, Lone(w, n), NEW v \in Worlds, Resembles(v.s, w.s)
  PROVE  Lone(v, n)
BY DEF Lone, Resembles, Alone

LEMMA AlikeResembles ==
  ASSUME NEW a, NEW b, Alike(a, b)
  PROVE  Resembles(a, b)
BY DEF Alike, SameControl, SameCounts, SameFlush, SameFifo, Resembles

\* The prompts of the queue.
LEMMA PromptsTail ==
  ASSUME NEW q \in Seq(Entries), q # <<>>
  PROVE  /\ Prompts(q) = {} => Prompts(Tail(q)) = {}
         /\ (\A i, j \in Prompts(q) : i = j) => \A i, j \in Prompts(Tail(q)) : i = j
         /\ (\A i, j \in Prompts(q) : i = j) /\ Head(q).kind = "prompt" => Prompts(Tail(q)) = {}
<1>1. /\ Tail(q) \in Seq(Entries) /\ Head(q) = q[1] /\ Len(Tail(q)) = Len(q) - 1
      /\ \A i \in 1..Len(Tail(q)) : Tail(q)[i] = q[i + 1]
  BY HeadTailProperties
<1>2. /\ DOMAIN q = 1..Len(q) /\ Len(q) \in Nat /\ Len(q) # 0
      /\ DOMAIN Tail(q) = 1..(Len(q) - 1)
  BY <1>1, LenProperties, EmptySeq
<1>3. \A i \in Prompts(Tail(q)) : i \in Nat /\ i # 0 /\ i + 1 \in Prompts(q)
  BY <1>1, <1>2 DEF Prompts
<1>4. Head(q).kind = "prompt" => 1 \in Prompts(q)
  BY <1>1, <1>2 DEF Prompts
<1>5. ASSUME \A i, j \in Prompts(q) : i = j PROVE \A i, j \in Prompts(Tail(q)) : i = j
  <2> TAKE i, j \in Prompts(Tail(q))
  <2>1. i + 1 = j + 1 /\ i \in Nat /\ j \in Nat
    BY <1>3, <1>5
  <2> QED BY <2>1
<1>6. ASSUME \A i, j \in Prompts(q) : i = j, Head(q).kind = "prompt" PROVE Prompts(Tail(q)) = {}
  <2> SUFFICES ASSUME NEW i \in Prompts(Tail(q)) PROVE FALSE
    OBVIOUS
  <2>1. i + 1 = 1 /\ i \in Nat /\ i # 0
    BY <1>3, <1>4, <1>6
  <2> QED BY <2>1
<1>7. Prompts(q) = {} => Prompts(Tail(q)) = {}
  BY <1>3
<1> QED BY <1>5, <1>6, <1>7

LEMMA PromptsAppend ==
  ASSUME NEW q \in Seq(Entries), NEW op \in Entries
  PROVE  /\ op.kind # "prompt" => Prompts(Append(q, op)) = Prompts(q)
         /\ Prompts(q) = {} => \A i, j \in Prompts(Append(q, op)) : i = j
<1>1. /\ Len(Append(q, op)) = Len(q) + 1 /\ Append(q, op) \in Seq(Entries)
      /\ \A i \in 1..Len(q) : Append(q, op)[i] = q[i]
      /\ Append(q, op)[Len(q) + 1] = op
  BY AppendProperties
<1>2. DOMAIN q = 1..Len(q) /\ Len(q) \in Nat /\ DOMAIN Append(q, op) = 1..(Len(q) + 1)
  BY <1>1, LenProperties
<1> DEFINE p == Append(q, op)
<1> HIDE DEF p
<1>3. \A i \in 1..(Len(q) + 1) : i \in 1..Len(q) \/ i = Len(q) + 1
  BY <1>2
<1>4. op.kind # "prompt" => Prompts(p) = Prompts(q)
  BY <1>1, <1>2, <1>3 DEF Prompts, p
<1>5. Prompts(q) = {} => \A i \in Prompts(p) : i = Len(q) + 1
  BY <1>1, <1>2, <1>3 DEF Prompts, p
<1> QED BY <1>4, <1>5 DEF p

\* The fields of a session that the operators change.
LEMMA SessionType ==
  ASSUME NEW w \in Worlds
  PROVE  /\ w.s \in Sessions /\ w.s.fifo \in Seq(Entries) /\ w.s.queue \in Seq(Commands)
         /\ w.s.flush \in Offers \cup {Nobody} /\ w.s.turn \in Nat /\ w.s.turns \in Nat
         /\ w.s.stage \in Stages /\ w.s.state \in States
BY WorldType DEF Sessions

LEMMA FailTurnResembles ==
  ASSUME NEW w \in Worlds
  PROVE  FailTurnAdmission(w) \in Worlds /\ Resembles(FailTurnAdmission(w).s, w.s)
<1>1. w.s \in Sessions
  BY SessionType
<1>2. CASE w.s.admission = Nobody
  BY <1>2 DEF FailTurnAdmission, Resembles
<1>3. CASE w.s.admission # Nobody
  <2> DEFINE s == [w.s EXCEPT !.admission = Nobody, !.early = FALSE]
             u == [w EXCEPT !.s = s]
  <2>1. FailTurnAdmission(w) = Tell(u, {w.s.admission.cmd}, "failed")
    BY <1>3 DEF FailTurnAdmission, Worlds
  <2>2. s \in Sessions /\ Resembles(s, w.s)
    BY <1>1 DEF Sessions, Resembles
  <2> HIDE DEF s
  <2>3. u \in Worlds /\ u.s = s
    BY <2>2, Put
  <2> HIDE DEF u
  <2>4. "failed" \in Statuses
    BY DEF Statuses
  <2> QED BY <2>1, <2>2, <2>3, <2>4, TellIs
<1> QED BY <1>2, <1>3

LEMMA FailBoundaryResembles ==
  ASSUME NEW w \in Worlds
  PROVE  /\ FailSafeBoundaryDelivery(w) \in Worlds
         /\ Resembles(FailSafeBoundaryDelivery(w).s, w.s)
<1>1. w.s \in Sessions
  BY SessionType
<1>2. CASE w.s.flush = Nobody \/ w.s.final
  BY <1>2 DEF FailSafeBoundaryDelivery, Resembles
<1>3. CASE ~ (w.s.flush = Nobody \/ w.s.final)
  <2> DEFINE s == [w.s EXCEPT !.final = TRUE]
             u == [w EXCEPT !.s = s]
  <2>1. FailSafeBoundaryDelivery(w) = Tell(u, {w.s.flush.cmd}, "failed")
    BY <1>3 DEF FailSafeBoundaryDelivery, Worlds
  <2>2. s \in Sessions /\ Resembles(s, w.s)
    BY <1>1 DEF Sessions, Resembles
  <2> HIDE DEF s
  <2>3. u \in Worlds /\ u.s = s
    BY <2>2, Put
  <2> HIDE DEF u
  <2>4. "failed" \in Statuses
    BY DEF Statuses
  <2> QED BY <2>1, <2>2, <2>3, <2>4, TellIs
<1> QED BY <1>2, <1>3

LEMMA FailSteersResembles ==
  ASSUME NEW w \in Worlds
  PROVE  /\ FailSteeringDeliveries(w) \in Worlds
         /\ Resembles(FailSteeringDeliveries(w).s, w.s)
<1> DEFINE q == w.s.fifo
           p == [i \in DOMAIN q |-> IF Unanswered(q[i]) THEN [q[i] EXCEPT !.final = TRUE] ELSE q[i]]
           s == [w.s EXCEPT !.fifo = p]
           u == [w EXCEPT !.s = s]
<1>1. w.s \in Sessions /\ q \in Seq(Entries)
  BY SessionType
<1>2. FailSteeringDeliveries(w) = Tell([w EXCEPT !.s.fifo = p], Steered(w.s), "failed")
  BY Zenon DEF FailSteeringDeliveries, Unanswered, Steered, Steers
<1>3. /\ p \in Seq(Entries)
      /\ p = <<>> <=> q = <<>>
      /\ q # <<>> => Head(p).kind = Head(q).kind
  <2> HIDE DEF q
  <2> QED BY <1>1, MarkedFifo
<1>4. Prompts(p) = Prompts(q)
  <2>1. DOMAIN p = DOMAIN q /\ \A i \in DOMAIN q : q[i] \in Entries
    BY <1>1, LenProperties
  <2>2. \A i \in DOMAIN q : p[i].kind = q[i].kind
    BY <2>1 DEF Entries
  <2> QED BY <2>1, <2>2 DEF Prompts
<1> HIDE DEF p
<1>5. [w EXCEPT !.s.fifo = p] = u
  BY DEF Worlds
<1>6. s \in Sessions /\ Resembles(s, w.s)
  BY <1>1, <1>3, <1>4 DEF Sessions, Resembles
<1> HIDE DEF s
<1>7. u \in Worlds /\ u.s = s
  BY <1>6, Put
<1> HIDE DEF u
<1>8. "failed" \in Statuses
  BY DEF Statuses
<1> QED BY <1>2, <1>5, <1>6, <1>7, <1>8, TellIs

LEMMA FailQueuedResembles ==
  ASSUME NEW w \in Worlds
  PROVE  FailQueued(w) \in Worlds /\ Resembles(FailQueued(w).s, w.s)
<1> DEFINE s == [w.s EXCEPT !.queue = <<>>]
           u == [w EXCEPT !.s = s]
<1>1. w.s \in Sessions
  BY SessionType
<1>2. FailQueued(w) = Tell(u, ToSet(w.s.queue), "failed")
  BY DEF FailQueued, Worlds
<1>3. s \in Sessions /\ Resembles(s, w.s)
  <2> DEFINE e == <<>>
  <2>1. e \in Seq(Commands)
    OBVIOUS
  <2> HIDE DEF e
  <2>2. [w.s EXCEPT !.queue = e] \in Sessions /\ Resembles([w.s EXCEPT !.queue = e], w.s)
    BY <1>1, <2>1 DEF Sessions, Resembles
  <2> QED BY <2>2 DEF e
<1> HIDE DEF s
<1>4. u \in Worlds /\ u.s = s
  BY <1>3, Put
<1> HIDE DEF u
<1>5. "failed" \in Statuses
  BY DEF Statuses
<1> QED BY <1>2, <1>3, <1>4, <1>5, TellIs

LEMMA ResemblesAgain ==
  ASSUME NEW a, NEW b, NEW c, Resembles(a, b), Resembles(b, c)
  PROVE  Resembles(a, c)
BY DEF Resembles

LEMMA FailInFlightResembles ==
  ASSUME NEW w \in Worlds
  PROVE  FailInFlight(w) \in Worlds /\ Resembles(FailInFlight(w).s, w.s)
<1> DEFINE u == FailTurnAdmission(w)
           v == FailSafeBoundaryDelivery(u)
<1>1. u \in Worlds /\ Resembles(u.s, w.s)
  BY FailTurnResembles
<1>2. FailInFlight(w) = FailSteeringDeliveries(v)
  BY DEF FailInFlight
<1> HIDE DEF u
<1>3. v \in Worlds /\ Resembles(v.s, u.s)
  BY <1>1, FailBoundaryResembles
<1> HIDE DEF v
<1>4. FailInFlight(w) \in Worlds /\ Resembles(FailInFlight(w).s, v.s)
  BY <1>2, <1>3, FailSteersResembles
<1> QED BY <1>1, <1>3, <1>4, ResemblesAgain

LEMMA AcceptedResembles ==
  ASSUME NEW w \in Worlds, NEW c
  PROVE  Accepted(w, c) \in Worlds /\ Resembles(Accepted(w, c).s, w.s)
<1> DEFINE u == Tell(w, {c}, "accepted")
           s == [w.s EXCEPT !.members = @ \ {c}, !.returns = @ \ {c}]
           z == [u EXCEPT !.s = s]
<1>1. w.s \in Sessions /\ {"accepted", "returned"} \subseteq Statuses
  BY SessionType DEF Statuses
<1>2. u \in Worlds /\ u.s = w.s
  BY <1>1, TellIs
<1> HIDE DEF u
<1>3. s \in Sessions /\ Resembles(s, w.s)
  BY <1>1 DEF Sessions, Resembles
<1>4. GiveBack(u, c) = Tell(z, {c}, "returned")
  BY <1>2 DEF GiveBack, Worlds
<1> HIDE DEF s
<1>5. z \in Worlds /\ z.s = s
  BY <1>2, <1>3, Put
<1> HIDE DEF z
<1>6. GiveBack(u, c) \in Worlds /\ Resembles(GiveBack(u, c).s, w.s)
  BY <1>1, <1>3, <1>4, <1>5, TellIs
<1>7. Resembles(u.s, w.s)
  BY <1>2 DEF Resembles
<1> QED BY <1>2, <1>6, <1>7 DEF Accepted, u
\* The parts of a world that Alone does not look at.
LEMMA PutLone ==
  ASSUME NEW w, NEW n, Lone(w, n), NEW x \in Sessions, Resembles(x, w.s)
  PROVE  Lone([w EXCEPT !.s = x], n) /\ [w EXCEPT !.s = x].s = x
<1> DEFINE v == [w EXCEPT !.s = x]
<1>1. w \in Worlds
  BY DEF Lone
<1>2. v \in Worlds /\ v.s = x
  BY <1>1, Put
<1> HIDE DEF v
<1>3. Lone(v, n)
  BY <1>2, ResemblesLone
<1> QED BY <1>2, <1>3 DEF v

LEMMA LaneLone ==
  ASSUME NEW w, NEW n, Lone(w, n), NEW l \in Lanes
  PROVE  Lone([w EXCEPT !.lane = l], n) /\ [w EXCEPT !.lane = l].s = w.s
<1> DEFINE v == [w EXCEPT !.lane = l]
<1>1. w \in Worlds
  BY DEF Lone
<1>2. v \in Worlds /\ v.s = w.s
  BY <1>1, PutLane
<1> HIDE DEF v
<1>3. Lone(v, n)
  BY <1>2 DEF Lone
<1> QED BY <1>2, <1>3 DEF v

LEMMA TellLone ==
  ASSUME NEW w, NEW n, Lone(w, n), NEW C, NEW what \in Statuses
  PROVE  Lone(Tell(w, C, what), n) /\ Tell(w, C, what).s = w.s
<1> DEFINE v == Tell(w, C, what)
<1>1. w \in Worlds
  BY DEF Lone
<1>2. v \in Worlds /\ v.s = w.s
  BY <1>1, TellIs
<1> HIDE DEF v
<1>3. Lone(v, n)
  BY <1>2 DEF Lone
<1> QED BY <1>2, <1>3 DEF v

LEMMA StopLaneLone ==
  ASSUME NEW w, NEW n, Lone(w, n)
  PROVE  Lone(StopLane(w), n) /\ StopLane(w).s = w.s
<1> DEFINE v == StopLane(w)
<1>1. v \in Worlds /\ v.s = w.s
  BY StopLaneIs DEF Lone
<1> HIDE DEF v
<1>2. Lone(v, n)
  BY <1>1 DEF Lone
<1> QED BY <1>1, <1>2 DEF v

\* A session that ends may lose what waits for the lane, and nothing else.
LEMMA EndedLone ==
  ASSUME NEW w, NEW n, Lone(w, n), NEW v \in Worlds, v.s.state \in {"stopping", "closed"},
         v.s.asked = w.s.asked, v.s.flush = w.s.flush,
         Prompts(v.s.fifo) # {} => Prompts(w.s.fifo) # {}
  PROVE  Lone(v, n)
BY DEF Lone, Alone

LEMMA StoppingLone ==
  ASSUME NEW w, NEW n, Lone(w, n)
  PROVE  LET v == EnterStopping(w) IN
         Lone(v, n) /\ v.s.state = "stopping" /\ v.s.attached = w.s.attached
<1> DEFINE v == EnterStopping(w)
<1>1. /\ v \in Worlds /\ v.s.state = "stopping" /\ v.s.asked = w.s.asked
      /\ v.s.flush = w.s.flush /\ v.s.fifo = w.s.fifo /\ v.s.attached = w.s.attached
  BY EnterStoppingIs DEF Lone, SameFlush, SameFifo
<1> HIDE DEF v
<1>2. Lone(v, n)
  BY <1>1, EndedLone
<1> QED BY <1>1, <1>2 DEF v

\* Stop and finish settle everything that waits.
LEMMA StoppedLone ==
  ASSUME NEW w, NEW n, Lone(w, n)
  PROVE  LET f == FailQueued(FailInFlight(EnterStopping(w))) IN
         Lone(f, n) /\ f.s.state = "stopping" /\ f.s.attached = w.s.attached
<1> DEFINE e == EnterStopping(w)
           i == FailInFlight(e)
           f == FailQueued(i)
<1>1. Lone(e, n) /\ e.s.state = "stopping" /\ e.s.attached = w.s.attached
  BY StoppingLone
<1> HIDE DEF e
<1>2. i \in Worlds /\ Resembles(i.s, e.s)
  BY <1>1, FailInFlightResembles DEF Lone
<1> HIDE DEF i
<1>3. f \in Worlds /\ Resembles(f.s, i.s)
  BY <1>2, FailQueuedResembles
<1> HIDE DEF f
<1>4. Resembles(f.s, e.s)
  BY <1>2, <1>3, ResemblesAgain
<1>5. Lone(f, n)
  BY <1>1, <1>3, <1>4, ResemblesLone
<1>6. f.s.state = "stopping" /\ f.s.attached = w.s.attached
  BY <1>1, <1>4 DEF Resembles
<1> QED BY <1>5, <1>6 DEF f, i, e

LEMMA FinishLone ==
  ASSUME NEW w, NEW n, Lone(w, n)
  PROVE  Lone(Finish(w), n)
<1>1. CASE w.s.finishing \/ w.s.state = "closed"
  BY <1>1 DEF Finish
<1>2. CASE ~ (w.s.finishing \/ w.s.state = "closed")
  <2> DEFINE f == FailQueued(FailInFlight(EnterStopping(w)))
             s == [f.s EXCEPT !.finishing = TRUE, !.turn = NoTurn, !.members = {}]
             v == [f EXCEPT !.s = s]
  <2>1. Lone(f, n) /\ f.s.state = "stopping"
    BY StoppedLone
  <2>2. Finish(w) = [f EXCEPT !.s.finishing = TRUE, !.s.turn = NoTurn, !.s.members = {}]
    BY <1>2 DEF Finish
  <2> HIDE DEF f
  <2>3. f \in Worlds /\ f.s \in Sessions
    BY <2>1, WorldType DEF Lone
  <2>4. Finish(w) = v
    BY <2>2, <2>3 DEF Worlds
  <2>5. s \in Sessions /\ s.state = f.s.state /\ s.asked = f.s.asked /\ s.flush = f.s.flush
        /\ s.fifo = f.s.fifo
    BY <2>3 DEF Sessions, NoTurn
  <2> HIDE DEF s
  <2>6. v \in Worlds /\ v.s = s
    BY <2>3, <2>5, Put
  <2> HIDE DEF v
  <2>7. Lone(v, n)
    BY <2>1, <2>5, <2>6, EndedLone
  <2> QED BY <2>4, <2>7
<1> QED BY <1>1, <1>2

\* The first of the admission queue leaves it.
LEMMA DoneLone ==
  ASSUME NEW w, NEW n, Lone(w, n), w.s.fifo # <<>>, n = 0 => Going(w.s)
  PROVE  Lone(Done(w), n)
<1> DEFINE v == Done(w)
<1>1. /\ v \in Worlds /\ SameControl(v.s, w.s) /\ SameCounts(v.s, w.s) /\ SameFlush(v.s, w.s)
      /\ v.s.fifo = Tail(w.s.fifo) /\ v.s.stage = "waiting"
  BY DoneFields DEF Lone
<1> HIDE DEF v
<1>2. w.s.fifo \in Seq(Entries)
  BY SessionType DEF Lone
<1>3. /\ Prompts(w.s.fifo) = {} => Prompts(v.s.fifo) = {}
      /\ (\A i, j \in Prompts(w.s.fifo) : i = j) => \A i, j \in Prompts(v.s.fifo) : i = j
  BY <1>1, <1>2, PromptsTail
<1>4. /\ v.s.state = w.s.state /\ v.s.turn = w.s.turn /\ v.s.flush = w.s.flush
      /\ v.s.chains = w.s.chains /\ v.s.asked = w.s.asked
  BY <1>1 DEF SameControl, SameCounts, SameFlush
<1>5. n = 0 => Alone(v.s)
  BY <1>3, <1>4 DEF Lone, Alone, Going
<1> QED BY <1>1, <1>4, <1>5 DEF Lone, v

LEMMA FailedStartLone ==
  ASSUME NEW w, NEW n, Lone(w, n), w.s.fifo # <<>>, n = 0 => Going(w.s)
  PROVE  Lone(FailedStart(w), n)
<1> DEFINE op == Head(w.s.fifo)
           f0 == FailTurnAdmission(w)
           s == [f0.s EXCEPT !.turn = NoTurn, !.members = {}, !.stage = "over"]
           f == [f0 EXCEPT !.s = s]
<1>1. CASE w.s.state # "starting" \/ w.s.turn # op.turn \/ w.s.admission.turn # op.turn
  <2>1. FailedStart(w) = Done(w)
    BY <1>1 DEF FailedStart
  <2> QED BY <2>1, DoneLone
<1>2. CASE w.s.state = "starting" /\ w.s.turn = op.turn /\ w.s.admission.turn = op.turn
  <2>1. f0 \in Worlds /\ Resembles(f0.s, w.s)
    BY FailTurnResembles DEF Lone
  <2>2. FailedStart(w) = LET g == [f0 EXCEPT !.s.turn = NoTurn, !.s.members = {}, !.s.stage = "over"]
                         IN  IF w.s.attached
                             THEN StopLane([g EXCEPT !.s.attached = FALSE,
                                                     !.s.closers = @ \cup {"start"}])
                             ELSE Finish(g)
    BY <1>2 DEF FailedStart
  <2> HIDE DEF f0
  <2>3. f0.s \in Sessions
    BY <2>1, WorldType
  <2>4. [f0 EXCEPT !.s.turn = NoTurn, !.s.members = {}, !.s.stage = "over"] = f
    BY <2>1 DEF Worlds
  <2>5. /\ s \in Sessions /\ s.turn = NoTurn /\ s.stage = "over" /\ s.state = f0.s.state
        /\ s.attached = f0.s.attached /\ s.fifo = f0.s.fifo /\ s.flush = f0.s.flush
        /\ s.chains = f0.s.chains /\ s.asked = f0.s.asked
    BY <2>3 DEF Sessions, NoTurn, Stages
  <2> HIDE DEF s
  <2>6. f \in Worlds /\ f.s = s
    BY <2>1, <2>5, Put
  <2>7. FailedStart(w) = IF w.s.attached
                         THEN StopLane([f EXCEPT !.s.attached = FALSE, !.s.closers = @ \cup {"start"}])
                         ELSE Finish(f)
    <3> HIDE DEF f
    <3> QED BY <2>2, <2>4
  <2> HIDE DEF f
  <2>8. CASE w.s.attached
    <3> DEFINE x == [s EXCEPT !.attached = FALSE, !.closers = @ \cup {"start"}]
               u == [f EXCEPT !.s = x]
    <3>1. [f EXCEPT !.s.attached = FALSE, !.s.closers = @ \cup {"start"}] = u
      BY <2>6 DEF Worlds
    <3>2. /\ x \in Sessions /\ x.turn = NoTurn /\ x.stage = "over" /\ x.state = s.state
          /\ ~ x.attached /\ x.fifo = s.fifo /\ x.flush = s.flush
          /\ x.chains = s.chains /\ x.asked = s.asked
      BY <2>5 DEF Sessions, Closers
    <3> HIDE DEF x
    <3>3. u \in Worlds /\ u.s = x
      BY <2>6, <3>2, Put
    <3> HIDE DEF u
    <3>4. Lone(u, n)
      BY <2>1, <2>5, <3>2, <3>3 DEF Lone, Alone, Resembles
    <3>5. FailedStart(w) = StopLane(u)
      BY <2>7, <2>8, <3>1
    <3> QED BY <3>4, <3>5, StopLaneLone
  <2>9. CASE ~ w.s.attached
    <3>1. Lone(f, n)
      BY <2>1, <2>5, <2>6, <2>9 DEF Lone, Alone, Resembles
    <3> QED BY <2>7, <2>9, <3>1, FinishLone
  <2> QED BY <2>8, <2>9
<1> QED BY <1>1, <1>2

LEMMA StageLone ==
  ASSUME NEW w, NEW n, Lone(w, n), NEW x \in Stages, n = 0 => Going(w.s)
  PROVE  Lone([w EXCEPT !.s.stage = x], n)
<1> DEFINE v == [w EXCEPT !.s.stage = x]
<1>1. /\ v \in Worlds /\ SameControl(v.s, w.s) /\ SameCounts(v.s, w.s) /\ SameFlush(v.s, w.s)
      /\ v.s.fifo = w.s.fifo
  BY StageFields DEF Lone
<1> HIDE DEF v
<1> QED BY <1>1 DEF Lone, Alone, Going, SameControl, SameCounts, SameFlush, v

\* The first of the admission queue goes to the lane, or leaves the queue.
LEMMA BeginLone ==
  ASSUME NEW w, NEW n, Lone(w, n), w.s.fifo # <<>>, n = 0 => Going(w.s)
  PROVE  Lone(Begin(w), n)
<1> DEFINE op == Head(w.s.fifo)
           u == [w EXCEPT !.s.stage = "sending"]
           o == [w EXCEPT !.s.stage = "opening"]
           t == Tell(w, {op.cmd}, "failed")
<1>1. w \in Worlds /\ "sending" \in Stages /\ "opening" \in Stages /\ "opening" \in Lanes
      /\ "failed" \in Statuses
  BY DEF Lone, Stages, Lanes, Statuses
<1>2. Lone(u, n)
  BY <1>1, StageLone
<1>3. Lone([w EXCEPT !.s.stage = "opening", !.lane = "opening"], n)
  <2>1. Lone(o, n)
    BY <1>1, StageLone
  <2>2. [w EXCEPT !.s.stage = "opening", !.lane = "opening"] = [o EXCEPT !.lane = "opening"]
    BY <1>1 DEF Worlds
  <2> HIDE DEF o
  <2> QED BY <1>1, <2>1, <2>2, LaneLone
<1>4. Lone(FailedStart(w), n) /\ Lone(Done(w), n)
  BY FailedStartLone, DoneLone
<1>5. Lone(Done(t), n)
  <2>1. Lone(t, n) /\ t.s = w.s
    BY <1>1, TellLone
  <2> HIDE DEF t
  <2> QED BY <2>1, DoneLone
<1>6. \/ Begin(w) = [w EXCEPT !.s.stage = "opening", !.lane = "opening"]
      \/ Begin(w) = u \/ Begin(w) = FailedStart(w) \/ Begin(w) = Done(w) \/ Begin(w) = Done(t)
  BY DEF Begin
<1> QED BY <1>2, <1>3, <1>4, <1>5, <1>6

LEMMA EnqueueLone ==
  ASSUME NEW w \in Worlds, NEW n, NEW op \in Entries, Lone(FifoTo(w, Append(w.s.fifo, op)), n),
         n = 0 /\ w.s.fifo = <<>> => Going(w.s)
  PROVE  Lone(EnqueueLaneAdmission(w, op), n)
<1> DEFINE p == Append(w.s.fifo, op)
           q == FifoTo(w, p)
<1>1. w.s.fifo \in Seq(Entries)
  BY SessionType
<1>2. p \in Seq(Entries) /\ p # <<>>
  BY <1>1, AppendHead
<1>3. EnqueueLaneAdmission(w, op) = IF w.s.fifo = <<>> THEN Begin(q) ELSE q
  BY DEF EnqueueLaneAdmission, FifoTo, Worlds
<1>4. Lone(q, n)
  OBVIOUS
<1> HIDE DEF p
<1>5. SameControl(q.s, w.s) /\ q.s.fifo = p
  BY <1>2, FifoFields
<1> HIDE DEF q
<1>6. w.s.fifo = <<>> => q.s.fifo # <<>> /\ (n = 0 => Going(q.s))
  BY <1>2, <1>5 DEF SameControl, Going
<1>7. w.s.fifo = <<>> => Lone(Begin(q), n)
  BY <1>4, <1>6, BeginLone
<1> QED BY <1>3, <1>4, <1>7

\* A turn starts with no prompt and no delivery of the queue at the lane.
LEMMA StartTurnLone ==
  ASSUME NEW w, NEW n, Lone(w, n), NEW c \in Commands,
         n = 0 => w.s.flush = Nobody /\ Prompts(w.s.fifo) = {}
  PROVE  Lone(StartTurn(w, c), n)
<1> DEFINE t == w.s.turns + 1
           op == [kind |-> "prompt", cmd |-> c, turn |-> t, opens |-> ~ w.s.attached, final |-> FALSE]
           u == TurnOf(w, c, t)
           p == Append(u.s.fifo, op)
           q == FifoTo(u, p)
<1>1. w \in Worlds /\ w.s.fifo \in Seq(Entries) /\ w.s.turns \in Nat /\ w.s.attached \in BOOLEAN
  BY SessionType DEF Lone, Sessions
<1>2. t \in Nat \ {NoTurn}
  BY <1>1 DEF NoTurn
<1>3. StartTurn(w, c) = EnqueueLaneAdmission(u, op)
  BY <1>1 DEF StartTurn, TurnOf, Worlds
<1> HIDE DEF t
<1>4. op \in Entries
  BY <1>1, <1>2 DEF Entries
<1> HIDE DEF op
<1>5. /\ u \in Worlds /\ u.s.turn = t /\ u.s.state = "starting"
      /\ u.s.asked = w.s.asked /\ u.s.chains = w.s.chains
      /\ SameFlush(u.s, w.s) /\ SameFifo(u.s, w.s)
  BY <1>1, <1>2, TurnFields
<1> HIDE DEF u
<1>6. u.s.fifo = w.s.fifo /\ (n = 0 => u.s.flush = Nobody)
  BY <1>5 DEF SameFifo, SameFlush
<1>7. p \in Seq(Entries) /\ (n = 0 => \A i, j \in Prompts(p) : i = j)
  <2>1. p = Append(w.s.fifo, op)
    BY <1>6
  <2> HIDE DEF p
  <2> QED BY <1>1, <1>4, <2>1, AppendHead, PromptsAppend
<1> HIDE DEF p
<1>8. /\ q \in Worlds /\ SameControl(q.s, u.s) /\ SameCounts(q.s, u.s) /\ SameFlush(q.s, u.s)
      /\ q.s.fifo = p
  BY <1>5, <1>7, FifoFields
<1> HIDE DEF q
<1>9. q.s.state = "starting" /\ q.s.turn # NoTurn /\ q.s.asked = w.s.asked
      /\ (n = 0 => q.s.flush = Nobody)
  BY <1>2, <1>5, <1>6, <1>8 DEF SameControl, SameCounts, SameFlush
<1>10. Lone(q, n)
  BY <1>7, <1>8, <1>9 DEF Lone, Alone
<1>11. Going(u.s)
  BY <1>2, <1>5 DEF Going
<1> QED
  <2>1. Lone(FifoTo(u, Append(u.s.fifo, op)), n)
    BY <1>10 DEF q, p
  <2> QED BY <1>3, <1>4, <1>5, <1>11, <2>1, EnqueueLone

LEMMA DeliverSteerLone ==
  ASSUME NEW w, NEW n, Lone(w, n), NEW c \in Commands, w.s.turn # NoTurn
  PROVE  Lone(DeliverSteer(w, c), n)
<1> DEFINE op == [kind |-> "steer", cmd |-> c, turn |-> w.s.turn, opens |-> FALSE, final |-> FALSE]
           p == Append(w.s.fifo, op)
           q == FifoTo(w, p)
<1>1. w \in Worlds /\ w.s.fifo \in Seq(Entries) /\ w.s.turn \in Nat
  BY SessionType DEF Lone
<1>2. op \in Entries /\ op.kind # "prompt"
  BY <1>1 DEF Entries
<1>3. DeliverSteer(w, c) = EnqueueLaneAdmission(w, op)
  BY DEF DeliverSteer
<1> HIDE DEF op
<1>4. p \in Seq(Entries) /\ Prompts(p) = Prompts(w.s.fifo)
  BY <1>1, <1>2, AppendHead, PromptsAppend
<1> HIDE DEF p
<1>5. /\ q \in Worlds /\ SameControl(q.s, w.s) /\ SameCounts(q.s, w.s) /\ SameFlush(q.s, w.s)
      /\ q.s.fifo = p /\ q.s.stage = w.s.stage
  BY <1>1, <1>4, FifoFields
<1> HIDE DEF q
<1>6. /\ q.s.state = w.s.state /\ q.s.turn = w.s.turn /\ q.s.attached = w.s.attached
      /\ q.s.flush = w.s.flush /\ q.s.chains = w.s.chains /\ q.s.asked = w.s.asked
  BY <1>5 DEF SameControl, SameCounts, SameFlush
<1>7. Lone(q, n)
  BY <1>4, <1>5, <1>6 DEF Lone, Alone
<1>8. Going(w.s)
  BY DEF Going
<1> QED
  <2>1. Lone(FifoTo(w, Append(w.s.fifo, op)), n)
    BY <1>7 DEF q, p
  <2> QED BY <1>1, <1>2, <1>3, <1>8, <2>1, EnqueueLone

\* The queue is flushed only into a turn that works, when no prompt is at the lane.
LEMMA FlushEndsLone ==
  ASSUME NEW w, NEW n, Lone(w, n)
  PROVE  Lone(FlushEnds(w), n)
<1> DEFINE q == w.s.queue
           v == FlushEnds(w)
<1>1. w \in Worlds /\ w.s \in Sessions /\ q \in Seq(Commands)
  BY SessionType DEF Lone
<1>2. v = FlushTo(w, Nobody, q)
  BY <1>1 DEF FlushEnds, FlushTo, Worlds, Sessions
<1> HIDE DEF q, v
<1>3. /\ v \in Worlds /\ SameControl(v.s, w.s) /\ SameCounts(v.s, w.s) /\ SameFifo(v.s, w.s)
      /\ v.s.flush = Nobody
  <2>1. Nobody \in Offers \cup {Nobody}
    OBVIOUS
  <2> QED BY <1>1, <1>2, <2>1, FlushFields
<1> QED BY <1>3 DEF Lone, Alone, SameControl, SameCounts, SameFifo, v

LEMMA DrainLone ==
  ASSUME NEW w, NEW n, Lone(w, n)
  PROVE  Lone(Drain(w), n)
<1>1. CASE ~ CanFlush(w.s)
  BY <1>1, FlushEndsLone DEF Drain
<1>2. CASE CanFlush(w.s)
  <2> DEFINE h == Head(w.s.queue)
             q == Tail(w.s.queue)
             x == [cmd |-> h, turn |-> w.s.turn]
             v == Drain(w)
  <2>1. w \in Worlds /\ w.s \in Sessions /\ w.s.queue \in Seq(Commands) /\ w.s.turn \in Nat
    BY SessionType DEF Lone
  <2>2. w.s.state = "working" /\ w.s.turn # NoTurn /\ w.s.queue # <<>>
    BY <1>2 DEF CanFlush
  <2>3. v = FlushTo(w, x, q)
    BY <1>2, <2>1 DEF Drain, FlushTo, Worlds, Sessions
  <2>4. q \in Seq(Commands) /\ h \in Commands
    BY <2>1, <2>2, TailSet
  <2>5. x \in Offers \cup {Nobody}
    BY <2>1, <2>2, <2>4 DEF Offers
  <2> HIDE DEF x, q, v, h
  <2>6. /\ v \in Worlds /\ SameControl(v.s, w.s) /\ SameCounts(v.s, w.s) /\ SameFifo(v.s, w.s)
    BY <2>1, <2>3, <2>4, <2>5, FlushFields
  <2>7. v.s.state = "working" /\ v.s.fifo = w.s.fifo /\ v.s.asked = w.s.asked
    BY <2>2, <2>6 DEF SameControl, SameCounts, SameFifo
  <2>8. Lone(v, n)
    BY <2>2, <2>6, <2>7 DEF Lone, Alone
  <2> QED BY <2>8 DEF v
<1> QED BY <1>1, <1>2

LEMMA FlushLone ==
  ASSUME NEW w, NEW n, Lone(w, n)
  PROVE  Lone(FlushSafeBoundaryQueue(w), n)
BY DrainLone DEF FlushSafeBoundaryQueue

\* The end of a turn leaves what is at the lane there.
LEMMA CompleteTurnFields ==
  ASSUME NEW w \in Worlds
  PROVE  LET v == CompleteTurn(w) IN
         /\ v \in Worlds /\ v.s.state = "idle" /\ v.s.asked = w.s.asked /\ v.s.flush = w.s.flush
         /\ v.s.chains = w.s.chains \cup {Flushing} /\ v.s.fifo \in Seq(Entries)
         /\ Prompts(v.s.fifo) = Prompts(w.s.fifo) /\ (v.s.fifo = <<>> <=> w.s.fifo = <<>>)
         /\ w.s.fifo # <<>> => Head(v.s.fifo).kind = Head(w.s.fifo).kind
<1> DEFINE f == FailInFlight(w)
           l == Closed(w.s.turn, w.s.members)
           n == f.s.chains \cup {Flushing}
           s == [f.s EXCEPT !.last = l,
                            !.turn = NoTurn, !.members = {}, !.gate = TRUE, !.off = FALSE,
                            !.state = "idle", !.chains = n]
           v == CompleteTurn(w)
           u == [f EXCEPT !.s = s]
<1>1. w.s \in Sessions
  BY SessionType
<1>2. f \in Worlds /\ Resembles(f.s, w.s)
  BY FailInFlightResembles
<1>3. CompleteTurn(w) = [f EXCEPT !.s.last = Closed(w.s.turn, w.s.members),
                                  !.s.turn = NoTurn, !.s.members = {},
                                  !.s.gate = TRUE, !.s.off = FALSE,
                                  !.s.state = "idle",
                                  !.s.chains = @ \cup {Flushing}]
  BY DEF CompleteTurn
<1> HIDE DEF f
<1>4. f.s \in Sessions
  BY <1>2, WorldType
<1>5. v = u
  BY <1>2, <1>3 DEF Worlds
<1>6. l \in [turn : Nat, members : SUBSET Commands]
  BY <1>1 DEF Sessions, Closed
<1>7. n \in SUBSET Int
  BY <1>4 DEF Sessions, Flushing
<1>8. n = w.s.chains \cup {Flushing}
  BY <1>2 DEF Resembles
<1> HIDE DEF l, n
<1>9. /\ s \in Sessions /\ s.state = "idle" /\ s.asked = f.s.asked /\ s.chains = n
      /\ s.flush = f.s.flush /\ s.fifo = f.s.fifo
  BY <1>4, <1>6, <1>7 DEF Sessions, States, NoTurn
<1> HIDE DEF s
<1>10. u \in Worlds /\ u.s = s
  BY <1>2, <1>9, Put
<1> HIDE DEF u, v
<1>11. v.s.fifo \in Seq(Entries)
  BY <1>5, <1>10, SessionType
<1>12. /\ v \in Worlds /\ v.s.state = "idle" /\ v.s.asked = w.s.asked /\ v.s.flush = w.s.flush
       /\ v.s.chains = w.s.chains \cup {Flushing}
       /\ Prompts(v.s.fifo) = Prompts(w.s.fifo) /\ (v.s.fifo = <<>> <=> w.s.fifo = <<>>)
       /\ w.s.fifo # <<>> => Head(v.s.fifo).kind = Head(w.s.fifo).kind
  BY <1>2, <1>5, <1>8, <1>9, <1>10 DEF Resembles
<1> QED BY <1>11, <1>12 DEF v

\* The turn of the only prompt is accepted: no prompt is left.
LEMMA AcceptTurnLone ==
  ASSUME NEW w, NEW n, Lone(w, n), w.s.state = "starting", w.s.fifo # <<>>,
         Head(w.s.fifo).kind = "prompt"
  PROVE  Lone(AcceptTurn(w), n)
<1> DEFINE c == w.s.admission.cmd
           x == [w EXCEPT !.s.state = "working"]
           y == Accepted(x, c)
           z == [y EXCEPT !.s.admission = Nobody, !.s.early = FALSE]
           e == IF w.s.early THEN CompleteTurn(z) ELSE z
           d == Done(e)
           v == AcceptTurn(w)
<1>1. v = FlushSafeBoundaryQueue(d)
  BY Zenon DEF AcceptTurn
<1>2. w \in Worlds /\ w.s.fifo \in Seq(Entries) /\ (n = 0 => Alone(w.s)) /\ w.s.asked = n
  BY SessionType DEF Lone
<1>3. /\ x \in Worlds /\ x.s.state = "working" /\ x.s.flush = w.s.flush /\ x.s.asked = w.s.asked
      /\ x.s.fifo = w.s.fifo
  <2>1. x = StateTo(w, "working")
    BY <1>2 DEF StateTo, Worlds
  <2> HIDE DEF x
  <2>2. "working" \in States
    BY DEF States
  <2>3. /\ x \in Worlds /\ x.s.state = "working" /\ SameCounts(x.s, w.s) /\ SameFlush(x.s, w.s)
        /\ SameFifo(x.s, w.s)
    BY <1>2, <2>1, <2>2, StateFields
  <2> QED BY <2>3 DEF SameCounts, SameFlush, SameFifo
<1> HIDE DEF x, c
<1>4. y \in Worlds /\ Resembles(y.s, x.s)
  BY <1>3, AcceptedResembles
<1> HIDE DEF y
<1>5. z \in Worlds /\ z.s.state = "working" /\ z.s.flush = w.s.flush /\ z.s.asked = w.s.asked
      /\ Prompts(z.s.fifo) = Prompts(w.s.fifo) /\ z.s.fifo # <<>> /\ Head(z.s.fifo).kind = "prompt"
  <2>1. z = AdmittedIn(y)
    BY <1>4 DEF AdmittedIn, Worlds
  <2> HIDE DEF z
  <2>2. /\ z \in Worlds /\ SameControl(z.s, y.s) /\ SameCounts(z.s, y.s) /\ SameFlush(z.s, y.s)
        /\ SameFifo(z.s, y.s)
    BY <1>4, <2>1, AdmittedFields
  <2> QED BY <1>3, <1>4, <2>2 DEF SameControl, SameCounts, SameFlush, SameFifo, Resembles
<1> HIDE DEF z
<1>6. /\ e \in Worlds /\ e.s.state \in {"working", "idle"} /\ e.s.flush = w.s.flush
      /\ e.s.asked = w.s.asked /\ Prompts(e.s.fifo) = Prompts(w.s.fifo) /\ e.s.fifo # <<>>
      /\ Head(e.s.fifo).kind = "prompt"
  BY <1>5, CompleteTurnFields
<1> HIDE DEF e
<1>7. e.s.fifo \in Seq(Entries)
  BY <1>6, SessionType
<1>8. /\ d \in Worlds /\ SameControl(d.s, e.s) /\ SameCounts(d.s, e.s) /\ SameFlush(d.s, e.s)
      /\ d.s.fifo = Tail(e.s.fifo)
  BY <1>6, DoneFields
<1> HIDE DEF d
<1>9. n = 0 => w.s.flush = Nobody /\ \A i, j \in Prompts(w.s.fifo) : i = j
  BY <1>2 DEF Alone
<1>10. n = 0 => Prompts(d.s.fifo) = {}
  BY <1>6, <1>7, <1>8, <1>9, PromptsTail
<1>11. d.s.state \in {"working", "idle"} /\ d.s.asked = n /\ (n = 0 => d.s.flush = Nobody)
  BY <1>2, <1>6, <1>8, <1>9 DEF SameControl, SameCounts, SameFlush
<1>12. Lone(d, n)
  BY <1>8, <1>10, <1>11 DEF Lone, Alone
<1>13. Lone(v, n)
  BY <1>1, <1>12, FlushLone
<1> QED BY <1>13 DEF v

\* A command joins the queue.
LEMMA QueueLone ==
  ASSUME NEW w, NEW n, Lone(w, n), NEW c \in Commands
  PROVE  Lone(Queue(w, c), n) /\ Queue(w, c).s.state = w.s.state
<1> DEFINE q == Append(w.s.queue, c)
           u == QueueTo(w, q)
           v == Queue(w, c)
<1>1. w \in Worlds /\ w.s.queue \in Seq(Commands) /\ "queued" \in Statuses
  BY SessionType DEF Lone, Statuses
<1>2. q \in Seq(Commands)
  BY <1>1, AppendSet
<1>3. v = Tell(u, {c}, "queued")
  BY <1>1 DEF Queue, QueueTo, Worlds
<1> HIDE DEF q, v
<1>4. /\ u \in Worlds /\ SameControl(u.s, w.s) /\ SameCounts(u.s, w.s) /\ SameFlush(u.s, w.s)
      /\ SameFifo(u.s, w.s)
  BY <1>1, <1>2, QueueFields
<1> HIDE DEF u
<1>5. Resembles(u.s, w.s)
  BY <1>4 DEF Resembles, SameControl, SameCounts, SameFlush, SameFifo
<1>6. Lone(u, n)
  BY <1>4, <1>5, ResemblesLone
<1>7. Lone(v, n) /\ v.s = u.s
  BY <1>1, <1>3, <1>6, TellLone
<1> QED BY <1>5, <1>7 DEF Resembles, v
\* The actions other than UpdateSettings.
Lands == \E v : Lone(v, session.asked) /\ Becomes(v)

LEMMA LoneWorld ==
  ASSUME Good(World), Lone(World, session.asked)
  PROVE  /\ World \in Worlds /\ session \in Sessions /\ (session.asked = 0 => Alone(session))
         /\ session.fifo \in Seq(Entries) /\ session.queue \in Seq(Commands)
BY WorldIs, SessionType DEF Lone

LEMMA PendingLone ==
  ASSUME NEW w, NEW n, Lone(w, n), NEW c
  PROVE  Lone(Pending(w, c), n) /\ Pending(w, c).s = w.s
BY TellLone DEF Pending, Statuses

LEMMA StartLands ==
  ASSUME NEW c \in Commands, Good(World), Lone(World, session.asked), Start(c)
  PROVE  Lands
<1> DEFINE p == Pending(World, c)
<1>1. session.state = "new" /\ Becomes(StartTurn(p, c))
  BY DEF Start
<1>2. Lone(p, session.asked) /\ p.s = session
  BY PendingLone, WorldIs
<1> HIDE DEF p
<1>3. session.asked = 0 => session.flush = Nobody /\ Prompts(session.fifo) = {}
  BY <1>1, LoneWorld DEF Alone
<1>4. Lone(StartTurn(p, c), session.asked)
  BY <1>2, <1>3, StartTurnLone
<1> QED BY <1>1, <1>4 DEF Lands

LEMMA AdmitLone ==
  ASSUME NEW w, NEW n, Lone(w, n), NEW c \in Commands
  PROVE  Lone(Admit(w, c), n)
<1> DEFINE p == Pending(w, c)
           r == Tell(w, {c}, "rejected")
           q == Queue(w, c)
<1>1. Lone(r, n) /\ Lone(p, n) /\ p.s = w.s
  BY TellLone, PendingLone DEF Statuses
<1>2. Lone(q, n) /\ Lone(FlushSafeBoundaryQueue(q), n)
  BY QueueLone, FlushLone
<1>3. w.s.state = "idle" /\ w.s.flush = Nobody => Lone(StartTurn(p, c), n)
  <2>1. n = 0 /\ w.s.state = "idle" => Prompts(w.s.fifo) = {}
    BY DEF Lone, Alone
  <2> HIDE DEF p
  <2> QED BY <1>1, <2>1, StartTurnLone
<1>4. w.s.turn # NoTurn => Lone(DeliverSteer(p, c), n)
  <2> HIDE DEF p
  <2> QED BY <1>1, DeliverSteerLone
<1>5. \/ Admit(w, c) = r \/ Admit(w, c) = q \/ Admit(w, c) = FlushSafeBoundaryQueue(q)
      \/ w.s.state = "idle" /\ w.s.flush = Nobody /\ Admit(w, c) = StartTurn(p, c)
      \/ w.s.turn # NoTurn /\ Admit(w, c) = DeliverSteer(p, c)
  BY DEF Admit
<1> HIDE DEF p, q, r
<1> QED BY <1>1, <1>2, <1>3, <1>4, <1>5

LEMMA SendLands ==
  ASSUME NEW c \in Commands, Good(World), Lone(World, session.asked), Send(c)
  PROVE  Lands
<1>1. CASE Becomes(Admit(World, c))
  BY <1>1, AdmitLone DEF Lands
<1>2. CASE Becomes(Admit([World EXCEPT !.s.later = @ \cup {c}], c))
  <2> DEFINE x == [session EXCEPT !.later = @ \cup {c}]
             u == [World EXCEPT !.s = x]
  <2>1. [World EXCEPT !.s.later = @ \cup {c}] = u
    BY DEF World
  <2>2. x \in Sessions /\ Resembles(x, session)
    BY LoneWorld DEF Sessions, Resembles
  <2> HIDE DEF x
  <2>3. Lone(u, session.asked)
    BY <2>2, PutLone, WorldIs
  <2> HIDE DEF u
  <2> QED BY <1>2, <2>1, <2>3, AdmitLone DEF Lands
<1> QED BY <1>1, <1>2 DEF Send

LEMMA ReturnedLands ==
  ASSUME NEW c \in Commands, Good(World), Lone(World, session.asked), InputReturned(c)
  PROVE  Lands
<1> DEFINE s == session
           n == s.given + 1
           x == [s EXCEPT !.given = n]
           w == [World EXCEPT !.s = x]
<1>1. s \in Sessions /\ n \in Nat
  BY GoodSession
<1>2. \/ told[c] = "accepted" /\ Becomes(GiveBack(w, c))
      \/ Becomes([w EXCEPT !.s.returns = @ \cup {c}])
  <2>1. [World EXCEPT !.s.given = @ + 1] = w
    BY <1>1 DEF World, Sessions
  <2> HIDE DEF w
  <2> QED BY <2>1 DEF InputReturned
<1> HIDE DEF n
<1>3. x \in Sessions /\ Resembles(x, s)
  BY <1>1 DEF Sessions, Resembles
<1> HIDE DEF x
<1>4. Lone(w, session.asked) /\ w.s = x
  BY <1>3, PutLone, WorldIs
<1>5. w.told = told
  BY DEF World
<1> HIDE DEF w
<1>6. CASE told[c] = "accepted" /\ Becomes(GiveBack(w, c))
  <2> DEFINE v == GiveBack(w, c)
  <2>1. v \in Worlds /\ Alike(v.s, w.s)
    BY <1>4, <1>5, <1>6, GiveBackIs DEF Lone
  <2>2. Becomes(v)
    BY <1>6
  <2> HIDE DEF v
  <2>3. Lone(v, session.asked)
    BY <1>4, <2>1, AlikeResembles, ResemblesLone
  <2> QED BY <2>2, <2>3 DEF Lands
<1>7. CASE Becomes([w EXCEPT !.s.returns = @ \cup {c}])
  <2> DEFINE y == [w.s EXCEPT !.returns = @ \cup {c}]
             v == [w EXCEPT !.s = y]
  <2>1. Becomes(v)
    BY <1>7
  <2>2. y \in Sessions /\ Resembles(y, w.s)
    BY <1>3, <1>4 DEF Sessions, Resembles
  <2> HIDE DEF y
  <2>3. Lone(v, session.asked)
    BY <1>4, <2>2, PutLone
  <2> QED BY <2>1, <2>3 DEF Lands
<1> QED BY <1>2, <1>6, <1>7

LEMMA StopLands ==
  ASSUME Good(World), Lone(World, session.asked), Stop
  PROVE  Lands
<1> DEFINE f == FailQueued(FailInFlight(EnterStopping(World)))
           x == [f.s EXCEPT !.closers = @ \cup {"stop"}]
           g == [f EXCEPT !.s = x]
<1>1. Becomes(IF session.attached THEN StopLane(g) ELSE Finish(f))
  <2>1. Becomes(IF session.attached THEN StopLane([f EXCEPT !.s.closers = @ \cup {"stop"}])
                                    ELSE Finish(f))
    BY Zenon DEF Stop
  <2> HIDE DEF f
  <2>2. [f EXCEPT !.s.closers = @ \cup {"stop"}] = g
    OBVIOUS
  <2> QED BY <2>1, <2>2
<1>2. Lone(f, session.asked)
  BY StoppedLone
<1> HIDE DEF f
<1>3. x \in Sessions /\ Resembles(x, f.s)
  <2>1. f.s \in Sessions
    BY <1>2, SessionType DEF Lone
  <2> QED BY <2>1 DEF Sessions, Closers, Resembles
<1> HIDE DEF x
<1>4. Lone(g, session.asked)
  BY <1>2, <1>3, PutLone
<1> HIDE DEF g
<1>5. Lone(StopLane(g), session.asked) /\ Lone(Finish(f), session.asked)
  BY <1>2, <1>4, StopLaneLone, FinishLone
<1> QED BY <1>1, <1>5 DEF Lands

LEMMA NextBeginsLands ==
  ASSUME Good(World), Lone(World, session.asked), NextBegins
  PROVE  Lands
<1>1. session.fifo # <<>> /\ session.stage = "waiting" /\ Becomes(Begin(World))
  BY DEF NextBegins
<1>2. session.asked = 0 => Going(session)
  BY <1>1, LoneWorld DEF Alone, Going
<1>3. Lone(Begin(World), session.asked)
  BY <1>1, <1>2, BeginLone, WorldIs
<1> QED BY <1>1, <1>3 DEF Lands

\* The continuation waited for the delivery at the lane; no update is in its way.
LEMMA FlushAwaitedLands ==
  ASSUME Good(World), Lone(World, session.asked), FlushAwaited
  PROVE  Lands
<1> DEFINE s == session
           chains == (s.chains \ {Flushing}) \cup (IF s.refused THEN {} ELSE {s.updates})
           x == [s EXCEPT !.chains = chains]
           v == [World EXCEPT !.s = x]
<1>1. s \in Sessions /\ s.flush = Nobody /\ s.updates \in Nat /\ (s.asked = 0 => Alone(s))
      /\ World \in Worlds
  BY GoodSession, LoneWorld DEF FlushAwaited
<1>2. chains \in SUBSET Int
  BY <1>1 DEF Sessions
<1>3. [World EXCEPT !.s.chains = (@ \ {Flushing}) \cup
                    (IF s.refused THEN {} ELSE {s.updates})] = v
  BY DEF World
<1>4. Becomes(v)
  BY <1>3, Zenon DEF FlushAwaited
<1> HIDE DEF chains
<1>5. /\ x \in Sessions /\ x.state = s.state /\ x.turn = s.turn /\ x.attached = s.attached
      /\ x.flush = s.flush /\ x.stage = s.stage /\ x.asked = s.asked /\ x.fifo = s.fifo
  BY <1>1, <1>2 DEF Sessions
<1> HIDE DEF x
<1>6. v \in Worlds /\ v.s = x
  BY <1>1, <1>5, Put
<1> HIDE DEF v
<1>7. Lone(v, session.asked)
  BY <1>1, <1>5, <1>6 DEF Lone, Alone
<1> QED BY <1>4, <1>7 DEF Lands

LEMMA StartNextLands ==
  ASSUME Good(World), Lone(World, session.asked), StartNextQueued
  PROVE  Lands
<1> DEFINE s == session
           c == Head(s.queue)
           q == Tail(s.queue)
           chains == s.chains \ {0}
           x == [s EXCEPT !.chains = chains, !.queue = q]
           u == [World EXCEPT !.s = x]
<1>1. /\ s \in Sessions /\ s.queue \in Seq(Commands) /\ s.queue # <<>> /\ s.state = "idle"
      /\ 0 \in s.chains /\ (s.asked = 0 => Alone(s)) /\ World \in Worlds
  BY LoneWorld DEF StartNextQueued
<1>2. [World EXCEPT !.s.chains = @ \ {0}, !.s.queue = Tail(@)] = u
  BY <1>1 DEF World, Sessions
<1>3. Becomes(StartTurn(u, c))
  BY <1>2, Zenon DEF StartNextQueued
<1>4. q \in Seq(Commands) /\ c \in Commands /\ chains \in SUBSET Int
  BY <1>1, TailSet DEF Sessions
<1> HIDE DEF c, q, chains
<1>5. /\ x \in Sessions /\ x.state = s.state /\ x.flush = s.flush /\ x.asked = s.asked
      /\ x.fifo = s.fifo
  BY <1>1, <1>4 DEF Sessions
<1> HIDE DEF x
<1>6. u \in Worlds /\ u.s = x
  BY <1>1, <1>5, Put
<1> HIDE DEF u
<1>7. s.asked = 0 => s.flush = Nobody /\ Prompts(s.fifo) = {}
  BY <1>1 DEF Alone
<1>8. Lone(u, session.asked)
  BY <1>1, <1>5, <1>6, <1>7 DEF Lone, Alone
<1>9. Lone(StartTurn(u, c), session.asked)
  BY <1>4, <1>5, <1>6, <1>7, <1>8, StartTurnLone
<1> QED BY <1>3, <1>9 DEF Lands

LEMMA NothingQueuedLands ==
  ASSUME Good(World), Lone(World, session.asked), NothingQueued
  PROVE  Lands
<1> DEFINE s == session
           chains == s.chains \ {0}
           x == [s EXCEPT !.chains = chains]
           v == [World EXCEPT !.s = x]
<1>1. s \in Sessions /\ (s.asked = 0 => Alone(s)) /\ World \in Worlds
  BY LoneWorld
<1>2. chains \in SUBSET Int /\ 0 \notin chains
  BY <1>1 DEF Sessions
<1>3. [World EXCEPT !.s.chains = @ \ {0}] = v
  BY DEF World
<1>4. Becomes(v)
  BY <1>3, Zenon DEF NothingQueued
<1> HIDE DEF chains
<1>5. /\ x \in Sessions /\ x.state = s.state /\ x.turn = s.turn /\ x.attached = s.attached
      /\ x.flush = s.flush /\ x.stage = s.stage /\ x.asked = s.asked /\ x.fifo = s.fifo
      /\ x.chains = chains
  BY <1>1, <1>2 DEF Sessions
<1> HIDE DEF x
<1>6. v \in Worlds /\ v.s = x
  BY <1>1, <1>5, Put
<1> HIDE DEF v
<1>7. Lone(v, session.asked)
  BY <1>1, <1>2, <1>5, <1>6 DEF Lone, Alone
<1> QED BY <1>4, <1>7 DEF Lands
LEMMA SettlesLands ==
  ASSUME NEW c \in session.closers, Good(World), Lone(World, session.asked), Settles(c)
  PROVE  Lands
<1> DEFINE s == session
           n == s.closers \ {c}
           a == IF c = "exit" THEN FALSE ELSE s.attached
           x == [s EXCEPT !.closers = n, !.attached = a]
           u == [World EXCEPT !.s = x]
<1>1. s \in Sessions /\ (s.asked = 0 => Alone(s)) /\ World \in Worlds
  BY LoneWorld
<1>2. [World EXCEPT !.s.closers = @ \ {c}, !.s.attached = IF c = "exit" THEN FALSE ELSE @] = u
  BY <1>1 DEF World, Sessions
<1>3. Becomes(Finish(u))
  BY <1>2, Zenon DEF Settles
<1>4. n \in SUBSET Closers /\ a \in BOOLEAN /\ (~ s.attached => ~ a)
  BY <1>1 DEF Sessions
<1> HIDE DEF n, a
<1>5. /\ x \in Sessions /\ x.state = s.state /\ x.turn = s.turn /\ x.attached = a
      /\ x.flush = s.flush /\ x.stage = s.stage /\ x.asked = s.asked /\ x.fifo = s.fifo
      /\ x.chains = s.chains
  BY <1>1, <1>4 DEF Sessions
<1> HIDE DEF x
<1>6. u \in Worlds /\ u.s = x
  BY <1>1, <1>5, Put
<1> HIDE DEF u
<1>7. Lone(u, session.asked)
  BY <1>1, <1>4, <1>5, <1>6 DEF Lone, Alone
<1> QED BY <1>3, <1>7, FinishLone DEF Lands

LEMMA CleanupLands ==
  ASSUME Good(World), Lone(World, session.asked), CleanupDone
  PROVE  Lands
<1> DEFINE s == session
           q == IF s.stage = "opening" THEN <<Head(s.fifo)>> ELSE <<>>
           g == IF s.stage = "opening" THEN s.stage ELSE "waiting"
           x == [s EXCEPT !.state = "closed", !.finishing = FALSE, !.fifo = q, !.stage = g]
           v == [World EXCEPT !.s = x]
<1>1. s \in Sessions /\ Headed(s) /\ s.fifo \in Seq(Entries) /\ World \in Worlds
  BY GoodSession, LoneWorld
<1>2. [World EXCEPT !.s.state = "closed", !.s.finishing = FALSE,
                    !.s.fifo = IF session.stage = "opening" THEN <<Head(@)>> ELSE <<>>,
                    !.s.stage = IF @ = "opening" THEN @ ELSE "waiting"] = v
  BY <1>1 DEF World, Sessions
<1>3. Becomes(v)
  BY <1>2, Zenon DEF CleanupDone
<1>4. q \in Seq(Entries) /\ g \in Stages /\ (Prompts(q) # {} => Prompts(s.fifo) # {})
  <2>1. CASE s.stage = "opening"
    <3> DEFINE op == Head(s.fifo)
    <3>1. op \in Entries /\ op.kind = "prompt" /\ s.fifo # <<>>
      BY <1>1, <2>1, SteersTail DEF Headed
    <3>2. 1 \in Prompts(s.fifo)
      <4>1. op = s.fifo[1] /\ DOMAIN s.fifo = 1..Len(s.fifo) /\ Len(s.fifo) \in Nat /\ Len(s.fifo) # 0
        BY <1>1, <3>1, HeadTailProperties, LenProperties, EmptySeq
      <4> QED BY <3>1, <4>1 DEF Prompts
    <3>3. q = <<op>> /\ g = "opening"
      BY <2>1
    <3> HIDE DEF op, q, g
    <3>4. q \in Seq(Entries)
      BY <3>1, <3>3
    <3> QED BY <3>2, <3>3, <3>4 DEF Stages
  <2>2. CASE s.stage # "opening"
    BY <2>2 DEF Prompts, Stages
  <2> QED BY <2>1, <2>2
<1> HIDE DEF q, g
<1>5. /\ x \in Sessions /\ x.state = "closed" /\ x.asked = s.asked /\ x.flush = s.flush
      /\ x.fifo = q
  BY <1>1, <1>4 DEF Sessions, States
<1> HIDE DEF x
<1>6. v \in Worlds /\ v.s = x
  BY <1>1, <1>5, Put
<1> HIDE DEF v
<1>7. Lone(v, session.asked)
  BY <1>4, <1>5, <1>6, EndedLone, WorldIs
<1> QED BY <1>3, <1>7 DEF Lands

\* A lane opens for a start that goes on: the start that failed is over.
LEMMA LaneOpensLands ==
  ASSUME Good(World), Lone(World, session.asked), LaneOpens
  PROVE  Lands
<1> DEFINE s == session
<1>1. /\ s \in Sessions /\ (s.asked = 0 => Alone(s)) /\ World \in Worlds
      /\ s.stage = "opening" /\ s.fifo # <<>>
  BY GoodSession, LoneWorld DEF LaneOpens, Laned, Headed
<1>2. CASE s.state = "starting"
  <2> DEFINE x == [s EXCEPT !.attached = TRUE, !.stage = "starting"]
             v == [World EXCEPT !.s = x, !.lane = "live"]
  <2>1. [World EXCEPT !.lane = "live", !.s.attached = TRUE, !.s.stage = "starting"] = v
    BY <1>1 DEF World, Sessions
  <2>2. Becomes(v)
    BY <1>2, <2>1, Zenon DEF LaneOpens
  <2>3. /\ x \in Sessions /\ x.state = s.state /\ x.turn = s.turn
        /\ x.flush = s.flush /\ x.asked = s.asked /\ x.fifo = s.fifo /\ x.chains = s.chains
    BY <1>1 DEF Sessions, Stages
  <2> HIDE DEF x
  <2>4. v \in Worlds /\ v.s = x
    <3>1. "live" \in Lanes
      BY DEF Lanes
    <3> QED BY <1>1, <2>3, <3>1, PutBoth
  <2> HIDE DEF v
  <2>5. s.asked = 0 => s.turn # NoTurn
    BY <1>1, <1>2 DEF Alone
  <2>6. Lone(v, session.asked)
    BY <1>1, <2>3, <2>4, <2>5 DEF Lone, Alone
  <2> QED BY <2>2, <2>6 DEF Lands
<1>3. CASE s.state # "starting"
  <2> DEFINE u == [World EXCEPT !.lane = "stopping"]
  <2>1. Becomes(Done(u))
    BY <1>3, Zenon DEF LaneOpens
  <2>2. Lone(u, session.asked) /\ u.s = s
    BY LaneLone, WorldIs DEF Lanes
  <2> HIDE DEF u
  <2>3. Lone(Done(u), session.asked)
    BY <1>1, <1>3, <2>2, DoneLone DEF Going
  <2> QED BY <2>1, <2>3 DEF Lands
<1> QED BY <1>2, <1>3

LEMMA LaneFailsLands ==
  ASSUME Good(World), Lone(World, session.asked), LaneFails
  PROVE  Lands
<1> DEFINE u == [World EXCEPT !.lane = "dead"]
<1>1. (session.asked = 0 => Alone(session)) /\ session.stage = "opening" /\ session.fifo # <<>>
  BY GoodSession, LoneWorld DEF LaneFails, Laned, Headed
<1>2. session.asked = 0 => Going(session)
  BY <1>1 DEF Alone, Going
<1>3. Becomes(FailedStart(u))
  BY Zenon DEF LaneFails
<1>4. Lone(u, session.asked) /\ u.s = session
  BY LaneLone, WorldIs DEF Lanes
<1> HIDE DEF u
<1>5. Lone(FailedStart(u), session.asked)
  BY <1>1, <1>2, <1>4, FailedStartLone
<1> QED BY <1>3, <1>5 DEF Lands

LEMMA PromptAnsweredLands ==
  ASSUME NEW ok \in BOOLEAN, Good(World), Lone(World, session.asked), PromptAnswered(ok)
  PROVE  Lands
<1> DEFINE u == IF session.stage = "starting" THEN StopLane(World) ELSE World
<1>1. /\ (session.asked = 0 => Alone(session)) /\ session.fifo # <<>>
      /\ session.stage \in {"starting", "sending"}
      /\ Head(session.fifo).kind = "prompt"
  BY GoodSession, LoneWorld DEF PromptAnswered, Headed
<1>2. session.asked = 0 => Going(session)
  BY <1>1 DEF Alone, Going
<1>3. Lone(u, session.asked) /\ u.s = session
  BY StopLaneLone, WorldIs
<1>4. \/ Becomes(FailedStart(World))
      \/ session.state = "starting" /\ Becomes(AcceptTurn(World))
      \/ Becomes(Done(u))
  <2>1. LET current == session.state = "starting" /\ session.turn = Head(session.fifo).turn
        IN  Becomes(IF ~ok THEN FailedStart(World)
                    ELSE IF current THEN AcceptTurn(World) ELSE Done(u))
    BY Zenon DEF PromptAnswered
  <2> HIDE DEF u
  <2> QED BY <2>1
<1> HIDE DEF u
<1>5. Lone(FailedStart(World), session.asked) /\ Lone(Done(u), session.asked)
  BY <1>1, <1>2, <1>3, FailedStartLone, DoneLone, WorldIs
<1>6. session.state = "starting" => Lone(AcceptTurn(World), session.asked)
  BY <1>1, AcceptTurnLone, WorldIs
<1> QED BY <1>4, <1>5, <1>6 DEF Lands

\* An update that is answered was asked for.
LEMMA UpdateAnsweredLands ==
  ASSUME NEW ok \in BOOLEAN, Good(World), Lone(World, session.asked), UpdateAnswered(ok)
  PROVE  Lands
<1> DEFINE s == session
           n == s.updates - 1
           fewer == {IF i > 0 THEN i - 1 ELSE i : i \in s.chains}
           first == {i \in s.chains : i <= 0}
<1>1. /\ s \in Sessions /\ n \in Nat /\ s.asked # 0 /\ World \in Worlds
      /\ s.chains \in SUBSET Int
  BY GoodSession, LoneWorld DEF Counted, UpdateAnswered, Sessions
<1>2. fewer \in SUBSET Int /\ first \in SUBSET Int
  BY <1>1
<1>3. CASE ok
  <2> DEFINE x == [s EXCEPT !.updates = n, !.holds = FALSE, !.chains = fewer]
             v == [World EXCEPT !.s = x]
  <2>1. [World EXCEPT !.s.updates = @ - 1, !.s.holds = FALSE,
                      !.s.chains = {IF i > 0 THEN i - 1 ELSE i : i \in @}] = v
    BY <1>1 DEF World, Sessions
  <2>2. Becomes(v)
    BY <1>3, <2>1, Zenon DEF UpdateAnswered
  <2> HIDE DEF n, fewer
  <2>3. x \in Sessions /\ x.asked = s.asked
    BY <1>1, <1>2 DEF Sessions
  <2> HIDE DEF x
  <2>4. v \in Worlds /\ v.s = x
    BY <1>1, <2>3, Put
  <2> HIDE DEF v
  <2>5. Lone(v, session.asked)
    BY <1>1, <2>3, <2>4 DEF Lone
  <2> QED BY <2>2, <2>5 DEF Lands
<1>4. CASE ~ ok
  <2> DEFINE x == [s EXCEPT !.updates = 0, !.refused = TRUE, !.chains = first]
             v == [World EXCEPT !.s = x]
  <2>1. [World EXCEPT !.s.updates = 0, !.s.refused = TRUE,
                      !.s.chains = {i \in @ : i <= 0}] = v
    BY <1>1 DEF World, Sessions
  <2>2. Becomes(v)
    BY <1>4, <2>1, Zenon DEF UpdateAnswered
  <2> HIDE DEF first
  <2>3. x \in Sessions /\ x.asked = s.asked
    BY <1>1, <1>2 DEF Sessions
  <2> HIDE DEF x
  <2>4. v \in Worlds /\ v.s = x
    BY <1>1, <2>3, Put
  <2> HIDE DEF v
  <2>5. Lone(v, session.asked)
    BY <1>1, <2>3, <2>4 DEF Lone
  <2> QED BY <2>2, <2>5 DEF Lands
<1> QED BY <1>3, <1>4

LEMMA SteerAnsweredLands ==
  ASSUME NEW answer \in {"ok", "busy", "refused"}, Good(World), Lone(World, session.asked),
         SteerAnswered(answer)
  PROVE  Lands
<1> DEFINE op == Head(session.fifo)
           c == op.cmd
           w == Done(World)
<1>1. /\ (session.asked = 0 => Alone(session)) /\ session.stage = "sending" /\ session.fifo # <<>>
      /\ session.fifo \in Seq(Entries)
  BY GoodSession, LoneWorld DEF SteerAnswered, Headed
<1>2. (session.asked = 0 => Going(session)) /\ c \in Commands
  BY <1>1, SteersTail DEF Alone, Going, Entries
<1>3. Lone(w, session.asked)
  BY <1>1, <1>2, DoneLone, WorldIs
<1>4. \/ Becomes(w)
      \/ Becomes(Accepted([w EXCEPT !.s.members = @ \cup {c}], c))
      \/ Becomes(Queue(w, c))
      \/ Becomes(Tell(w, {c}, "failed"))
  <2>1. Becomes(IF op.final THEN w
                ELSE CASE answer = "ok" -> Accepted([w EXCEPT !.s.members = @ \cup {c}], c)
                       [] answer = "busy" -> Queue(w, c)
                       [] answer = "refused" -> Tell(w, {c}, "failed"))
    BY Zenon DEF SteerAnswered
  <2> HIDE DEF w, c
  <2> QED BY <2>1
<1> HIDE DEF w, c
<1>5. Lone(Queue(w, c), session.asked) /\ Lone(Tell(w, {c}, "failed"), session.asked)
  BY <1>2, <1>3, QueueLone, TellLone DEF Statuses
<1>6. Lone(Accepted([w EXCEPT !.s.members = @ \cup {c}], c), session.asked)
  <2> DEFINE m == w.s.members \cup {c}
             x == [w.s EXCEPT !.members = m]
             u == [w EXCEPT !.s = x]
  <2>1. w.s \in Sessions
    BY <1>3, SessionType DEF Lone
  <2>2. m \in SUBSET Commands
    BY <1>2, <2>1 DEF Sessions
  <2>3. [w EXCEPT !.s.members = @ \cup {c}] = u
    OBVIOUS
  <2> HIDE DEF m
  <2>4. x \in Sessions /\ Resembles(x, w.s)
    BY <2>1, <2>2 DEF Sessions, Resembles
  <2> HIDE DEF x
  <2>5. Lone(u, session.asked)
    BY <1>3, <2>4, PutLone
  <2> HIDE DEF u
  <2>6. Accepted(u, c) \in Worlds /\ Resembles(Accepted(u, c).s, u.s)
    BY <2>5, AcceptedResembles DEF Lone
  <2> QED BY <2>3, <2>5, <2>6, ResemblesLone
<1> QED BY <1>3, <1>4, <1>5, <1>6 DEF Lands

LEMMA BoundaryAnsweredLands ==
  ASSUME NEW answer \in {"ok", "busy", "refused"}, Good(World), Lone(World, session.asked),
         BoundaryAnswered(answer)
  PROVE  Lands
<1> DEFINE s == session
           c == s.flush.cmd
           b == [World EXCEPT !.s.queue = <<c>> \o @, !.s.off = TRUE]
           a == [World EXCEPT !.s.members = @ \cup {c}]
           t == Tell(World, {c}, "failed")
<1>1. /\ s \in Sessions /\ World \in Worlds /\ s.queue \in Seq(Commands) /\ c \in Commands
  BY LoneWorld DEF BoundaryAnswered, Sessions, Offers
<1>2. \/ Becomes(FlushEnds(b)) \/ Becomes(Drain(Accepted(a, c)))
      \/ Becomes(Drain(t)) \/ Becomes(Drain(World))
  <2>1. Becomes(CASE answer = "busy" -> FlushEnds(b)
                  [] answer = "ok" /\ ~s.final -> Drain(Accepted(a, c))
                  [] answer = "refused" /\ ~s.final -> Drain(t)
                  [] OTHER -> Drain(World))
    BY Zenon DEF BoundaryAnswered
  <2> HIDE DEF a, b, c, t
  <2> QED BY <2>1
<1>3. Lone(FlushEnds(b), session.asked)
  <2> DEFINE q == <<c>> \o s.queue
             x == [s EXCEPT !.queue = q, !.off = TRUE]
             u == [World EXCEPT !.s = x]
  <2>1. b = u
    BY <1>1 DEF World, Sessions
  <2> HIDE DEF b
  <2>2. q \in Seq(Commands)
    BY <1>1, ConsSet
  <2> HIDE DEF q
  <2>3. x \in Sessions /\ Resembles(x, s)
    BY <1>1, <2>2 DEF Sessions, Resembles
  <2> HIDE DEF x
  <2>4. Lone(u, session.asked)
    BY <2>3, PutLone, WorldIs
  <2> QED BY <2>1, <2>4, FlushEndsLone
<1>4. Lone(Drain(Accepted(a, c)), session.asked)
  <2> DEFINE m == s.members \cup {c}
             x == [s EXCEPT !.members = m]
             u == [World EXCEPT !.s = x]
  <2>1. a = u
    BY <1>1 DEF World, Sessions
  <2> HIDE DEF a
  <2>2. m \in SUBSET Commands
    BY <1>1 DEF Sessions
  <2> HIDE DEF m
  <2>3. x \in Sessions /\ Resembles(x, s)
    BY <1>1, <2>2 DEF Sessions, Resembles
  <2> HIDE DEF x
  <2>4. Lone(u, session.asked)
    BY <2>3, PutLone, WorldIs
  <2> HIDE DEF u, c
  <2>5. Accepted(u, c) \in Worlds /\ Resembles(Accepted(u, c).s, u.s)
    BY <2>4, AcceptedResembles DEF Lone
  <2>6. Lone(Accepted(u, c), session.asked)
    BY <2>4, <2>5, ResemblesLone
  <2> QED BY <2>1, <2>6, DrainLone
<1>5. Lone(Drain(t), session.asked) /\ Lone(Drain(World), session.asked)
  <2>1. Lone(t, session.asked)
    BY TellLone DEF Statuses
  <2> HIDE DEF t
  <2> QED BY <2>1, DrainLone
<1> HIDE DEF a, b, c, t
<1> QED BY <1>2, <1>3, <1>4, <1>5 DEF Lands

\* A turn that ends was admitted: its prompt has left the lane.
LEMMA TurnEndsLands ==
  ASSUME Good(World), Lone(World, session.asked), TurnEnds
  PROVE  Lands
<1> DEFINE s == session
<1>1. /\ s \in Sessions /\ (s.asked = 0 => Alone(s)) /\ World \in Worlds /\ Phased(s)
      /\ ~ Ended(s) /\ 0 \notin s.chains /\ s.turn # NoTurn
  BY GoodSession, LoneWorld DEF TurnEnds, Listening
<1>2. CASE s.admission = Nobody /\ Becomes(CompleteTurn(World))
  <2> DEFINE v == CompleteTurn(World)
  <2>1. /\ v \in Worlds /\ v.s.state = "idle" /\ v.s.asked = s.asked
        /\ v.s.chains = s.chains \cup {Flushing} /\ Prompts(v.s.fifo) = Prompts(s.fifo)
    BY <1>1, CompleteTurnFields, WorldIs
  <2>2. Becomes(v)
    BY <1>2
  <2> HIDE DEF v
  <2>3. s.asked = 0 => Prompts(s.fifo) = {}
    BY <1>1, <1>2 DEF Phased, Alone, Ended
  <2>4. 0 \notin v.s.chains
    BY <1>1, <2>1 DEF Flushing
  <2>5. Lone(v, session.asked)
    BY <1>1, <2>1, <2>3, <2>4 DEF Lone, Alone
  <2> QED BY <2>2, <2>5 DEF Lands
<1>3. CASE Becomes([World EXCEPT !.s.early = TRUE])
  <2> DEFINE x == [s EXCEPT !.early = TRUE]
             v == [World EXCEPT !.s = x]
  <2>1. Becomes(v)
    BY <1>3 DEF World
  <2>2. x \in Sessions /\ Resembles(x, s)
    BY <1>1 DEF Sessions, Resembles
  <2> HIDE DEF x
  <2>3. Lone(v, session.asked)
    BY <2>2, PutLone, WorldIs
  <2> QED BY <2>1, <2>3 DEF Lands
<1> QED BY <1>2, <1>3 DEF TurnEnds

\* A session that is attached and has no turn is not starting: no prompt is at the lane.
LEMMA LateWorkLands ==
  ASSUME Good(World), Lone(World, session.asked), WorkAfterTerminal
  PROVE  Lands
<1> DEFINE s == session
<1>1. /\ s \in Sessions /\ (s.asked = 0 => Alone(s)) /\ World \in Worlds
      /\ ~ Ended(s) /\ s.turn = NoTurn /\ s.attached
      /\ s.last.turn \in Nat /\ s.last.members \in SUBSET Commands
  BY LoneWorld DEF WorkAfterTerminal, Listening, Sessions
<1>2. PICK free \in BOOLEAN, flushes \in BOOLEAN :
        LET w == [World EXCEPT !.s.turn = session.last.turn,
                               !.s.members = session.last.members,
                               !.s.state = "working", !.s.gate = free]
        IN  Becomes(IF flushes THEN FlushSafeBoundaryQueue(w) ELSE w)
  BY DEF WorkAfterTerminal
<1> DEFINE t == s.last.turn
           m == s.last.members
           x == [s EXCEPT !.turn = t, !.members = m, !.state = "working", !.gate = free]
           u == [World EXCEPT !.s = x]
<1>3. Becomes(IF flushes THEN FlushSafeBoundaryQueue(u) ELSE u)
  <2>1. [World EXCEPT !.s.turn = session.last.turn, !.s.members = session.last.members,
                      !.s.state = "working", !.s.gate = free] = u
    BY <1>1 DEF World, Sessions
  <2> QED BY <1>2, <2>1
<1>4. t \in Nat /\ m \in SUBSET Commands /\ (s.asked = 0 => Prompts(s.fifo) = {})
  BY <1>1 DEF Alone, Ended
<1> HIDE DEF t, m
<1>5. x \in Sessions /\ x.state = "working" /\ x.asked = s.asked /\ x.fifo = s.fifo
  BY <1>1, <1>2, <1>4 DEF Sessions, States
<1> HIDE DEF x
<1>6. u \in Worlds /\ u.s = x
  BY <1>1, <1>5, Put
<1> HIDE DEF u
<1>7. Lone(u, session.asked)
  BY <1>1, <1>4, <1>5, <1>6 DEF Lone, Alone
<1>8. Lone(FlushSafeBoundaryQueue(u), session.asked)
  BY <1>7, FlushLone
<1> QED BY <1>3, <1>7, <1>8 DEF Lands

LEMMA GateLands ==
  ASSUME Good(World), Lone(World, session.asked), GateCloses \/ GateOpens \/ RuntimeError
  PROVE  Lands
<1> DEFINE g(x) == [World EXCEPT !.s = x]
<1>1. session \in Sessions
  BY LoneWorld
<1>2. ASSUME NEW b \in BOOLEAN
      PROVE  Lone(g([session EXCEPT !.gate = b]), session.asked)
  <2> DEFINE x == [session EXCEPT !.gate = b]
  <2>1. x \in Sessions /\ Resembles(x, session)
    BY <1>1 DEF Sessions, Resembles
  <2> HIDE DEF x
  <2>2. Lone(g(x), session.asked)
    BY <2>1, PutLone, WorldIs
  <2> QED BY <2>2 DEF x
<1>3. CASE GateCloses
  <2>1. Becomes(g([session EXCEPT !.gate = FALSE]))
    BY <1>3 DEF GateCloses, World
  <2> QED BY <1>2, <2>1 DEF Lands
<1>4. CASE GateOpens
  <2> DEFINE u == g([session EXCEPT !.gate = TRUE])
  <2>1. Becomes(FlushSafeBoundaryQueue(u))
    BY <1>4 DEF GateOpens, World
  <2>2. Lone(u, session.asked)
    BY <1>2
  <2> HIDE DEF u
  <2> QED BY <2>1, <2>2, FlushLone DEF Lands
<1>5. CASE RuntimeError
  <2> DEFINE x == [session EXCEPT !.off = TRUE]
  <2>1. Becomes(g(x))
    BY <1>5 DEF RuntimeError, World
  <2>2. x \in Sessions /\ Resembles(x, session)
    BY <1>1 DEF Sessions, Resembles
  <2> HIDE DEF x
  <2>3. Lone(g(x), session.asked)
    BY <2>2, PutLone, WorldIs
  <2> QED BY <2>1, <2>3 DEF Lands
<1> QED BY <1>3, <1>4, <1>5

LEMMA LaneExitsLands ==
  ASSUME Good(World), Lone(World, session.asked), LaneExits
  PROVE  Lands
<1> DEFINE u == EnterStopping(World)
           x == [u.s EXCEPT !.closers = @ \cup {"exit"}]
           v == [u EXCEPT !.s = x, !.lane = "dead"]
<1>1. ~ Ended(session)
  BY GoodSession DEF LaneExits, Laned
<1>2. Lone(u, session.asked)
  BY StoppingLone
<1>3. Becomes(v)
  <2>1. Becomes([EnterStopping(World) EXCEPT !.lane = "dead", !.s.closers = @ \cup {"exit"}])
    BY <1>1, Zenon DEF LaneExits
  <2> HIDE DEF u
  <2>2. [u EXCEPT !.lane = "dead", !.s.closers = @ \cup {"exit"}] = v
    BY <1>2 DEF Worlds, Lone
  <2> QED BY <2>1, <2>2 DEF u
<1> HIDE DEF u
<1>4. u \in Worlds /\ u.s \in Sessions /\ "dead" \in Lanes
  BY <1>2, SessionType DEF Lone, Lanes
<1>5. x \in Sessions /\ Resembles(x, u.s)
  BY <1>4 DEF Sessions, Closers, Resembles
<1> HIDE DEF x
<1>6. v \in Worlds /\ v.s = x
  <2>1. u \in Worlds /\ x \in Sessions /\ "dead" \in Lanes
    BY <1>4, <1>5
  <2> QED BY <2>1 DEF Worlds
<1> HIDE DEF v
<1>7. Lone(v, session.asked)
  BY <1>2, <1>5, <1>6, ResemblesLone
<1> QED BY <1>3, <1>7 DEF Lands

LEMMA LaneStopsLands ==
  ASSUME Good(World), Lone(World, session.asked), LaneStops
  PROVE  Lands
<1> DEFINE v == [World EXCEPT !.lane = "dead"]
<1>1. Lone(v, session.asked)
  BY LaneLone DEF Lanes
<1>2. Becomes(v)
  BY DEF LaneStops, Becomes, World
<1> QED BY <1>1, <1>2 DEF Lands

LEMMA NextLands ==
  ASSUME Good(World), Lone(World, session.asked), Next, ~ UpdateSettings
  PROVE  Lands
<1>1. CASE \E c \in Commands : Start(c) \/ Send(c) \/ InputReturned(c)
  BY <1>1, StartLands, SendLands, ReturnedLands
<1>2. CASE Stop
  BY <1>2, StopLands
<1>3. CASE NextBegins \/ FlushAwaited \/ StartNextQueued \/ NothingQueued
  BY <1>3, NextBeginsLands, FlushAwaitedLands, StartNextLands, NothingQueuedLands
<1>4. CASE \E c \in session.closers : Settles(c)
  BY <1>4, SettlesLands
<1>5. CASE CleanupDone
  BY <1>5, CleanupLands
<1>6. CASE LaneAnswers
  <2>1. CASE LaneOpens \/ LaneFails
    BY <2>1, LaneOpensLands, LaneFailsLands
  <2>2. CASE \E ok \in BOOLEAN : PromptAnswered(ok) \/ UpdateAnswered(ok)
    BY <2>2, PromptAnsweredLands, UpdateAnsweredLands
  <2>3. CASE \E answer \in {"ok", "busy", "refused"} :
               SteerAnswered(answer) \/ BoundaryAnswered(answer)
    BY <2>3, SteerAnsweredLands, BoundaryAnsweredLands
  <2> QED BY <1>6, <2>1, <2>2, <2>3 DEF LaneAnswers
<1>7. CASE TurnEnds \/ WorkAfterTerminal
  BY <1>7, TurnEndsLands, LateWorkLands
<1>8. CASE GateCloses \/ GateOpens \/ RuntimeError
  BY <1>8, GateLands
<1>9. CASE LaneExits \/ LaneStops
  BY <1>9, LaneExitsLands, LaneStopsLands
<1> QED BY <1>1, <1>2, <1>3, <1>4, <1>5, <1>6, <1>7, <1>8, <1>9 DEF Next

\* An update that is asked for is counted.
LEMMA AsksCounted ==
  ASSUME Good(World), UpdateSettings
  PROVE  session'.asked # 0
<1> DEFINE s == session
           n == s.asked + 1
           x == [s EXCEPT !.asked = n, !.holds = TRUE]
           m == s.updates + 1
           y == [x EXCEPT !.updates = m]
           z == [x EXCEPT !.refused = TRUE]
           w == [World EXCEPT !.s = x]
<1>1. s \in Sessions /\ n \in Nat /\ n # 0
  BY GoodSession DEF Sessions
<1>2. [World EXCEPT !.s.asked = @ + 1, !.s.holds = TRUE] = w
  BY <1>1 DEF World, Sessions
<1>3. \/ Becomes(w) \/ Becomes([w EXCEPT !.s.updates = @ + 1])
      \/ Becomes([w EXCEPT !.s.refused = TRUE])
  <2>1. LET u == [World EXCEPT !.s.asked = @ + 1, !.s.holds = TRUE]
        IN  Becomes(CASE session.refused -> u
                      [] ~session.refused /\ session.attached -> [u EXCEPT !.s.updates = @ + 1]
                      [] ~session.refused /\ ~session.attached -> [u EXCEPT !.s.refused = TRUE])
    BY Zenon DEF UpdateSettings
  <2> HIDE DEF w
  <2> QED BY <1>1, <1>2, <2>1 DEF Sessions
<1>4. w.s = x /\ [w EXCEPT !.s.updates = @ + 1].s = y /\ [w EXCEPT !.s.refused = TRUE].s = z
  BY <1>1 DEF World, Sessions
<1> HIDE DEF w, n, m
<1>5. x.asked = n /\ y.asked = n /\ z.asked = n
  BY <1>1 DEF Sessions
<1>6. session' = x \/ session' = y \/ session' = z
  BY <1>3, <1>4, Zenon DEF Becomes
<1> QED BY <1>1, <1>5, <1>6

LEMMA StepAlone ==
  ASSUME Good(World), session.asked = 0 => Alone(session), [Next]_vars
  PROVE  (session.asked = 0 => Alone(session))'
<1>1. CASE UNCHANGED vars
  BY <1>1 DEF vars
<1>2. CASE UpdateSettings
  BY <1>2, AsksCounted
<1>3. CASE Next /\ ~ UpdateSettings
  <2>1. World \in Worlds /\ World.s = session
    BY WorldIs, GoodSession DEF Good, GoodBut
  <2>2. Lone(World, session.asked)
    BY <2>1 DEF Lone
  <2>3. PICK v : Lone(v, session.asked) /\ Becomes(v)
    BY <1>3, <2>2, NextLands DEF Lands
  <2> QED BY <2>3 DEF Lone, Becomes
<1> QED BY <1>1, <1>2, <1>3

LEMMA InitAlone ==
  ASSUME Init
  PROVE  Alone(session)
<1>1. session.fifo = <<>> /\ session.flush = Nobody /\ session.state = "new"
  BY DEF Init, Fresh
<1>2. Prompts(session.fifo) = {}
  BY <1>1 DEF Prompts
<1> QED BY <1>1, <1>2 DEF Alone

\* The lane is never given a prompt while it still has a command of the safe-boundary
\* queue, as long as no settings update was asked for.  A continuation that waits for an
\* update is no longer held back by a delivery that late work of the turn begins.
THEOREM PromptStaysAlone == Spec => []PromptWaits
<1>1. Good(World) /\ (session.asked = 0 => Alone(session)) => PromptWaits
  <2> SUFFICES ASSUME Good(World), Alone(session), session.stage = "sending",
                      Head(session.fifo).kind = "prompt"
               PROVE  session.flush = Nobody
    BY DEF PromptWaits, PromptIsAlone
  <2>1. session.fifo \in Seq(Entries) /\ session.fifo # <<>>
    BY GoodSession, SessionType DEF Headed
  <2>2. 1 \in Prompts(session.fifo)
    <3>1. /\ Head(session.fifo) = session.fifo[1] /\ DOMAIN session.fifo = 1..Len(session.fifo)
          /\ Len(session.fifo) \in Nat /\ Len(session.fifo) # 0
      BY <2>1, HeadTailProperties, LenProperties, EmptySeq
    <3> QED BY <3>1 DEF Prompts
  <2> QED BY <2>2 DEF Alone
<1>2. Init => (session.asked = 0 => Alone(session))
  BY InitAlone
<1>3. Good(World) /\ (session.asked = 0 => Alone(session)) /\ [Next]_vars
      => (session.asked = 0 => Alone(session))'
  BY StepAlone
<1> QED BY <1>1, <1>2, <1>3, Inductive, PTL DEF Spec
=============================================================================
