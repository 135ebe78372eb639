--------------------------- MODULE Custody_proofs ---------------------------
(***************************************************************************)
(* For every number of messages, restarts, stops and returns, and every    *)
(* kind of backend: no message that the daemon has taken over is lost      *)
(* (Custody), none is delivered twice (DeliveredOnce), what the manager    *)
(* believes of a session is what the session has (ViewsAgree), and nothing *)
(* waits with an idle agent but what a forced exit left (IdleIsEmpty).     *)
(***************************************************************************)
EXTENDS AgentManager_proofs, FiniteSetTheorems
-----------------------------------------------------------------------------
(* Sequences.                                                              *)

\* The places that are kept, in their order.
LEMMA AtPlaces ==
  ASSUME NEW S, NEW q \in Seq(S), NEW I \in SUBSET DOMAIN q
  PROVE  /\ Cardinality(I) \in Nat
         /\ \E f \in [1..Cardinality(I) -> I] :
               /\ At(q, I) = [k \in 1..Cardinality(I) |-> q[f[k]]]
               /\ \A i \in I : \E k \in 1..Cardinality(I) : f[k] = i
               /\ \A j, k \in 1..Cardinality(I) : f[j] = f[k] => j = k
<1> DEFINE n == Cardinality(I)
           Below(i) == {j \in I : j <= i}
           r == [i \in I |-> Cardinality(Below(i))]
           f == [k \in 1..n |-> CHOOSE i \in I : Cardinality({j \in I : j <= i}) = k]
<1>1. DOMAIN q = 1..Len(q) /\ Len(q) \in Nat
  BY LenProperties
<1>2. IsFiniteSet(I) /\ n \in Nat /\ I \subseteq Nat
  <2>1. IsFiniteSet(1..Len(q))
    BY <1>1, FS_Interval
  <2> QED BY <1>1, <2>1, FS_Subset, FS_CardinalityType
<1>3. \A i \in I : r[i] \in 1..n
  <2> SUFFICES ASSUME NEW i \in I PROVE Cardinality(Below(i)) \in 1..n
    OBVIOUS
  <2>1. Below(i) \in SUBSET I /\ i \in Below(i)
    BY <1>2
  <2>2. IsFiniteSet(Below(i)) /\ Cardinality(Below(i)) <= n
    BY <1>2, <2>1, FS_Subset
  <2>3. Cardinality(Below(i)) \in Nat /\ Cardinality(Below(i)) # 0
    BY <2>1, <2>2, FS_CardinalityType, FS_EmptySet
  <2> QED BY <1>2, <2>2, <2>3
<1>4. \A i, k \in I : r[i] = r[k] => i = k
  <2>1. ASSUME NEW i \in I, NEW k \in I, i < k PROVE r[i] # r[k]
    <3>1. Below(i) \in SUBSET Below(k) /\ k \in Below(k) /\ k \notin Below(i)
      BY <1>2, <2>1
    <3>2. IsFiniteSet(Below(k))
      BY <1>2, FS_Subset
    <3>3. Cardinality(Below(i)) # Cardinality(Below(k))
      BY <3>1, <3>2, FS_Subset
    <3> QED BY <3>3
  <2> TAKE i, k \in I
  <2>2. i \in Nat /\ k \in Nat
    BY <1>2
  <2>3. i = k \/ i < k \/ k < i
    BY <2>2
  <2> HIDE DEF r
  <2> QED BY <2>1, <2>3
<1>5. \A k \in 1..n : \E i \in I : r[i] = k
  <2>1. r \in Injection(I, 1..n)
    BY <1>3, <1>4 DEF Injection, IsInjective
  <2>2. IsFiniteSet(1..n) /\ Cardinality(1..n) = n
    BY <1>2, FS_Interval
  <2>3. r \in Surjection(I, 1..n)
    BY <2>1, <2>2, FS_Injection
  <2> QED BY <2>3 DEF Surjection
<1>6. \A k \in 1..n : f[k] \in I /\ r[f[k]] = k
  BY <1>5
<1>7. \A i \in I : f[r[i]] = i
  BY <1>3, <1>4, <1>6
<1>8. At(q, I) = [k \in 1..n |-> q[f[k]]]
  BY DEF At
<1> HIDE DEF f, r
<1>9. f \in [1..n -> I]
  BY <1>6 DEF f
<1> QED BY <1>2, <1>3, <1>6, <1>7, <1>8, <1>9

LEMMA AtIs ==
  ASSUME NEW S, NEW q \in Seq(S), NEW I \in SUBSET DOMAIN q
  PROVE  /\ At(q, I) \in Seq(S)
         /\ ToSet(At(q, I)) = {q[i] : i \in I}
         /\ IsInjective(q) => IsInjective(At(q, I))
<1> DEFINE n == Cardinality(I)
           p == At(q, I)
<1>1. n \in Nat
  BY AtPlaces
<1>2. PICK f \in [1..n -> I] : /\ p = [k \in 1..n |-> q[f[k]]]
                               /\ \A i \in I : \E k \in 1..n : f[k] = i
                               /\ \A j, k \in 1..n : f[j] = f[k] => j = k
  BY AtPlaces
<1> HIDE DEF p
<1>3. \A i \in I : q[i] \in S
  BY LenProperties, ElementOfSeq
<1>4. p \in Seq(S)
  BY <1>1, <1>2, <1>3, IsASeq
<1>5. ToSet(p) = {q[i] : i \in I}
  BY <1>2 DEF ToSet
<1>6. IsInjective(q) => IsInjective(p)
  BY <1>2 DEF IsInjective
<1> QED BY <1>4, <1>5, <1>6 DEF p

LEMMA MinusIs ==
  ASSUME NEW S, NEW q \in Seq(S), NEW D
  PROVE  /\ Minus(q, D) \in Seq(S)
         /\ ToSet(Minus(q, D)) = ToSet(q) \ D
         /\ IsInjective(q) => IsInjective(Minus(q, D))
<1> DEFINE I == {i \in DOMAIN q : q[i] \notin D}
<1>1. Minus(q, D) = At(q, I) /\ I \in SUBSET DOMAIN q
  BY DEF Minus
<1>2. {q[i] : i \in I} = ToSet(q) \ D
  BY DEF ToSet
<1> HIDE DEF I
<1> QED BY <1>1, <1>2, AtIs

LEMMA OnlyIs ==
  ASSUME NEW S, NEW q \in Seq(S), NEW D
  PROVE  /\ Only(q, D) \in Seq(S)
         /\ ToSet(Only(q, D)) = ToSet(q) \cap D
         /\ IsInjective(q) => IsInjective(Only(q, D))
<1> DEFINE I == {i \in DOMAIN q : q[i] \in D}
<1>1. Only(q, D) = At(q, I) /\ I \in SUBSET DOMAIN q
  BY DEF Only
<1>2. {q[i] : i \in I} = ToSet(q) \cap D
  BY DEF ToSet
<1> HIDE DEF I
<1> QED BY <1>1, <1>2, AtIs

LEMMA ReverseIs ==
  ASSUME NEW S, NEW q \in Seq(S)
  PROVE  /\ Reverse(q) \in Seq(S)
         /\ ToSet(Reverse(q)) = ToSet(q)
         /\ IsInjective(q) => IsInjective(Reverse(q))
<1> DEFINE p == Reverse(q)
           n == Len(q)
<1>1. n \in Nat /\ DOMAIN q = 1..n /\ \A i \in 1..n : q[i] \in S
  BY LenProperties, ElementOfSeq
<1>2. p = [i \in 1..n |-> q[(n - i) + 1]]
  BY DEF Reverse
<1>3. \A i \in 1..n : (n - i) + 1 \in 1..n /\ n - ((n - i) + 1) + 1 = i
  BY <1>1
<1> HIDE DEF p, n
<1>4. p \in Seq(S)
  BY <1>1, <1>2, <1>3, IsASeq
<1>5. ToSet(p) = ToSet(q)
  <2>1. \A i \in 1..n : p[i] = q[(n - i) + 1] /\ p[(n - i) + 1] = q[i]
    BY <1>2, <1>3
  <2>2. DOMAIN p = 1..n
    BY <1>2
  <2> QED BY <1>1, <1>3, <2>1, <2>2 DEF ToSet
<1>6. IsInjective(q) => IsInjective(p)
  BY <1>1, <1>2, <1>3 DEF IsInjective
<1> QED BY <1>4, <1>5, <1>6 DEF p

LEMMA ConcatIs ==
  ASSUME NEW S, NEW p \in Seq(S), NEW q \in Seq(S)
  PROVE  /\ p \o q \in Seq(S)
         /\ ToSet(p \o q) = ToSet(p) \cup ToSet(q)
         /\ IsInjective(p) /\ IsInjective(q) /\ ToSet(p) \cap ToSet(q) = {} =>
               IsInjective(p \o q)
<1> DEFINE c == p \o q
           m == Len(p)
           n == Len(q)
<1>1. m \in Nat /\ n \in Nat /\ DOMAIN p = 1..m /\ DOMAIN q = 1..n
  BY LenProperties
<1>2. c \in Seq(S) /\ Len(c) = m + n
      /\ \A i \in 1..(m + n) : c[i] = IF i <= m THEN p[i] ELSE q[i - m]
  BY ConcatProperties
<1>3. DOMAIN c = 1..(m + n)
  BY <1>2, LenProperties
<1> HIDE DEF c, m, n
<1>4. \A i \in 1..m : i \in 1..(m + n) /\ c[i] = p[i]
  BY <1>1, <1>2
<1>5. \A i \in 1..n : i + m \in 1..(m + n) /\ c[i + m] = q[i]
  BY <1>1, <1>2
<1>6. \A k \in 1..(m + n) : k \in 1..m \/ (k - m \in 1..n /\ c[k] = q[k - m] /\ k > m)
  BY <1>1, <1>2
<1>7. ToSet(c) = ToSet(p) \cup ToSet(q)
  <2>1. \A i \in 1..(m + n) : c[i] \in ToSet(p) \cup ToSet(q)
    BY <1>1, <1>4, <1>6 DEF ToSet
  <2>2. \A i \in 1..m : p[i] \in ToSet(c)
    BY <1>3, <1>4 DEF ToSet
  <2>3. \A i \in 1..n : q[i] \in ToSet(c)
    BY <1>3, <1>5 DEF ToSet
  <2> QED BY <1>1, <1>3, <2>1, <2>2, <2>3 DEF ToSet
<1>8. ASSUME IsInjective(p), IsInjective(q), ToSet(p) \cap ToSet(q) = {} PROVE IsInjective(c)
  <2> SUFFICES ASSUME NEW i \in 1..(m + n), NEW j \in 1..(m + n), c[i] = c[j] PROVE i = j
    BY <1>3 DEF IsInjective
  <2>1. CASE i \in 1..m /\ j \in 1..m
    BY <1>1, <1>4, <1>8, <2>1 DEF IsInjective
  <2>2. CASE i \notin 1..m /\ j \notin 1..m
    <3>1. i - m = j - m
      BY <1>1, <1>6, <1>8, <2>2 DEF IsInjective
    <3> QED BY <1>1, <3>1
  <2>3. ASSUME NEW k \in 1..m, NEW l \in 1..(m + n), l \notin 1..m PROVE c[k] # c[l]
    <3>1. c[k] \in ToSet(p)
      BY <1>1, <1>4 DEF ToSet
    <3>2. c[l] \in ToSet(q)
      BY <1>1, <1>6, <2>3 DEF ToSet
    <3> QED BY <1>8, <3>1, <3>2
  <2> QED BY <2>1, <2>2, <2>3
<1> QED BY <1>2, <1>7, <1>8 DEF c

LEMMA AppendIs ==
  ASSUME NEW S, NEW q \in Seq(S), NEW x \in S
  PROVE  /\ Append(q, x) \in Seq(S)
         /\ ToSet(Append(q, x)) = ToSet(q) \cup {x}
         /\ IsInjective(q) /\ x \notin ToSet(q) => IsInjective(Append(q, x))
<1>1. <<x>> \in Seq(S) /\ ToSet(<<x>>) = {x} /\ IsInjective(<<x>>)
  <2>1. <<x>> \in Seq(S) /\ DOMAIN <<x>> = {1} /\ <<x>>[1] = x
    OBVIOUS
  <2> QED BY <2>1 DEF ToSet, IsInjective
<1>2. Append(q, x) = q \o <<x>>
  BY AppendIsConcat
<1> DEFINE p == <<x>>
<1> HIDE DEF p
<1>3. /\ q \o p \in Seq(S) /\ ToSet(q \o p) = ToSet(q) \cup ToSet(p)
      /\ IsInjective(q) /\ IsInjective(p) /\ ToSet(q) \cap ToSet(p) = {} => IsInjective(q \o p)
  BY <1>1, ConcatIs DEF p
<1> QED BY <1>1, <1>2, <1>3 DEF p

LEMMA SingletonIs ==
  ASSUME NEW S, NEW x \in S
  PROVE  <<x>> \in Seq(S) /\ ToSet(<<x>>) = {x} /\ IsInjective(<<x>>)
<1>1. <<x>> \in Seq(S) /\ DOMAIN <<x>> = {1} /\ <<x>>[1] = x
  OBVIOUS
<1> QED BY <1>1 DEF ToSet, IsInjective

LEMMA EmptyIs ==
  ASSUME NEW S
  PROVE  <<>> \in Seq(S) /\ ToSet(<<>>) = {} /\ IsInjective(<<>>)
<1>1. DOMAIN <<>> = {}
  OBVIOUS
<1> QED BY <1>1 DEF ToSet, IsInjective

LEMMA NothingIs ==
  ASSUME NEW S, NEW q \in Seq(S), ToSet(q) = {}
  PROVE  q = <<>>
<1>1. Len(q) \in Nat /\ DOMAIN q = 1..Len(q)
  BY LenProperties
<1>2. \A i \in 1..Len(q) : q[i] \in ToSet(q)
  BY <1>1 DEF ToSet
<1>3. Len(q) = 0
  BY <1>1, <1>2
<1> QED BY <1>3, EmptySeq

LEMMA TailIs ==
  ASSUME NEW S, NEW q \in Seq(S), q # <<>>
  PROVE  /\ Head(q) \in S /\ Tail(q) \in Seq(S)
         /\ ToSet(q) = {Head(q)} \cup ToSet(Tail(q))
         /\ IsInjective(q) => IsInjective(Tail(q)) /\ Head(q) \notin ToSet(Tail(q))
<1> DEFINE t == Tail(q)
           n == Len(q)
<1>1. /\ Head(q) = q[1] /\ Head(q) \in S /\ t \in Seq(S) /\ Len(t) = n - 1
      /\ \A i \in 1..(n - 1) : t[i] = q[i + 1]
  BY HeadTailProperties
<1>2. n \in Nat \ {0} /\ DOMAIN q = 1..n /\ DOMAIN t = 1..(n - 1)
  BY <1>1, LenProperties, EmptySeq
<1> HIDE DEF t, n
<1>3. \A i \in 1..n : i = 1 \/ (i - 1 \in 1..(n - 1) /\ t[i - 1] = q[i])
  BY <1>1, <1>2
<1>4. \A i \in 1..(n - 1) : i + 1 \in 1..n /\ i + 1 # 1
  BY <1>2
<1>5. ToSet(q) = {Head(q)} \cup ToSet(t)
  <2>1. ToSet(q) \subseteq {Head(q)} \cup ToSet(t)
    <3>1. \A i \in 1..n : q[i] = Head(q) \/ q[i] \in ToSet(t)
      BY <1>1, <1>2, <1>3 DEF ToSet
    <3> QED BY <1>2, <3>1 DEF ToSet
  <2>2. 1 \in DOMAIN q
    BY <1>2
  <2>3. Head(q) \in ToSet(q)
    BY <1>1, <2>2 DEF ToSet
  <2>4. ToSet(t) \subseteq ToSet(q)
    BY <1>1, <1>2, <1>4 DEF ToSet
  <2> QED BY <2>1, <2>3, <2>4
<1>6. ASSUME IsInjective(q) PROVE IsInjective(t) /\ Head(q) \notin ToSet(t)
  <2>1. IsInjective(t)
    <3> SUFFICES ASSUME NEW i \in 1..(n - 1), NEW j \in 1..(n - 1), t[i] = t[j] PROVE i = j
      BY <1>2 DEF IsInjective
    <3>1. i + 1 = j + 1
      BY <1>1, <1>2, <1>4, <1>6 DEF IsInjective
    <3> QED BY <1>2, <3>1
  <2>2. 1 \in DOMAIN q
    BY <1>2
  <2>3. \A i \in 1..(n - 1) : t[i] # Head(q)
    BY <1>1, <1>2, <1>4, <1>6, <2>2 DEF IsInjective
  <2> QED BY <1>2, <2>1, <2>3 DEF ToSet
<1> QED BY <1>1, <1>5, <1>6 DEF t
-----------------------------------------------------------------------------
(* Types.                                                                  *)

Entries == [msg : Messages, acked : BOOLEAN, requeue : BOOLEAN]

AgentStates ==
    [status : {"idle", "starting", "running", "stopping"}, inbox : Seq(Messages),
     epoch : Nat, lease : {"detached", "none", "terminal", "active", "suspect"},
     pending : Seq(Entries), idle : BOOLEAN, resetting : BOOLEAN]

HeldStates ==
    [turn : {"none", "starting", "working"}, root : Messages \cup {None},
     queue : Seq(Messages), steering : SUBSET Messages, taken : SUBSET Messages]

OwnerStates ==
    [phase : {"opening", "open", "stopping", "crashed", "ended", "gone"},
     first : Messages, delivery : {"steer", "boundary", "next_turn"},
     established : BOOLEAN, reported : BOOLEAN, superseded : BOOLEAN, discard : BOOLEAN,
     torndown : BOOLEAN, receipt : {"none", "due", "timed"}, ended : BOOLEAN,
     held : HeldStates]

Worlds == [agent : AgentStates, owners : Seq(OwnerStates), current : Nat,
           fate : [Messages -> Fates]]
-----------------------------------------------------------------------------
(* The agent: what waits in the inbox, what is admitted, what is given back. *)

In(a) == ToSet(a.inbox)

\* Nothing is in the inbox twice, admitted twice, or in both.
Neat(a) ==
    /\ IsInjective(a.inbox)
    /\ \A i, j \in DOMAIN a.pending : a.pending[i].msg = a.pending[j].msg => i = j
    /\ In(a) \cap Admissions(a) = {}

\* An operator of the reducer turns a into b, which has these messages.
Shows(b, a, inbox, admissions, recoverable) ==
    /\ b \in AgentStates /\ Neat(b)
    /\ In(b) = inbox /\ Admissions(b) = admissions /\ Recoverable(b) = recoverable
    /\ b.status = a.status /\ b.epoch = a.epoch
    /\ b.lease = a.lease /\ b.resetting = a.resetting

\* What is admitted are messages, and what is given back is admitted.
LEMMA AgentHas ==
  ASSUME NEW a \in AgentStates
  PROVE  /\ In(a) \subseteq Messages /\ Recoverable(a) \subseteq Admissions(a)
         /\ Admissions(a) \subseteq Messages
         /\ Kept(a) = In(a) \cup Recoverable(a)
         /\ a.inbox \in Seq(Messages) /\ a.pending \in Seq(Entries)
         /\ \A i \in DOMAIN a.pending : a.pending[i] \in Entries
<1>1. a.inbox \in Seq(Messages) /\ a.pending \in Seq(Entries)
  BY DEF AgentStates
<1>2. \A i \in DOMAIN a.inbox : a.inbox[i] \in Messages
  BY <1>1, LenProperties, ElementOfSeq
<1>3. \A i \in DOMAIN a.pending : a.pending[i] \in Entries
  BY <1>1, LenProperties, ElementOfSeq
<1>4. Recoverable(a) \subseteq Admissions(a)
  BY DEF Recoverable, Admissions
<1>5. Admissions(a) \subseteq Messages
  BY <1>3 DEF Admissions, Entries
<1> QED BY <1>1, <1>2, <1>3, <1>4, <1>5 DEF In, ToSet, Kept

\* What is empty has nothing, and the other way round.
LEMMA AgentEmpty ==
  ASSUME NEW a \in AgentStates
  PROVE  /\ a.inbox = <<>> <=> In(a) = {}
         /\ a.pending = <<>> <=> Admissions(a) = {}
<1>1. a.inbox \in Seq(Messages) /\ a.pending \in Seq(Entries)
  BY AgentHas
<1>2. a.inbox = <<>> => In(a) = {}
  BY EmptyIs DEF In
<1>3. In(a) = {} => a.inbox = <<>>
  BY <1>1, NothingIs DEF In
<1>4. a.pending = <<>> => Admissions(a) = {}
  <2>1. DOMAIN <<>> = {}
    OBVIOUS
  <2> QED BY <2>1 DEF Admissions
<1>5. Admissions(a) = {} => a.pending = <<>>
  <2> HAVE Admissions(a) = {}
  <2>1. \A i \in DOMAIN a.pending : a.pending[i].msg \in Admissions(a)
    BY DEF Admissions
  <2>2. DOMAIN a.pending = {}
    BY <2>1
  <2>3. ToSet(a.pending) = {}
    BY <2>2 DEF ToSet
  <2> QED BY <1>1, <2>3, NothingIs
<1> QED BY <1>2, <1>3, <1>4, <1>5

\* A change that leaves inbox and admissions alone.
LEMMA FlagsChange ==
  ASSUME NEW a \in AgentStates, Neat(a), NEW b \in AgentStates,
         b.inbox = a.inbox, b.pending = a.pending
  PROVE  /\ Neat(b) /\ In(b) = In(a) /\ Admissions(b) = Admissions(a)
         /\ Recoverable(b) = Recoverable(a)
BY DEF Neat, In, Admissions, Recoverable

\* A change of the inbox.
LEMMA InboxChange ==
  ASSUME NEW a \in AgentStates, Neat(a), NEW q \in Seq(Messages), IsInjective(q),
         ToSet(q) \cap Admissions(a) = {}, NEW k \in BOOLEAN
  PROVE  Shows([a EXCEPT !.inbox = q, !.idle = k], a, ToSet(q), Admissions(a), Recoverable(a))
<1> DEFINE b == [a EXCEPT !.inbox = q, !.idle = k]
<1>1. b \in AgentStates /\ b.inbox = q /\ b.pending = a.pending
      /\ b.status = a.status /\ b.epoch = a.epoch /\ b.lease = a.lease
      /\ b.resetting = a.resetting
  BY DEF AgentStates
<1> HIDE DEF b
<1>2. Admissions(b) = Admissions(a) /\ Recoverable(b) = Recoverable(a) /\ In(b) = ToSet(q)
  BY <1>1 DEF Admissions, Recoverable, In
<1>3. Neat(b)
  BY <1>1, <1>2 DEF Neat
<1> QED BY <1>1, <1>2, <1>3 DEF Shows, b

\* A change of the admissions.
LEMMA PendingChange ==
  ASSUME NEW a \in AgentStates, Neat(a), NEW p \in Seq(Entries), NEW k \in BOOLEAN,
         \A i, j \in DOMAIN p : p[i].msg = p[j].msg => i = j,
         NEW adm, adm = {p[i].msg : i \in DOMAIN p}, adm \cap In(a) = {},
         NEW rec, rec = {p[i].msg : i \in {j \in DOMAIN p : p[j].requeue}}
  PROVE  Shows([a EXCEPT !.pending = p, !.idle = k], a, In(a), adm, rec)
<1> DEFINE b == [a EXCEPT !.pending = p, !.idle = k]
<1>1. b \in AgentStates /\ b.inbox = a.inbox /\ b.pending = p
      /\ b.status = a.status /\ b.epoch = a.epoch /\ b.lease = a.lease
      /\ b.resetting = a.resetting
  BY DEF AgentStates
<1> HIDE DEF b
<1>2. Admissions(b) = adm /\ Recoverable(b) = rec /\ In(b) = In(a)
  BY <1>1 DEF Admissions, Recoverable, In
<1>3. Neat(b)
  BY <1>1, <1>2 DEF Neat
<1> QED BY <1>1, <1>2, <1>3 DEF Shows, b

\* queue_delivery: a batch that is not admitted joins the inbox.
LEMMA QueueDeliveryIs ==
  ASSUME NEW a \in AgentStates, Neat(a), NEW q \in Seq(Messages), IsInjective(q),
         ToSet(q) \cap Admissions(a) = {}
  PROVE  Shows(QueueDelivery(a, q), a, In(a) \cup ToSet(q), Admissions(a), Recoverable(a))
<1> DEFINE r == Minus(a.inbox, ToSet(q))
           s == q \o r
<1>1. a.inbox \in Seq(Messages)
  BY AgentHas
<1>2. r \in Seq(Messages) /\ ToSet(r) = In(a) \ ToSet(q) /\ IsInjective(r)
  BY <1>1, MinusIs DEF Neat, In
<1> HIDE DEF r
<1>3. s \in Seq(Messages) /\ ToSet(s) = ToSet(q) \cup ToSet(r) /\ IsInjective(s)
  BY <1>2, ConcatIs
<1>4. QueueDelivery(a, q) = [a EXCEPT !.inbox = s, !.idle = FALSE]
  BY DEF QueueDelivery, r
<1> HIDE DEF s
<1>5. ToSet(s) = In(a) \cup ToSet(q)
  BY <1>2, <1>3
<1>6. ToSet(s) \cap Admissions(a) = {}
  BY <1>5 DEF Neat
<1> QED BY <1>3, <1>4, <1>5, <1>6, InboxChange

\* delivery_rejected of several messages: they join the inbox.
LEMMA DeliveriesRejectedIs ==
  ASSUME NEW a \in AgentStates, Neat(a), NEW q \in Seq(Messages), IsInjective(q),
         ToSet(q) \cap Admissions(a) = {}
  PROVE  Shows(DeliveriesRejected(a, q), a, In(a) \cup ToSet(q), Admissions(a), Recoverable(a))
<1> DEFINE r == Minus(q, ToSet(a.inbox))
           t == Reverse(r)
           s == t \o a.inbox
           k == a.idle /\ q = <<>>
<1>1. a.inbox \in Seq(Messages) /\ k \in BOOLEAN
  BY AgentHas DEF AgentStates
<1>2. r \in Seq(Messages) /\ ToSet(r) = ToSet(q) \ In(a) /\ IsInjective(r)
  BY MinusIs DEF In
<1> HIDE DEF r
<1>3. t \in Seq(Messages) /\ ToSet(t) = ToSet(q) \ In(a) /\ IsInjective(t)
  BY <1>2, ReverseIs
<1> HIDE DEF t
<1>4. s \in Seq(Messages) /\ ToSet(s) = ToSet(t) \cup In(a) /\ IsInjective(s)
  <2>1. ToSet(t) \cap ToSet(a.inbox) = {} /\ IsInjective(a.inbox)
    BY <1>3 DEF Neat, In
  <2> QED BY <1>1, <1>3, <2>1, ConcatIs DEF In
<1>5. DeliveriesRejected(a, q) = [a EXCEPT !.inbox = s, !.idle = k]
  BY DEF DeliveriesRejected, r, t, s, k
<1> HIDE DEF s, k
<1>6. ToSet(s) = In(a) \cup ToSet(q)
  BY <1>3, <1>4
<1>7. ToSet(s) \cap Admissions(a) = {}
  BY <1>6 DEF Neat
<1> QED BY <1>1, <1>4, <1>5, <1>6, <1>7, InboxChange

\* The requeue_delivery effects of admissions: those that ask for it join the inbox.
LEMMA RecoverIs ==
  ASSUME NEW a \in AgentStates, Neat(a), NEW p \in Seq(Entries),
         \A i, j \in DOMAIN p : p[i].msg = p[j].msg => i = j,
         NEW D, D = {p[i].msg : i \in {j \in DOMAIN p : p[j].requeue}},
         D \cap Admissions(a) = {}
  PROVE  Shows(Recover(a, p), a, In(a) \cup D, Admissions(a), Recoverable(a))
<1> DEFINE I == {i \in DOMAIN p : p[i].requeue}
           n == Cardinality(I)
           g == At(p, I)
           q == [i \in DOMAIN g |-> g[i].msg]
<1>1. I \in SUBSET DOMAIN p
  OBVIOUS
<1>2. n \in Nat
  BY <1>1, AtPlaces
<1>3. PICK f \in [1..n -> I] : /\ g = [k \in 1..n |-> p[f[k]]]
                               /\ \A i \in I : \E k \in 1..n : f[k] = i
                               /\ \A j, k \in 1..n : f[j] = f[k] => j = k
  <2> HIDE DEF I
  <2> QED BY <1>1, AtPlaces
<1>4. \A i \in DOMAIN p : p[i] \in Entries
  BY LenProperties, ElementOfSeq
<1>5. Recover(a, p) = DeliveriesRejected(a, q)
  BY DEF Recover
<1> HIDE DEF g, n
<1>6. q = [k \in 1..n |-> p[f[k]].msg]
  BY <1>3
<1>7. \A k \in 1..n : f[k] \in DOMAIN p /\ q[k] = p[f[k]].msg /\ q[k] \in Messages
  BY <1>1, <1>3, <1>4, <1>6 DEF Entries
<1> HIDE DEF q
<1>8. q \in Seq(Messages)
  <2>1. q = [k \in 1..n |-> q[k]]
    BY <1>6
  <2> QED BY <1>2, <1>7, <2>1, IsASeq
<1>9. IsInjective(q)
  BY <1>3, <1>6, <1>7 DEF IsInjective
<1>10. DOMAIN q = 1..n
  BY <1>6
<1>11. ToSet(q) = D
  <2>1. \A k \in 1..n : q[k] \in D
    BY <1>3, <1>7
  <2>2. \A i \in I : \E k \in 1..n : q[k] = p[i].msg
    BY <1>3, <1>7
  <2> HIDE DEF I
  <2>3. D = {p[i].msg : i \in I}
    BY DEF I
  <2>4. ToSet(q) = {q[k] : k \in 1..n}
    BY <1>10 DEF ToSet
  <2>5. \A i \in I : p[i].msg \in ToSet(q)
    BY <2>2, <2>4
  <2>6. \A d \in ToSet(q) : d \in D
    BY <2>1, <2>4
  <2>7. ASSUME NEW d \in D PROVE d \in ToSet(q)
    <3>1. PICK i \in I : d = p[i].msg
      BY <2>3
    <3> QED BY <2>5, <3>1
  <2> QED BY <2>6, <2>7
<1> QED BY <1>5, <1>8, <1>9, <1>11, DeliveriesRejectedIs
\* A message joins the inbox (wake, rewake).
LEMMA WakesIs ==
  ASSUME NEW a \in AgentStates, Neat(a), NEW m \in Messages, m \notin In(a) \cup Admissions(a)
  PROVE  /\ Shows(Wakes(a, m), a, In(a) \cup {m}, Admissions(a), Recoverable(a))
         /\ Shows(Rewake(a, m), a, In(a) \cup {m}, Admissions(a), Recoverable(a))
<1> DEFINE s == Append(a.inbox, m)
<1>1. a.inbox \in Seq(Messages)
  BY AgentHas
<1>2. s \in Seq(Messages) /\ ToSet(s) = In(a) \cup {m} /\ IsInjective(s)
  BY <1>1, AppendIs DEF In, Neat
<1>3. Wakes(a, m) = [a EXCEPT !.inbox = s, !.idle = FALSE] /\ Rewake(a, m) = Wakes(a, m)
  BY DEF Wakes, Rewake
<1> HIDE DEF s
<1>4. ToSet(s) \cap Admissions(a) = {}
  BY <1>2 DEF Neat
<1>5. Shows([a EXCEPT !.inbox = s, !.idle = FALSE], a, ToSet(s), Admissions(a), Recoverable(a))
  <2>1. FALSE \in BOOLEAN
    OBVIOUS
  <2> QED BY <1>2, <1>4, <2>1, InboxChange
<1> QED BY <1>2, <1>3, <1>5

\* Everything leaves the inbox, to be sent or to start a session.
LEMMA DrainedIs ==
  ASSUME NEW a \in AgentStates, Neat(a)
  PROVE  Shows(Drained(a), a, {}, Admissions(a), Recoverable(a))
<1> DEFINE b == Drained(a)
<1>1. /\ b \in AgentStates /\ b.inbox = <<>> /\ b.pending = a.pending
      /\ b.status = a.status /\ b.epoch = a.epoch /\ b.lease = a.lease
      /\ b.resetting = a.resetting
  BY EmptyIs DEF AgentStates, Drained
<1> HIDE DEF b
<1>2. Admissions(b) = Admissions(a) /\ Recoverable(b) = Recoverable(a) /\ In(b) = {}
  BY <1>1, EmptyIs DEF Admissions, Recoverable, In
<1>3. Neat(b)
  BY <1>1, <1>2, EmptyIs DEF Neat
<1> QED BY <1>1, <1>2, <1>3 DEF Shows, b

\* New admissions join the pending ones.
LEMMA AdmitsIs ==
  ASSUME NEW a \in AgentStates, Neat(a), NEW e \in Seq(Entries), NEW k \in BOOLEAN,
         \A i, j \in DOMAIN e : e[i].msg = e[j].msg => i = j,
         NEW E, E = {e[i].msg : i \in DOMAIN e}, E \cap Admissions(a) = {}, E \cap In(a) = {},
         NEW R, R = {e[i].msg : i \in {j \in DOMAIN e : e[j].requeue}}
  PROVE  Shows([a EXCEPT !.pending = @ \o e, !.idle = k], a,
               In(a), Admissions(a) \cup E, Recoverable(a) \cup R)
<1> DEFINE p == a.pending
           c == p \o e
           m == Len(p)
           n == Len(e)
<1>1. p \in Seq(Entries)
  BY AgentHas
<1>2. m \in Nat /\ n \in Nat /\ DOMAIN p = 1..m /\ DOMAIN e = 1..n
  BY <1>1, LenProperties
<1>3. c \in Seq(Entries) /\ Len(c) = m + n
      /\ \A i \in 1..(m + n) : c[i] = IF i <= m THEN p[i] ELSE e[i - m]
  BY <1>1, ConcatProperties
<1>4. DOMAIN c = 1..(m + n)
  BY <1>3, LenProperties
<1>5. [a EXCEPT !.pending = @ \o e, !.idle = k] = [a EXCEPT !.pending = c, !.idle = k]
  OBVIOUS
<1> HIDE DEF c, m, n
<1>6. \A i \in 1..m : i \in 1..(m + n) /\ c[i] = p[i]
  BY <1>2, <1>3
<1>7. \A i \in 1..n : i + m \in 1..(m + n) /\ c[i + m] = e[i]
  BY <1>2, <1>3
<1>8. \A i \in 1..(m + n) : i \in 1..m \/ (i - m \in 1..n /\ c[i] = e[i - m] /\ i > m)
  BY <1>2, <1>3
<1> DEFINE adm == {c[i].msg : i \in DOMAIN c}
           rec == {c[i].msg : i \in {j \in DOMAIN c : c[j].requeue}}
<1>9. adm = Admissions(a) \cup E
  <2>1. \A i \in 1..m : p[i].msg \in adm
    BY <1>4, <1>6
  <2>2. \A i \in 1..n : e[i].msg \in adm
    BY <1>4, <1>7
  <2>3. \A i \in 1..(m + n) : c[i].msg \in Admissions(a) \cup E
    BY <1>2, <1>6, <1>8 DEF Admissions
  <2>4. adm \subseteq Admissions(a) \cup E
    BY <1>4, <2>3
  <2> HIDE DEF adm
  <2>5. Admissions(a) \subseteq adm
    BY <1>2, <2>1 DEF Admissions
  <2>6. E \subseteq adm
    BY <1>2, <2>2
  <2> QED BY <2>4, <2>5, <2>6
<1>10. rec = Recoverable(a) \cup R
  <2>1. \A i \in 1..m : p[i].requeue => p[i].msg \in rec
    BY <1>4, <1>6
  <2>2. \A i \in 1..n : e[i].requeue => e[i].msg \in rec
    BY <1>4, <1>7
  <2>3. \A i \in 1..(m + n) : c[i].requeue => c[i].msg \in Recoverable(a) \cup R
    BY <1>2, <1>6, <1>8 DEF Recoverable
  <2>4. rec \subseteq Recoverable(a) \cup R
    BY <1>4, <2>3
  <2> HIDE DEF rec
  <2>5. Recoverable(a) \subseteq rec
    BY <1>2, <2>1 DEF Recoverable
  <2>6. R \subseteq rec
    BY <1>2, <2>2
  <2> QED BY <2>4, <2>5, <2>6
<1>11. \A i, j \in DOMAIN c : c[i].msg = c[j].msg => i = j
  <2> SUFFICES ASSUME NEW i \in 1..(m + n), NEW j \in 1..(m + n), c[i].msg = c[j].msg
               PROVE  i = j
    BY <1>4
  <2>1. CASE i \in 1..m /\ j \in 1..m
    BY <1>2, <1>6, <2>1 DEF Neat
  <2>2. CASE i \notin 1..m /\ j \notin 1..m
    <3>1. i - m = j - m
      BY <1>2, <1>8, <2>2
    <3> QED BY <1>2, <3>1
  <2>3. ASSUME NEW x \in 1..m, NEW l \in 1..(m + n), l \notin 1..m
        PROVE c[x].msg # c[l].msg
    <3>1. c[x].msg \in Admissions(a)
      BY <1>2, <1>6 DEF Admissions
    <3>2. c[l].msg \in E
      BY <1>2, <1>8, <2>3
    <3> QED BY <3>1, <3>2
  <2> QED BY <2>1, <2>2, <2>3
<1>12. adm \cap In(a) = {}
  BY <1>9 DEF Neat
<1> HIDE DEF adm, rec
<1>13. Shows([a EXCEPT !.pending = c, !.idle = k], a, In(a), adm, rec)
  BY <1>3, <1>11, <1>12, PendingChange DEF adm, rec
<1> QED BY <1>5, <1>9, <1>10, <1>13

\* admission_started of messages that will be given back if they fail,
LEMMA AdmissionsStartedIs ==
  ASSUME NEW a \in AgentStates, Neat(a), NEW q \in Seq(Messages), IsInjective(q), NEW D,
         ToSet(q) \cap (In(a) \cup Admissions(a)) = {}
  PROVE  Shows(AdmissionsStarted(a, q, D, TRUE), a,
               In(a), Admissions(a) \cup ToSet(q), Recoverable(a) \cup ToSet(q))
<1> DEFINE r == Minus(q, Admissions(a))
           e == [i \in DOMAIN r |-> [msg |-> r[i], acked |-> r[i] \in D, requeue |-> TRUE]]
           k == a.idle /\ r = <<>>
<1>1. r \in Seq(Messages) /\ ToSet(r) = ToSet(q) /\ IsInjective(r)
  <2>1. r \in Seq(Messages) /\ ToSet(r) = ToSet(q) \ Admissions(a) /\ IsInjective(r)
    BY MinusIs
  <2>2. ToSet(q) \ Admissions(a) = ToSet(q)
    OBVIOUS
  <2> QED BY <2>1, <2>2
<1>2. AdmissionsStarted(a, q, D, TRUE) = [a EXCEPT !.pending = @ \o e, !.idle = k]
  BY DEF AdmissionsStarted
<1>3. k \in BOOLEAN
  BY DEF AgentStates
<1> HIDE DEF r, k
<1>4. Len(r) \in Nat /\ DOMAIN r = 1..Len(r) /\ \A i \in 1..Len(r) : r[i] \in Messages
  BY <1>1, LenProperties, ElementOfSeq
<1>5. DOMAIN e = DOMAIN r
  OBVIOUS
<1>6. \A i \in DOMAIN r : e[i] \in Entries /\ e[i].msg = r[i] /\ e[i].requeue
  BY <1>4 DEF Entries
<1>7. e \in Seq(Entries)
  BY <1>4, <1>6, IsASeq
<1> HIDE DEF e
<1>8. \A i, j \in DOMAIN e : e[i].msg = e[j].msg => i = j
  BY <1>1, <1>5, <1>6 DEF IsInjective
<1>9. ToSet(q) = {e[i].msg : i \in DOMAIN e}
  BY <1>1, <1>5, <1>6 DEF ToSet
<1>10. ToSet(q) = {e[i].msg : i \in {j \in DOMAIN e : e[j].requeue}}
  <2>1. {j \in DOMAIN e : e[j].requeue} = DOMAIN e
    BY <1>5, <1>6
  <2> QED BY <1>9, <2>1
<1>11. ToSet(q) \cap Admissions(a) = {} /\ ToSet(q) \cap In(a) = {}
  OBVIOUS
<1> DEFINE E == ToSet(q)
<1> HIDE DEF E
<1>12. Shows([a EXCEPT !.pending = @ \o e, !.idle = k], a,
             In(a), Admissions(a) \cup E, Recoverable(a) \cup E)
  BY <1>3, <1>7, <1>8, <1>9, <1>10, <1>11, AdmitsIs DEF E
<1> QED BY <1>2, <1>12 DEF E

\* and of the first message of a session, which will not.
LEMMA FirstAdmittedIs ==
  ASSUME NEW a \in AgentStates, Neat(a), Admissions(a) = {}, NEW m \in Messages, m \notin In(a),
         NEW D
  PROVE  Shows(AdmissionsStarted(a, <<m>>, D, FALSE), a, In(a), {m}, {})
<1> DEFINE q == <<m>>
<1>0. q \in Seq(Messages) /\ ToSet(q) = {m} /\ IsInjective(q)
  BY SingletonIs
<1> DEFINE r == Minus(q, Admissions(a))
           e == [i \in DOMAIN r |-> [msg |-> r[i], acked |-> r[i] \in D, requeue |-> FALSE]]
           k == a.idle /\ r = <<>>
<1>2. AdmissionsStarted(a, <<m>>, D, FALSE) = [a EXCEPT !.pending = @ \o e, !.idle = k]
  BY DEF AdmissionsStarted
<1>3. k \in BOOLEAN
  BY DEF AgentStates
<1> HIDE DEF k, q
<1>1. r \in Seq(Messages) /\ ToSet(r) = {m} /\ IsInjective(r)
  BY <1>0, MinusIs
<1> HIDE DEF r
<1>4. Len(r) \in Nat /\ DOMAIN r = 1..Len(r) /\ \A i \in 1..Len(r) : r[i] \in Messages
  BY <1>1, LenProperties, ElementOfSeq
<1>5. DOMAIN e = DOMAIN r
  OBVIOUS
<1>6. \A i \in DOMAIN r : e[i] \in Entries /\ e[i].msg = r[i] /\ ~e[i].requeue
  BY <1>4 DEF Entries
<1>7. e \in Seq(Entries)
  BY <1>4, <1>6, IsASeq
<1> HIDE DEF e
<1>8. \A i, j \in DOMAIN e : e[i].msg = e[j].msg => i = j
  BY <1>1, <1>5, <1>6 DEF IsInjective
<1>9. {m} = {e[i].msg : i \in DOMAIN e}
  BY <1>1, <1>5, <1>6 DEF ToSet
<1>10. {} = {e[i].msg : i \in {j \in DOMAIN e : e[j].requeue}}
  <2>1. {j \in DOMAIN e : e[j].requeue} = {}
    BY <1>5, <1>6
  <2> QED BY <2>1
<1>11. {m} \cap Admissions(a) = {} /\ {m} \cap In(a) = {}
  OBVIOUS
<1>12. Shows([a EXCEPT !.pending = @ \o e, !.idle = k], a,
             In(a), Admissions(a) \cup {m}, Recoverable(a) \cup {})
  <2> DEFINE E == {m}
             R == {}
  <2> HIDE DEF E, R
  <2>1. Shows([a EXCEPT !.pending = @ \o e, !.idle = k], a,
              In(a), Admissions(a) \cup E, Recoverable(a) \cup R)
    BY <1>3, <1>7, <1>8, <1>9, <1>10, <1>11, AdmitsIs DEF E, R
  <2> QED BY <2>1 DEF E, R
<1>13. Recoverable(a) = {}
  BY AgentHas
<1>14. Admissions(a) \cup {m} = {m} /\ Recoverable(a) \cup {} = {}
  BY <1>13
<1> QED BY <1>2, <1>12, <1>14

\* Some entries of p are left out.
LEMMA WithoutIs ==
  ASSUME NEW p \in Seq(Entries), NEW D,
         \A i, j \in DOMAIN p : p[i].msg = p[j].msg => i = j,
         NEW I \in SUBSET DOMAIN p, \A i \in DOMAIN p : i \in I <=> p[i].msg \notin D,
         NEW r, r = At(p, I)
  PROVE  /\ r \in Seq(Entries)
         /\ \A i, j \in DOMAIN r : r[i].msg = r[j].msg => i = j
         /\ {r[i].msg : i \in DOMAIN r} = {p[i].msg : i \in DOMAIN p} \ D
         /\ {r[i].msg : i \in {j \in DOMAIN r : r[j].requeue}}
              = {p[i].msg : i \in {j \in DOMAIN p : p[j].requeue}} \ D
<1> DEFINE n == Cardinality(I)
<1>2. n \in Nat
  BY AtPlaces
<1>3. PICK f \in [1..n -> I] : /\ r = [k \in 1..n |-> p[f[k]]]
                               /\ \A i \in I : \E k \in 1..n : f[k] = i
                               /\ \A j, k \in 1..n : f[j] = f[k] => j = k
  BY AtPlaces
<1> HIDE DEF n
<1>4. r \in Seq(Entries)
  BY AtIs
<1>5. DOMAIN r = 1..n /\ \A k \in 1..n : f[k] \in I /\ f[k] \in DOMAIN p /\ r[k] = p[f[k]]
  BY <1>3
<1>6. \A i, j \in DOMAIN r : r[i].msg = r[j].msg => i = j
  BY <1>3, <1>5
<1>7. \A i \in I : \E k \in 1..n : r[k] = p[i]
  BY <1>3, <1>5
<1> DEFINE R == {r[i].msg : i \in DOMAIN r}
           P == {p[i].msg : i \in DOMAIN p}
           S == {r[i].msg : i \in {j \in DOMAIN r : r[j].requeue}}
           Q == {p[i].msg : i \in {j \in DOMAIN p : p[j].requeue}}
<1>8. R = P \ D
  <2>1. ASSUME NEW x \in R PROVE x \in P \ D
    <3>1. PICK k \in 1..n : x = r[k].msg
      BY <1>5, <2>1
    <3>2. x = p[f[k]].msg /\ f[k] \in DOMAIN p /\ p[f[k]].msg \notin D
      BY <1>5, <3>1
    <3> QED BY <3>2
  <2>2. ASSUME NEW x \in P \ D PROVE x \in R
    <3>1. PICK i \in DOMAIN p : x = p[i].msg
      OBVIOUS
    <3>2. i \in I
      BY <3>1
    <3>3. PICK k \in 1..n : r[k] = p[i]
      BY <1>7, <3>2
    <3> QED BY <1>5, <3>1, <3>3
  <2> HIDE DEF R, P
  <2> QED BY <2>1, <2>2
<1>9. S = Q \ D
  <2>1. ASSUME NEW x \in S PROVE x \in Q \ D
    <3>1. PICK k \in 1..n : x = r[k].msg /\ r[k].requeue
      BY <1>5, <2>1
    <3>2. x = p[f[k]].msg /\ f[k] \in DOMAIN p /\ p[f[k]].msg \notin D /\ p[f[k]].requeue
      BY <1>5, <3>1
    <3> QED BY <3>2
  <2>2. ASSUME NEW x \in Q \ D PROVE x \in S
    <3>1. PICK i \in DOMAIN p : x = p[i].msg /\ p[i].requeue
      OBVIOUS
    <3>2. i \in I
      BY <3>1
    <3>3. PICK k \in 1..n : r[k] = p[i]
      BY <1>7, <3>2
    <3> QED BY <1>5, <3>1, <3>3
  <2> HIDE DEF S, Q
  <2> QED BY <2>1, <2>2
<1> QED BY <1>4, <1>6, <1>8, <1>9

\* admission_settled: these are forgotten.
LEMMA AdmissionsSettledIs ==
  ASSUME NEW a \in AgentStates, Neat(a), NEW D
  PROVE  Shows(AdmissionsSettled(a, D), a, In(a), Admissions(a) \ D, Recoverable(a) \ D)
<1> DEFINE p == a.pending
           I == {i \in DOMAIN p : p[i].msg \notin D}
           r == At(p, I)
           adm == {r[i].msg : i \in DOMAIN r}
           rec == {r[i].msg : i \in {j \in DOMAIN r : r[j].requeue}}
<1>1. p \in Seq(Entries) /\ \A i, j \in DOMAIN p : p[i].msg = p[j].msg => i = j
  BY AgentHas DEF Neat
<1>2. AdmissionsSettled(a, D) = [a EXCEPT !.pending = r]
  BY DEF AdmissionsSettled, Without
<1>3. [a EXCEPT !.pending = r] = [a EXCEPT !.pending = r, !.idle = a.idle] /\ a.idle \in BOOLEAN
  BY DEF AgentStates
<1>8. I \in SUBSET DOMAIN p /\ \A i \in DOMAIN p : i \in I <=> p[i].msg \notin D
  OBVIOUS
<1> HIDE DEF I
<1>4. /\ r \in Seq(Entries)
      /\ \A i, j \in DOMAIN r : r[i].msg = r[j].msg => i = j
      /\ adm = {p[i].msg : i \in DOMAIN p} \ D
      /\ rec = {p[i].msg : i \in {j \in DOMAIN p : p[j].requeue}} \ D
  BY <1>1, <1>8, WithoutIs
<1> HIDE DEF r
<1>5. adm = Admissions(a) \ D /\ rec = Recoverable(a) \ D
  BY <1>4 DEF Admissions, Recoverable
<1>6. adm \cap In(a) = {}
  BY <1>5 DEF Neat
<1>7. Shows([a EXCEPT !.pending = r, !.idle = a.idle], a, In(a), adm, rec)
  <2> DEFINE k == a.idle
  <2>1. k \in BOOLEAN
    BY <1>3
  <2> HIDE DEF k
  <2>2. Shows([a EXCEPT !.pending = r, !.idle = k], a, In(a), adm, rec)
    <3> HIDE DEF adm, rec
    <3> QED BY <1>4, <1>6, <2>1, PendingChange DEF adm, rec
  <2> QED BY <2>2 DEF k
<1> HIDE DEF adm, rec
<1> QED BY <1>2, <1>3, <1>5, <1>7
\* WithoutIs, with names for what it is about.
Single(p)    == \A i, j \in DOMAIN p : p[i].msg = p[j].msg => i = j
GivenBack(p) == {p[i].msg : i \in {j \in DOMAIN p : p[j].requeue}}

LEMMA SelectionIs ==
  ASSUME NEW p \in Seq(Entries), Single(p), NEW D,
         NEW I \in SUBSET DOMAIN p, \A i \in DOMAIN p : i \in I <=> p[i].msg \notin D
  PROVE  /\ At(p, I) \in Seq(Entries) /\ Single(At(p, I))
         /\ GivenBack(At(p, I)) = GivenBack(p) \ D
<1> DEFINE r == At(p, I)
           rec == {r[i].msg : i \in {j \in DOMAIN r : r[j].requeue}}
           adm == {r[i].msg : i \in DOMAIN r}
<1>1. \A i, j \in DOMAIN p : p[i].msg = p[j].msg => i = j
  BY DEF Single
<1>2. /\ r \in Seq(Entries)
      /\ \A i, j \in DOMAIN r : r[i].msg = r[j].msg => i = j
      /\ adm = {p[i].msg : i \in DOMAIN p} \ D
      /\ rec = {p[i].msg : i \in {j \in DOMAIN p : p[j].requeue}} \ D
  BY <1>1, WithoutIs
<1> HIDE DEF r
<1>3. Single(r) /\ GivenBack(r) = GivenBack(p) \ D
  BY <1>2 DEF Single, GivenBack
<1> QED BY <1>2, <1>3 DEF r

\* The settlement of failed commands: those that ask for it join the inbox.
LEMMA AdmissionsFailedIs ==
  ASSUME NEW a \in AgentStates, Neat(a), NEW q \in Seq(Messages), IsInjective(q)
  PROVE  Shows(AdmissionsFailed(a, q), a, In(a) \cup (ToSet(q) \cap Recoverable(a)),
               Admissions(a) \ ToSet(q), Recoverable(a) \ ToSet(q))
<1> DEFINE Q == ToSet(q)
           b == AdmissionsSettled(a, Q)
           o == Only(q, Recoverable(a))
<1>1. Shows(b, a, In(a), Admissions(a) \ Q, Recoverable(a) \ Q)
  BY AdmissionsSettledIs
<1>2. o \in Seq(Messages) /\ ToSet(o) = Q \cap Recoverable(a) /\ IsInjective(o)
  BY OnlyIs
<1>3. AdmissionsFailed(a, q) = DeliveriesRejected(b, o)
  BY DEF AdmissionsFailed
<1> HIDE DEF b, o, Q
<1>4. b \in AgentStates /\ Neat(b) /\ ToSet(o) \cap Admissions(b) = {}
  BY <1>1, <1>2 DEF Shows
<1>5. Shows(DeliveriesRejected(b, o), b, In(b) \cup ToSet(o), Admissions(b), Recoverable(b))
  BY <1>2, <1>4, DeliveriesRejectedIs
<1>6. Shows(AdmissionsFailed(a, q), a, In(a) \cup (Q \cap Recoverable(a)),
            Admissions(a) \ Q, Recoverable(a) \ Q)
  BY <1>1, <1>2, <1>3, <1>5 DEF Shows
<1> QED BY <1>6 DEF Q

\* An acknowledgement changes no message.
LEMMA AdmissionAcknowledgedIs ==
  ASSUME NEW a \in AgentStates, Neat(a), NEW m
  PROVE  Shows(AdmissionAcknowledged(a, m), a, In(a), Admissions(a), Recoverable(a))
<1> DEFINE p == a.pending
           r == [i \in DOMAIN p |-> IF p[i].msg = m THEN [p[i] EXCEPT !.acked = TRUE] ELSE p[i]]
           k == a.idle
<1>1. p \in Seq(Entries) /\ \A i \in DOMAIN p : p[i] \in Entries
  BY AgentHas
<1>2. Len(p) \in Nat /\ DOMAIN p = 1..Len(p)
  BY <1>1, LenProperties
<1>3. AdmissionAcknowledged(a, m) = [a EXCEPT !.pending = r, !.idle = k]
  BY DEF AdmissionAcknowledged, AgentStates
<1>4. k \in BOOLEAN
  BY DEF AgentStates
<1>5. \A i \in DOMAIN p : /\ r[i] \in Entries /\ r[i].msg = p[i].msg
                          /\ r[i].requeue = p[i].requeue
  BY <1>1 DEF Entries
<1>6. DOMAIN r = DOMAIN p
  OBVIOUS
<1>12. r = [i \in 1..Len(p) |-> r[i]]
  BY <1>2
<1> HIDE DEF r, k
<1>7. r \in Seq(Entries)
  <2>1. \A i \in 1..Len(p) : r[i] \in Entries
    BY <1>2, <1>5
  <2> QED BY <1>2, <1>12, <2>1, IsASeq
<1>8. \A i, j \in DOMAIN r : r[i].msg = r[j].msg => i = j
  BY <1>5, <1>6 DEF Neat
<1>9. Admissions(a) = {r[i].msg : i \in DOMAIN r}
  BY <1>5, <1>6 DEF Admissions
<1>10. Recoverable(a) = {r[i].msg : i \in {j \in DOMAIN r : r[j].requeue}}
  <2>1. {j \in DOMAIN r : r[j].requeue} = {j \in DOMAIN p : p[j].requeue}
    BY <1>5, <1>6
  <2>2. \A i \in {j \in DOMAIN p : p[j].requeue} : r[i].msg = p[i].msg
    BY <1>5
  <2> QED BY <2>1, <2>2 DEF Recoverable
<1>11. Admissions(a) \cap In(a) = {}
  BY DEF Neat
<1> DEFINE adm == Admissions(a)
           rec == Recoverable(a)
<1> HIDE DEF adm, rec
<1>13. Shows([a EXCEPT !.pending = r, !.idle = k], a, In(a), adm, rec)
  BY <1>4, <1>7, <1>8, <1>9, <1>10, <1>11, PendingChange DEF adm, rec
<1> QED BY <1>3, <1>13 DEF adm, rec

\* What was admitted is given back to an agent that admits nothing.
LEMMA ReleasedIs ==
  ASSUME NEW a \in AgentStates, Neat(a), NEW d \in AgentStates, Neat(d), Admissions(d) = {}
  PROVE  Shows(Recover(d, a.pending), d, In(d) \cup Recoverable(a), {}, {})
<1>1. a.pending \in Seq(Entries)
      /\ \A i, j \in DOMAIN a.pending : a.pending[i].msg = a.pending[j].msg => i = j
  BY AgentHas DEF Neat
<1>2. Recoverable(d) = {}
  BY AgentHas
<1>3. Recoverable(a) = {a.pending[i].msg : i \in {j \in DOMAIN a.pending : a.pending[j].requeue}}
  BY DEF Recoverable
<1>4. Recoverable(a) \cap Admissions(d) = {}
  OBVIOUS
<1> DEFINE D == Recoverable(a)
           p == a.pending
<1> HIDE DEF D
<1>5. Shows(Recover(d, p), d, In(d) \cup D, Admissions(d), Recoverable(d))
  BY <1>1, <1>3, <1>4, RecoverIs DEF D
<1> QED BY <1>2, <1>5 DEF D

\* An agent without admissions.
LEMMA ReleaseIs ==
  ASSUME NEW a \in AgentStates, Neat(a), NEW d \in AgentStates, d.pending = <<>>,
         d.inbox = a.inbox
  PROVE  Neat(d) /\ In(d) = In(a) /\ Admissions(d) = {}
<1>1. Admissions(d) = {} /\ In(d) = In(a)
  BY AgentEmpty DEF In
<1>2. DOMAIN d.pending = {}
  BY <1>1 DEF Admissions
<1> QED BY <1>1, <1>2 DEF Neat

\* attach_session: a new epoch, and what was admitted is given back.
LEMMA AttachSessionIs ==
  ASSUME NEW a \in AgentStates, Neat(a), NEW i \in Nat, NEW b, b = AttachSession(a, i)
  PROVE  /\ b \in AgentStates /\ Neat(b) /\ In(b) = In(a) \cup Recoverable(a)
         /\ Admissions(b) = {} /\ Recoverable(b) = {}
         /\ b.status = a.status /\ b.resetting = a.resetting
         /\ b.epoch = i /\ b.lease = "none"
<1> DEFINE d == [a EXCEPT !.pending = <<>>, !.epoch = i, !.lease = "none", !.idle = FALSE]
<1>1. <<>> \in Seq(Entries)
  BY EmptyIs
<1>2. /\ d \in AgentStates /\ d.pending = <<>> /\ d.inbox = a.inbox
      /\ d.status = a.status /\ d.resetting = a.resetting
      /\ d.epoch = i /\ d.lease = "none"
  BY <1>1 DEF AgentStates
<1>3. b = Recover(d, a.pending)
  BY DEF AttachSession
<1> HIDE DEF d
<1>4. Shows(b, d, In(a) \cup Recoverable(a), {}, {})
  BY <1>2, <1>3, ReleaseIs, ReleasedIs
<1> QED BY <1>2, <1>4 DEF Shows

\* session_closed: no session, and what was admitted is given back.
LEMMA SessionClosedIs ==
  ASSUME NEW a \in AgentStates, Neat(a), NEW b, b = SessionClosed(a)
  PROVE  /\ b \in AgentStates /\ Neat(b) /\ In(b) = In(a) \cup Recoverable(a)
         /\ Admissions(b) = {} /\ Recoverable(b) = {}
         /\ b.epoch = NoSession /\ b.lease = "detached"
<1> DEFINE d == [a EXCEPT !.pending = <<>>, !.epoch = NoSession, !.lease = "detached"]
<1>1. <<>> \in Seq(Entries) /\ NoSession \in Nat
  BY EmptyIs DEF NoSession
<1>2. /\ d \in AgentStates /\ d.pending = <<>> /\ d.inbox = a.inbox
      /\ d.epoch = NoSession /\ d.lease = "detached"
  BY <1>1 DEF AgentStates
<1>3. b = Recover(d, a.pending)
  BY DEF SessionClosed
<1> HIDE DEF d
<1>4. Shows(b, d, In(a) \cup Recoverable(a), {}, {})
  BY <1>2, <1>3, ReleaseIs, ReleasedIs
<1> QED BY <1>2, <1>4 DEF Shows

\* exit: what was admitted is given back to an inbox that was drained if it had
\* anything, for a new session.
LEMMA ExitedIs ==
  ASSUME NEW a \in AgentStates, Neat(a), NEW b, b = Exited(a)
  PROVE  /\ b \in AgentStates /\ Neat(b) /\ In(b) = Recoverable(a)
         /\ Admissions(b) = {} /\ Recoverable(b) = {}
         /\ b.epoch = NoSession /\ b.lease = "detached"
         /\ b.status = IF ExitSpawns(a) THEN "starting" ELSE "idle"
<1> DEFINE d == [a EXCEPT !.pending = <<>>, !.epoch = NoSession, !.lease = "detached"]
           s == [d EXCEPT !.status = "starting"]
           c == IF ExitSpawns(a) THEN Drained(s) ELSE Stable(d, "idle")
<1>1. <<>> \in Seq(Entries) /\ NoSession \in Nat
  BY EmptyIs DEF NoSession
<1>2. /\ d \in AgentStates /\ d.pending = <<>> /\ d.inbox = a.inbox
      /\ d.epoch = NoSession /\ d.lease = "detached"
  BY <1>1 DEF AgentStates
<1>3. b = Recover(c, a.pending)
  BY DEF Exited
<1> HIDE DEF d
<1>4. Neat(d) /\ In(d) = In(a) /\ Admissions(d) = {}
  BY <1>2, ReleaseIs
<1>5. CASE ExitSpawns(a)
  <2>1. /\ s \in AgentStates /\ s.pending = d.pending /\ s.inbox = d.inbox
        /\ s.epoch = d.epoch /\ s.lease = d.lease /\ s.status = "starting"
    BY <1>2 DEF AgentStates
  <2> HIDE DEF s
  <2>2. Neat(s) /\ Admissions(s) = {}
    BY <1>2, <1>4, <2>1, FlagsChange
  <2>3. Shows(Drained(s), s, {}, Admissions(s), Recoverable(s))
    BY <2>1, <2>2, DrainedIs
  <2>4. /\ c \in AgentStates /\ Neat(c) /\ In(c) = {} /\ Admissions(c) = {}
        /\ c.epoch = NoSession /\ c.lease = "detached" /\ c.status = "starting"
    BY <1>2, <1>5, <2>1, <2>2, <2>3 DEF Shows
  <2> HIDE DEF c
  <2>5. Shows(b, c, In(c) \cup Recoverable(a), {}, {})
    BY <1>3, <2>4, ReleasedIs
  <2> QED BY <1>5, <2>4, <2>5 DEF Shows
<1>6. CASE ~ExitSpawns(a)
  <2>1. /\ c \in AgentStates /\ c.pending = d.pending /\ c.inbox = d.inbox
        /\ c.epoch = d.epoch /\ c.lease = d.lease /\ c.status = "idle"
    BY <1>2, <1>6 DEF AgentStates, Stable
  <2>2. In(a) = {}
    BY <1>6, AgentEmpty DEF ExitSpawns
  <2> HIDE DEF c
  <2>3. Neat(c) /\ Admissions(c) = {} /\ In(c) = {}
    BY <1>2, <1>4, <2>1, <2>2, FlagsChange
  <2>5. Shows(b, c, In(c) \cup Recoverable(a), {}, {})
    BY <1>3, <2>1, <2>3, ReleasedIs
  <2> QED BY <1>2, <1>6, <2>1, <2>3, <2>5 DEF Shows
<1> QED BY <1>5, <1>6

\* The admissions that expire: those that ask for it join the inbox.
LEMMA ExpiresIs ==
  ASSUME NEW a \in AgentStates, Neat(a), NEW D \in SUBSET Messages, NEW b, b = Expires(a, D)
  PROVE  /\ b \in AgentStates /\ Neat(b) /\ In(b) = In(a) \cup (Recoverable(a) \cap D)
         /\ Admissions(b) = Admissions(a) \ D /\ Recoverable(b) = Recoverable(a) \ D
         /\ b.status = "stopping" /\ b.epoch = a.epoch
         /\ b.lease = a.lease /\ b.resetting = a.resetting
<1> DEFINE p == a.pending
           c == AdmissionsSettled(a, D)
           d == [a EXCEPT !.status = "stopping", !.idle = FALSE, !.pending = Without(@, D)]
           I == {i \in DOMAIN p : p[i].msg \in D}
           e == At(p, I)
           E == Messages \ D
<1>1. p \in Seq(Entries) /\ \A i, j \in DOMAIN p : p[i].msg = p[j].msg => i = j
  BY AgentHas DEF Neat
<1>14. \A i \in DOMAIN p : p[i].msg \in Messages
  BY AgentHas DEF Entries
<1>2. Shows(c, a, In(a), Admissions(a) \ D, Recoverable(a) \ D)
  BY AdmissionsSettledIs
<1>3. /\ d.inbox = c.inbox /\ d.pending = c.pending /\ d = [c EXCEPT !.status = "stopping", !.idle = FALSE]
  BY DEF AgentStates, AdmissionsSettled
<1>4. b = Recover(d, e)
  BY DEF Expires
<1> HIDE DEF c
<1>5. /\ d \in AgentStates /\ d.status = "stopping" /\ d.epoch = a.epoch
      /\ d.lease = a.lease /\ d.resetting = a.resetting
  BY <1>2, <1>3 DEF Shows, AgentStates
<1> HIDE DEF d
<1>6. /\ Neat(d) /\ In(d) = In(a) /\ Admissions(d) = Admissions(a) \ D
      /\ Recoverable(d) = Recoverable(a) \ D
  BY <1>2, <1>3, <1>5, FlagsChange DEF Shows
<1>7. I \in SUBSET DOMAIN p /\ \A i \in DOMAIN p : i \in I <=> p[i].msg \notin E
  BY <1>14
<1>12. e = At(p, I)
  OBVIOUS
<1> HIDE DEF I, E, e
<1> HIDE DEF p
<1>8. e \in Seq(Entries) /\ Single(e) /\ GivenBack(e) = GivenBack(p) \ E
  <2>1. Single(p)
    BY <1>1 DEF Single
  <2> QED BY <1>1, <1>7, <1>12, <2>1, SelectionIs
<1> DEFINE G == Recoverable(a) \cap D
<1>9. G = {e[i].msg : i \in {j \in DOMAIN e : e[j].requeue}}
  <2>1. Recoverable(a) \subseteq Messages /\ GivenBack(p) = Recoverable(a)
    BY AgentHas DEF GivenBack, Recoverable, p
  <2>2. Recoverable(a) \ E = G
    BY <2>1 DEF E
  <2> QED BY <1>8, <2>1, <2>2 DEF GivenBack
<1>15. \A i, j \in DOMAIN e : e[i].msg = e[j].msg => i = j
  BY <1>8 DEF Single
<1>10. G \cap Admissions(d) = {}
  BY <1>6
<1> HIDE DEF G
<1>11. Shows(Recover(d, e), d, In(d) \cup G, Admissions(d), Recoverable(d))
  BY <1>5, <1>6, <1>8, <1>9, <1>10, <1>15, RecoverIs
<1> QED BY <1>4, <1>5, <1>6, <1>11 DEF Shows, G

\* turn_completed, turn_started and turn_work change the lease, the idle clock and
\* what waits.
LEMMA TurnCompletedIs ==
  ASSUME NEW a \in AgentStates, Neat(a), Working(a), NEW b, b = TurnCompleted(a)
  PROVE  /\ b \in AgentStates /\ Neat(b)
         /\ In(b) = IF CompletionSends(a) THEN {} ELSE In(a)
         /\ Admissions(b) = Admissions(a) /\ Recoverable(b) = Recoverable(a)
         /\ b.status = a.status /\ b.epoch = a.epoch /\ b.resetting = a.resetting
         /\ b.lease = "terminal"
<1> DEFINE d == [a EXCEPT !.lease = "terminal"]
           e == [d EXCEPT !.idle = a.status = "running" /\ ~a.resetting]
<1>1. b = IF CompletionSends(a) THEN Drained(d) ELSE e
  BY DEF TurnCompleted
<1>2. /\ d \in AgentStates /\ d.inbox = a.inbox /\ d.pending = a.pending
      /\ d.status = a.status /\ d.epoch = a.epoch /\ d.resetting = a.resetting
      /\ d.lease = "terminal"
  BY DEF AgentStates
<1> HIDE DEF d
<1>3. /\ Neat(d) /\ In(d) = In(a) /\ Admissions(d) = Admissions(a)
      /\ Recoverable(d) = Recoverable(a)
  BY <1>2, FlagsChange
<1>4. CASE CompletionSends(a)
  <2>1. Shows(b, d, {}, Admissions(d), Recoverable(d))
    BY <1>1, <1>2, <1>3, <1>4, DrainedIs
  <2> QED BY <1>2, <1>3, <1>4, <2>1 DEF Shows
<1>5. CASE ~CompletionSends(a)
  <2>1. /\ e \in AgentStates /\ e.inbox = d.inbox /\ e.pending = d.pending
        /\ e.status = d.status /\ e.epoch = d.epoch /\ e.resetting = d.resetting
        /\ e.lease = d.lease
    <3>1. (a.status = "running" /\ ~a.resetting) \in BOOLEAN
      OBVIOUS
    <3> QED BY <1>2, <3>1 DEF AgentStates
  <2> HIDE DEF e
  <2>2. /\ Neat(e) /\ In(e) = In(d) /\ Admissions(e) = Admissions(d)
        /\ Recoverable(e) = Recoverable(d)
    BY <1>2, <1>3, <2>1, FlagsChange
  <2> QED BY <1>1, <1>2, <1>3, <1>5, <2>1, <2>2
<1> QED BY <1>4, <1>5
-----------------------------------------------------------------------------
(* The invariant, of the agent a, the current owner o (of index c, 0: none) *)
(* and the fates f.                                                        *)

\* What will be tried again is held, and what is admitted was delivered.
Honest(a, f) ==
    /\ \A m \in Kept(a) : f[m] = "held"
    /\ \A m \in Admissions(a) : f[m] # "new"

\* Any other message that is held is the first of the current owner, which has not
\* yet reported its failure and will.
Vouched(a, c, o, f) ==
    \A m \in Messages : f[m] = "held" /\ m \notin Kept(a) =>
        c # 0 /\ o.first = m /\ ~o.reported /\ ~o.established

\* How what is admitted depends on the phase of the owner: nothing before its
\* session opens, and, if it is heard, nothing that the session does not hold and
\* nothing at all once the session was stopped.
Placed(a, c, o, f) ==
    /\ a.epoch \in {0, c}
    /\ a.epoch = 0 => Admissions(a) = {}
    /\ a.lease = "detached" <=> a.epoch = 0
    /\ c # 0 =>
          /\ ~o.torndown /\ o.phase # "gone"
          /\ IsInjective(o.held.queue)
          /\ o.phase # "opening" => a.epoch = c
          /\ o.phase = "opening" =>
                /\ a.epoch = 0 /\ o.held = Empty /\ ~o.ended
                /\ o.first \notin In(a) /\ f[o.first] # "new"
                /\ o.discard => o.superseded
          /\ ~o.discard /\ o.phase \in {"open", "crashed"} => Admissions(a) \subseteq Held(o.held)
          /\ ~o.discard /\ o.phase \in {"stopping", "ended"} => Admissions(a) = {}

\* What the session of an open owner holds, and what the manager knows of it.
Agreed(a, o, f) ==
    LET h == o.held
    IN  /\ h.root \notin ToSet(h.queue) \cup h.steering
        /\ ToSet(h.queue) \cap h.steering = {}
        /\ h.turn = "starting" <=> h.root # None
        /\ Held(h) \subseteq Admissions(a)
        /\ \A m \in h.taken : f[m] \notin {"new", "held"}
        /\ \A m \in Messages : f[m] = "held" /\ m \notin Kept(a) => h.root = m
        /\ ~o.discard =>
              /\ h.taken \cap Held(h) = {}
              /\ Working(a) <=> h.turn = "working"
              /\ a.lease = "none" => ~o.ended
        /\ o.discard => o.superseded /\ h.queue = <<>> /\ h.steering = {}
        /\ o.discard \/ a.status # "running" => Recoverable(a) = {}

Owner(w) == w.owners[w.current]

\* Every owner but the current one was given up.
Others(w) ==
    \A i \in DOMAIN w.owners :
        i # w.current => w.owners[i].torndown /\ w.owners[i].phase # "open"

\* An owner was given up while its events were discarded.
GivenUp(w) == \E i \in DOMAIN w.owners : w.owners[i].torndown /\ w.owners[i].discard

Stranded(w) ==
    w.agent.status = "idle" /\ w.current = 0 /\ In(w.agent) # {} => GivenUp(w)

Accounted(w) ==
    /\ w \in Worlds
    /\ w.current # 0 => w.current \in DOMAIN w.owners
    /\ Neat(w.agent) /\ Honest(w.agent, w.fate)
    /\ Vouched(w.agent, w.current, Owner(w), w.fate)
    /\ Placed(w.agent, w.current, Owner(w), w.fate)
    /\ Others(w) /\ Stranded(w)

Sound(w) ==
    /\ Accounted(w)
    /\ w.current # 0 /\ Owner(w).phase = "open" => Agreed(w.agent, Owner(w), w.fate)
-----------------------------------------------------------------------------
(* Worlds.                                                                 *)

\* The fields of a world and their types.
LEMMA WorldHas ==
  ASSUME NEW w \in Worlds
  PROVE  /\ w.agent \in AgentStates /\ w.owners \in Seq(OwnerStates) /\ w.current \in Nat
         /\ w.fate \in [Messages -> Fates] /\ Len(w.owners) \in Nat
         /\ DOMAIN w.owners = 1..Len(w.owners) /\ 0 \notin DOMAIN w.owners
         /\ \A i \in DOMAIN w.owners : w.owners[i] \in OwnerStates
<1>1. w.agent \in AgentStates /\ w.owners \in Seq(OwnerStates) /\ w.current \in Nat
      /\ w.fate \in [Messages -> Fates]
  BY DEF Worlds
<1> QED BY <1>1, LenProperties, ElementOfSeq

\* One owner is replaced.  (Named, so that the provers need not match the update.)
Put(s, i, o) == [s EXCEPT ![i] = o]

LEMMA OwnersChange ==
  ASSUME NEW s \in Seq(OwnerStates), NEW i \in DOMAIN s, NEW o \in OwnerStates
  PROVE  /\ Put(s, i, o) \in Seq(OwnerStates)
         /\ Len(Put(s, i, o)) = Len(s) /\ DOMAIN Put(s, i, o) = DOMAIN s
         /\ Put(s, i, o)[i] = o
         /\ \A j \in DOMAIN s : j # i => Put(s, i, o)[j] = s[j]
<1> DEFINE t == Put(s, i, o)
<1>1. Len(s) \in Nat /\ DOMAIN s = 1..Len(s) /\ \A j \in 1..Len(s) : s[j] \in OwnerStates
  BY LenProperties, ElementOfSeq
<1>2. t = [j \in 1..Len(s) |-> t[j]] /\ t[i] = o /\ \A j \in 1..Len(s) : j # i => t[j] = s[j]
  BY <1>1 DEF Put
<1> HIDE DEF t
<1>3. t \in Seq(OwnerStates)
  <2>1. \A j \in 1..Len(s) : t[j] \in OwnerStates
    BY <1>1, <1>2
  <2> QED BY <1>1, <1>2, <2>1, IsASeq
<1>4. Len(t) = Len(s)
  BY <1>1, <1>2, <1>3, LenProperties
<1> QED BY <1>1, <1>2, <1>3, <1>4, LenProperties DEF t

LEMMA PutAgain ==
  ASSUME NEW s, NEW i, NEW n, NEW o
  PROVE  Put(Put(s, i, n), i, o) = Put(s, i, o)
BY DEF Put

\* A step to a sound world is sound.
LEMMA BecomesSound ==
  ASSUME NEW w, Sound(w), Becomes(w)
  PROVE  Sound(World)'
<1>1. w \in Worlds
  BY DEF Sound, Accounted
<1>2. World' = w
  BY <1>1 DEF Worlds, World, Becomes
<1>3. Sound(World')
  BY <1>2
<1> QED BY <1>3

\* The current owner is replaced, and with it whatever else.
LEMMA CurrentChanges ==
  ASSUME NEW w \in Worlds, w.current \in DOMAIN w.owners, Others(w),
         NEW o \in OwnerStates, NEW v \in Worlds, v.current = w.current,
         v.owners = Put(w.owners, w.current, o),
         Neat(v.agent), Honest(v.agent, v.fate), Vouched(v.agent, w.current, o, v.fate),
         Placed(v.agent, w.current, o, v.fate)
  PROVE  /\ Accounted(v) /\ Owner(v) = o
         /\ (o.phase = "open" => Agreed(v.agent, o, v.fate)) => Sound(v)
<1> DEFINE c == w.current
<1>1. w.owners \in Seq(OwnerStates) /\ c \in DOMAIN w.owners /\ c # 0
  BY WorldHas
<1> DEFINE s == w.owners
           t == v.owners
<1> HIDE DEF c, s, t
<1>2. DOMAIN t = DOMAIN s /\ t[c] = o /\ \A j \in DOMAIN s : j # c => t[j] = s[j]
  <2>1. t = Put(s, c, o)
    BY DEF c, s, t
  <2>2. s \in Seq(OwnerStates) /\ c \in DOMAIN s
    BY <1>1 DEF s
  <2> QED BY <2>1, <2>2, OwnersChange
<1> USE DEF c, s, t
<1>3. Others(v)
  BY <1>2 DEF Others
<1>4. Owner(v) = o /\ v.current # 0 /\ v.current \in DOMAIN v.owners
  BY <1>1, <1>2 DEF Owner
<1>5. Accounted(v)
  BY <1>1, <1>3, <1>4 DEF Accounted, Stranded
<1> QED BY <1>4, <1>5 DEF Sound

\* Whether the events of the current owner are heard.
LEMMA HeardUnlessDiscarded ==
  ASSUME NEW w, w.current # 0, Placed(w.agent, w.current, Owner(w), w.fate),
         Owner(w).phase # "opening"
  PROVE  Listens(w, w.current) <=> ~Owner(w).discard
BY DEF Listens, Placed, Owner
-----------------------------------------------------------------------------
(* Failed commands.                                                        *)

\* Commands failed: the messages are no longer admitted, and whoever answered for
\* what is left still does.
Handled(v, w, c, o, D) ==
    /\ v \in Worlds /\ v.owners = w.owners /\ v.current = w.current
    /\ Neat(v.agent) /\ Honest(v.agent, v.fate) /\ Vouched(v.agent, c, o, v.fate)
    /\ Admissions(v.agent) = Admissions(w.agent) \ D
    /\ v.agent.status = w.agent.status /\ v.agent.epoch = w.agent.epoch
    /\ v.agent.lease = w.agent.lease /\ v.agent.resetting = w.agent.resetting

\* command_failed of messages that were to open a turn: given back.
LEMMA TurnsFailHandled ==
  ASSUME NEW w \in Worlds, Neat(w.agent), Honest(w.agent, w.fate),
         NEW c, NEW o, Vouched(w.agent, c, o, w.fate),
         NEW q \in Seq(Messages), IsInjective(q),
         NEW i, Listens(w, i), w.agent.epoch = i
  PROVE  Handled(TurnsFail(w, i, q), w, c, o, ToSet(q))
<1> DEFINE a == w.agent
           b == AdmissionsFailed(a, q)
           v == [w EXCEPT !.agent = b]
           D == ToSet(q)
<1>1. a \in AgentStates
  BY WorldHas
<1>2. Shows(b, a, In(a) \cup (D \cap Recoverable(a)), Admissions(a) \ D, Recoverable(a) \ D)
  BY <1>1, AdmissionsFailedIs
<1>3. TurnsFail(w, i, q) = v
  BY DEF TurnsFail
<1> HIDE DEF b, D
<1>4. v \in Worlds
  BY <1>2 DEF Shows, Worlds
<1>5. v.agent = b /\ v.owners = w.owners /\ v.current = w.current /\ v.fate = w.fate
  BY DEF Worlds
<1>6. Kept(b) = Kept(a)
  BY <1>1, <1>2, AgentHas DEF Shows
<1>7. Honest(b, w.fate) /\ Vouched(b, c, o, w.fate)
  BY <1>2, <1>6 DEF Honest, Vouched, Shows
<1> HIDE DEF v
<1>8. Handled(v, w, c, o, D)
  BY <1>2, <1>4, <1>5, <1>7 DEF Handled, Shows
<1> QED BY <1>3, <1>8 DEF D

\* command_failed of messages meant for the running turn: reported.
Failed(v, w, c, o, D) ==
    /\ Handled(v, w, c, o, D)
    /\ Recoverable(v.agent) = Recoverable(w.agent) \ D
    /\ \A m \in Messages : v.fate[m] \in {w.fate[m], "reported"}
    /\ \A m \in Messages :
          v.fate[m] = "held" /\ m \notin Kept(v.agent)
              => w.fate[m] = "held" /\ m \notin Kept(w.agent)

LEMMA InputsFailHandled ==
  ASSUME NEW w \in Worlds, Neat(w.agent), Honest(w.agent, w.fate),
         NEW c, NEW o, Vouched(w.agent, c, o, w.fate),
         NEW D, NEW i, Listens(w, i), w.agent.epoch = i
  PROVE  Failed(InputsFail(w, i, D), w, c, o, D)
<1> DEFINE a == w.agent
           b == AdmissionsSettled(a, D)
           u == [w EXCEPT !.agent = b]
           f == Told(u, D, "reported")
           v == [u EXCEPT !.fate = f]
<1>1. a \in AgentStates /\ w.fate \in [Messages -> Fates]
  BY WorldHas
<1>2. Shows(b, a, In(a), Admissions(a) \ D, Recoverable(a) \ D)
  BY <1>1, AdmissionsSettledIs
<1>3. InputsFail(w, i, D) = v
  BY DEF InputsFail, Settle
<1> HIDE DEF b
<1>4. u \in Worlds
  BY <1>2 DEF Shows, Worlds
<1>5. u.agent = b /\ u.owners = w.owners /\ u.current = w.current /\ u.fate = w.fate
  BY DEF Worlds
<1> HIDE DEF u
<1>6. \A m \in Messages :
         f[m] = IF m \in D \ Kept(b) /\ w.fate[m] = "held" THEN "reported" ELSE w.fate[m]
  BY <1>5 DEF Told
<1>7. f \in [Messages -> Fates]
  <2>1. f = [m \in Messages |-> f[m]]
    BY DEF Told
  <2> HIDE DEF f
  <2> QED BY <1>1, <1>6, <2>1 DEF Fates
<1> HIDE DEF f
<1>8. v \in Worlds
  BY <1>4, <1>7 DEF Worlds
<1>9. v.agent = b /\ v.owners = w.owners /\ v.current = w.current /\ v.fate = f
  BY <1>4, <1>5 DEF Worlds
<1>10. /\ Kept(a) = In(a) \cup Recoverable(a) /\ Kept(b) = In(a) \cup (Recoverable(a) \ D)
       /\ In(a) \subseteq Messages /\ Recoverable(a) \subseteq Messages
       /\ Admissions(a) \subseteq Messages
  BY <1>1, <1>2, AgentHas DEF Shows
<1>11. Honest(b, f)
  <2>1. \A m \in Kept(b) : f[m] = "held"
    BY <1>6, <1>10 DEF Honest
  <2>2. \A m \in Admissions(b) : f[m] # "new"
    BY <1>2, <1>6, <1>10 DEF Honest, Shows
  <2> QED BY <2>1, <2>2 DEF Honest
<1>15. ASSUME NEW m \in Messages, f[m] = "held", m \notin Kept(b)
       PROVE  w.fate[m] = "held" /\ m \notin Kept(a)
  <2>1. w.fate[m] = "held" /\ m \notin D
    BY <1>6, <1>15
  <2>2. m \notin Kept(a)
    BY <1>10, <1>15, <2>1
  <2> QED BY <2>1, <2>2
<1>12. Vouched(b, c, o, f)
  BY <1>15 DEF Vouched
<1> HIDE DEF v
<1>13. Handled(v, w, c, o, D)
  BY <1>2, <1>8, <1>9, <1>11, <1>12 DEF Handled, Shows
<1>14. \A m \in Messages : f[m] \in {w.fate[m], "reported"}
  BY <1>6
<1>16. Failed(v, w, c, o, D)
  BY <1>2, <1>9, <1>13, <1>14, <1>15 DEF Failed, Shows
<1> QED BY <1>3, <1>16

\* Both, chained.
LEMMA HandledChain ==
  ASSUME NEW u, NEW v, NEW w, NEW c, NEW o, NEW D, NEW E,
         Handled(v, w, c, o, D), Handled(u, v, c, o, E)
  PROVE  Handled(u, w, c, o, D \cup E)
BY DEF Handled
\* What a session holds when everything it has not accepted has failed.
Spent(h) == h.root = None /\ h.queue = <<>> /\ h.steering = {} /\ h.turn # "starting"

\* Named, so that the provers need not match the update.
Holding(o, h) == [o EXCEPT !.held = h]

\* Everything the current session has not accepted fails: if it is heard, nothing
\* of it remains admitted.
LEMMA FailHeldIs ==
  ASSUME NEW w \in Worlds, w.current \in DOMAIN w.owners,
         ~Owner(w).torndown, w.agent.epoch = w.current, IsInjective(Owner(w).held.queue),
         Neat(w.agent), Honest(w.agent, w.fate), Vouched(w.agent, w.current, Owner(w), w.fate),
         NEW v, v = FailHeld(w, w.current)
  PROVE  \E h \in HeldStates :
            /\ Spent(h)
            /\ v \in Worlds /\ v.current = w.current
            /\ v.owners = Put(w.owners, w.current, Holding(Owner(w), h))
            /\ Neat(v.agent) /\ Honest(v.agent, v.fate)
            /\ Vouched(v.agent, w.current, Owner(w), v.fate)
            /\ v.agent.status = w.agent.status /\ v.agent.epoch = w.agent.epoch
            /\ v.agent.lease = w.agent.lease /\ v.agent.resetting = w.agent.resetting
            /\ ~Owner(w).discard =>
                   Admissions(v.agent) = Admissions(w.agent) \ Held(Owner(w).held)
            /\ Owner(w).discard => v.agent = w.agent /\ v.fate = w.fate
<1> DEFINE c == w.current
           o == Owner(w)
           h == o.held
           k == [h EXCEPT !.root = None, !.queue = <<>>, !.steering = {},
                              !.turn = IF @ = "starting" THEN "none" ELSE @]
           r == IF h.root = None THEN <<>> ELSE <<h.root>>
           n == Holding(o, k)
           u == [w EXCEPT !.owners[c].held = k]
           v1 == TurnsFail(u, c, r)
           v2 == InputsFail(v1, c, h.steering)
           v3 == TurnsFail(v2, c, h.queue)
<1>1. /\ w.owners \in Seq(OwnerStates) /\ o \in OwnerStates /\ DOMAIN w.owners = 1..Len(w.owners)
      /\ o = w.owners[c] /\ c \in DOMAIN w.owners
  BY WorldHas DEF Owner
<1>2. h \in HeldStates
  BY <1>1 DEF OwnerStates
<1>3. k \in HeldStates /\ Spent(k)
  BY <1>2, EmptyIs DEF HeldStates, Spent
<1>4. n \in OwnerStates /\ n.discard = o.discard /\ n.torndown = o.torndown
      /\ n.superseded = o.superseded
  BY <1>1, <1>3 DEF OwnerStates, Holding
<1>5. /\ r \in Seq(Messages) /\ IsInjective(r) /\ ToSet(r) = {h.root} \ {None}
      /\ h.queue \in Seq(Messages)
  <2>1. h.root \in Messages \cup {None} /\ h.queue \in Seq(Messages)
    BY <1>2 DEF HeldStates
  <2>2. CASE h.root = None
    BY <2>1, <2>2, EmptyIs
  <2>3. CASE h.root # None
    <3>1. h.root \in Messages /\ r = <<h.root>>
      BY <2>1, <2>3
    <3>2. {h.root} \ {None} = {h.root}
      BY <2>3
    <3> DEFINE x == h.root
    <3> HIDE DEF x
    <3>3. <<x>> \in Seq(Messages) /\ IsInjective(<<x>>) /\ ToSet(<<x>>) = {x}
      BY <3>1, SingletonIs DEF x
    <3> QED BY <2>1, <3>1, <3>2, <3>3 DEF x
  <2> QED BY <2>2, <2>3
<1>6. v = v3
  BY DEF FailHeld, Owner
<1>11. /\ ~o.torndown /\ w.agent.epoch = c /\ IsInjective(h.queue)
       /\ Vouched(w.agent, c, o, w.fate)
  OBVIOUS
<1> HIDE DEF o, c, k
<1>7. /\ u \in Worlds /\ u.owners = Put(w.owners, c, n) /\ u.agent = w.agent
      /\ u.fate = w.fate /\ u.current = w.current
  <2>1. u = [w EXCEPT !.owners = Put(w.owners, c, n)]
    BY <1>1 DEF Worlds, Put, Holding
  <2>2. Put(w.owners, c, n) \in Seq(OwnerStates)
    BY <1>1, <1>4, OwnersChange
  <2> HIDE DEF u, n
  <2> QED BY <2>1, <2>2 DEF Worlds
<1> HIDE DEF u, r, n
<1>8. u.owners[c] = n
  BY <1>1, <1>4, <1>7, OwnersChange
<1>9. CASE o.discard
  <2>1. ~Listens(u, c)
    BY <1>4, <1>8, <1>9 DEF Listens
  <2>2. v = u
    BY <1>6, <2>1 DEF TurnsFail, InputsFail
  <2> QED BY <1>3, <1>7, <1>9, <1>11, <2>2 DEF c, o, n
<1>10. CASE ~o.discard
  <2>1. ASSUME NEW x, x.owners = u.owners, x.agent.epoch = c PROVE Listens(x, c)
    BY <1>4, <1>8, <1>10, <1>11, <2>1 DEF Listens
  <2>2. Handled(v1, u, c, o, ToSet(r))
    BY <1>5, <1>7, <1>11, <2>1, TurnsFailHandled
  <2> HIDE DEF v1
  <2>3. Handled(v2, v1, c, o, h.steering)
    <3>1. /\ v1 \in Worlds /\ Neat(v1.agent) /\ Honest(v1.agent, v1.fate)
          /\ Vouched(v1.agent, c, o, v1.fate) /\ Listens(v1, c) /\ v1.agent.epoch = c
      BY <1>7, <1>11, <2>1, <2>2 DEF Handled
    <3>2. Failed(v2, v1, c, o, h.steering)
      BY <3>1, InputsFailHandled
    <3> QED BY <3>2 DEF Failed
  <2> HIDE DEF v2
  <2>4. Handled(v3, v2, c, o, ToSet(h.queue))
    <3>1. /\ v2 \in Worlds /\ Neat(v2.agent) /\ Honest(v2.agent, v2.fate)
          /\ Vouched(v2.agent, c, o, v2.fate) /\ Listens(v2, c) /\ v2.agent.epoch = c
      BY <1>7, <1>11, <2>1, <2>2, <2>3 DEF Handled
    <3> QED BY <1>5, <1>11, <3>1, TurnsFailHandled
  <2> HIDE DEF v3
  <2>5. ToSet(r) \cup h.steering \cup ToSet(h.queue) = Held(h)
    BY <1>5 DEF Held
  <2> DEFINE D == ToSet(r)
             E == h.steering
             F == ToSet(h.queue)
  <2> HIDE DEF D, E, F
  <2>6. Handled(v2, u, c, o, D \cup E)
    BY <2>2, <2>3, HandledChain DEF D, E
  <2>7. Handled(v3, u, c, o, (D \cup E) \cup F)
    BY <2>4, <2>6, HandledChain DEF F
  <2>8. Handled(v, u, c, o, Held(h))
    BY <1>6, <2>5, <2>7 DEF D, E, F
  <2> QED BY <1>3, <1>7, <1>10, <1>11, <2>8 DEF Handled, c, o, n
<1> QED BY <1>9, <1>10

\* session.stop of the current owner, if there is one, leaves a sound world.
LEMMA StopSound ==
  ASSUME NEW w, Accounted(w)
  PROVE  /\ Sound(StopSession(w, w.current))
<1> DEFINE c == w.current
           o == Owner(w)
           n == [o EXCEPT !.phase = "stopping"]
           u == [w EXCEPT !.owners[c].phase = "stopping"]
           v == FailHeld(u, c)
<1>1. w \in Worlds /\ c \in 0..Len(w.owners) /\ Len(w.owners) \in Nat
  BY WorldHas DEF Accounted
<1>2. CASE c = 0 \/ o.phase # "open"
  <2>1. StopSession(w, c) = w
    BY <1>2 DEF StopSession, Owner
  <2> QED BY <1>2, <2>1 DEF Sound
<1>3. CASE c # 0 /\ o.phase = "open"
  <2>1. c \in 1..Len(w.owners) /\ w.owners \in Seq(OwnerStates) /\ o \in OwnerStates
        /\ DOMAIN w.owners = 1..Len(w.owners) /\ o = w.owners[c]
    BY <1>1, <1>3, WorldHas DEF Owner
  <2>2. /\ n \in OwnerStates /\ n.phase = "stopping" /\ n.held = o.held /\ n.first = o.first
        /\ n.reported = o.reported /\ n.established = o.established
        /\ n.torndown = o.torndown /\ n.discard = o.discard
    BY <2>1 DEF OwnerStates
  <2>3. /\ u \in Worlds /\ u.owners = Put(w.owners, c, n) /\ u.agent = w.agent
        /\ u.fate = w.fate /\ u.current = w.current
    <3>1. u = [w EXCEPT !.owners = Put(w.owners, c, n)]
      BY <1>1, <2>1 DEF Worlds, Put
    <3>2. Put(w.owners, c, n) \in Seq(OwnerStates)
      BY <2>1, <2>2, OwnersChange
    <3> HIDE DEF u, n
    <3> QED BY <1>1, <3>1, <3>2 DEF Worlds
  <2>4. StopSession(w, c) = v
    BY <1>3, <2>1 DEF StopSession
  <2>15. v = FailHeld(u, c)
    OBVIOUS
  <2> HIDE DEF u, n, v, c, o
  <2>5. u.owners[c] = n /\ c \in DOMAIN u.owners
    BY <2>1, <2>2, <2>3, OwnersChange, WorldHas
  <2>16. Owner(u) = n /\ u.current = c
    BY <2>3, <2>5 DEF Owner, c
  <2>6. /\ ~n.torndown /\ u.agent.epoch = c /\ IsInjective(n.held.queue)
        /\ Neat(u.agent) /\ Honest(u.agent, u.fate) /\ Vouched(u.agent, c, n, u.fate)
    BY <1>3, <2>2, <2>3 DEF Accounted, Placed, Vouched, c, o
  <2>7. PICK h \in HeldStates :
            /\ Spent(h)
            /\ v \in Worlds /\ v.current = c
            /\ v.owners = Put(u.owners, c, Holding(n, h))
            /\ Neat(v.agent) /\ Honest(v.agent, v.fate) /\ Vouched(v.agent, c, n, v.fate)
            /\ v.agent.status = u.agent.status /\ v.agent.epoch = u.agent.epoch
            /\ v.agent.lease = u.agent.lease /\ v.agent.resetting = u.agent.resetting
            /\ ~n.discard => Admissions(v.agent) = Admissions(u.agent) \ Held(n.held)
            /\ n.discard => v.agent = u.agent /\ v.fate = u.fate
    BY <2>3, <2>5, <2>6, <2>15, <2>16, FailHeldIs
  <2> DEFINE t == Holding(n, h)
  <2>8. /\ t \in OwnerStates /\ t.phase = "stopping" /\ t.held = h /\ t.first = n.first
        /\ t.reported = n.reported /\ t.established = n.established
        /\ t.torndown = n.torndown /\ t.discard = n.discard
    BY <2>2, <2>7 DEF OwnerStates, Holding
  <2>9. v.owners = Put(w.owners, c, t)
    BY <2>1, <2>2, <2>3, <2>7, PutAgain
  <2> HIDE DEF t
  <2>10. IsInjective(h.queue)
    BY <2>7, EmptyIs DEF Spent
  <2>11. Vouched(v.agent, c, t, v.fate)
    BY <2>7, <2>8 DEF Vouched
  <2>12. Placed(v.agent, c, t, v.fate)
    <3>1. Placed(w.agent, c, o, w.fate)
      BY DEF Accounted, c, o
    <3>2. ~o.discard => Admissions(v.agent) = {}
      <4>1. ~o.discard => Admissions(w.agent) \subseteq Held(o.held)
        BY <1>3, <3>1 DEF Placed, c, o
      <4> QED BY <2>2, <2>3, <2>7, <4>1
    <3>3. c # 0 /\ w.agent.epoch = c
      BY <2>3, <2>6, <1>3 DEF c
    <3> QED BY <2>2, <2>3, <2>6, <2>7, <2>8, <2>10, <3>1, <3>2, <3>3 DEF Placed
  <2>13. w.current \in DOMAIN w.owners /\ Others(w) /\ w.current = c
    BY <2>1 DEF Accounted, c
  <2> USE DEF c
  <2>14. Sound(v)
    BY <1>1, <2>7, <2>8, <2>9, <2>11, <2>12, <2>13, CurrentChanges
  <2> QED BY <2>4, <2>14
<1> QED BY <1>2, <1>3
-----------------------------------------------------------------------------
(* Changes that are of little interest.                                    *)

\* An agent with the same messages, and a status that is not idle or as it was.
LEMMA AgentAlike ==
  ASSUME NEW w, Accounted(w), NEW b \in AgentStates, Neat(b),
         In(b) = In(w.agent), Admissions(b) = Admissions(w.agent),
         Recoverable(b) = Recoverable(w.agent),
         b.epoch = w.agent.epoch, b.lease = w.agent.lease,
         b.status \in {w.agent.status, "starting", "running", "stopping"},
         NEW v, v = [w EXCEPT !.agent = b]
  PROVE  /\ Accounted(v) /\ v.agent = b /\ v.current = w.current /\ Owner(v) = Owner(w)
         /\ v.owners = w.owners /\ v.fate = w.fate
         /\ Sound(w) /\ b.status \in {w.agent.status, "running"} => Sound(v)
<1> DEFINE a == w.agent
<1>1. w \in Worlds /\ a \in AgentStates
  BY WorldHas DEF Accounted
<1>2. /\ v \in Worlds /\ v.agent = b /\ v.owners = w.owners /\ v.current = w.current
      /\ v.fate = w.fate
  BY <1>1 DEF Worlds
<1>3. Owner(v) = Owner(w)
  BY <1>2 DEF Owner
<1>4. Kept(b) = Kept(a)
  BY <1>1, AgentHas
<1>5. Honest(b, v.fate) /\ Vouched(b, v.current, Owner(v), v.fate)
  BY <1>2, <1>3, <1>4 DEF Accounted, Honest, Vouched
<1>6. Placed(b, v.current, Owner(v), v.fate)
  BY <1>2, <1>3 DEF Accounted, Placed
<1>7. Others(v) /\ Stranded(v)
  BY <1>2 DEF Accounted, Others, Stranded, GivenUp
<1>8. Accounted(v)
  BY <1>2, <1>5, <1>6, <1>7 DEF Accounted
<1>9. ASSUME Sound(w), b.status \in {a.status, "running"} PROVE Sound(v)
  BY <1>2, <1>3, <1>4, <1>8, <1>9 DEF Sound, Agreed, Working
<1> QED BY <1>2, <1>3, <1>8, <1>9

\* An owner that is not the current one changes, and stays given up.
LEMMA OtherChanges ==
  ASSUME NEW w, Sound(w), NEW i \in DOMAIN w.owners, i # w.current,
         NEW o \in OwnerStates, o.torndown, o.phase # "open", w.owners[i].discard => o.discard,
         NEW v \in Worlds, v.agent = w.agent, v.current = w.current, v.fate = w.fate,
         v.owners = Put(w.owners, i, o)
  PROVE  Sound(v)
<1> DEFINE s == w.owners
           t == v.owners
<1>1. s \in Seq(OwnerStates)
  BY WorldHas DEF Sound, Accounted
<1> HIDE DEF s, t
<1>2. DOMAIN t = DOMAIN s /\ t[i] = o /\ \A j \in DOMAIN s : j # i => t[j] = s[j]
  <2>1. t = Put(s, i, o) /\ i \in DOMAIN s
    BY DEF s, t
  <2> QED BY <1>1, <2>1, OwnersChange
<1> USE DEF s, t
<1>3. w.current # 0 => Owner(v) = Owner(w)
  BY <1>2 DEF Owner, Sound, Accounted
<1>4. Others(v)
  BY <1>2 DEF Others, Sound, Accounted
<1>5. GivenUp(w) => GivenUp(v)
  BY <1>2, <1>4 DEF GivenUp, Sound, Accounted, Others
<1>6. /\ Vouched(v.agent, v.current, Owner(v), v.fate)
      /\ Placed(v.agent, v.current, Owner(v), v.fate)
  BY <1>3 DEF Sound, Accounted, Vouched, Placed
<1>7. Accounted(v)
  BY <1>2, <1>4, <1>5, <1>6 DEF Sound, Accounted, Stranded
<1> QED BY <1>3, <1>7 DEF Sound

\* Named, so that the provers need not match the update.
Reporting(o, r) == [o EXCEPT !.reported = r]

\* reportSpawnFailure of any owner: only a message of the current one is told of.
LEMMA ReportIs ==
  ASSUME NEW w \in Worlds, NEW i \in DOMAIN w.owners,
         NEW v, v = ReportSpawnFailure(w, i)
  PROVE  /\ v \in Worlds /\ v.agent = w.agent /\ v.current = w.current
         /\ v.owners = Put(w.owners, i, Reporting(w.owners[i], v.owners[i].reported))
         /\ Reporting(w.owners[i], v.owners[i].reported) \in OwnerStates
         /\ v.owners[i].reported \in BOOLEAN
         /\ w.owners[i].reported => v.owners[i].reported
         /\ w.owners[i].established \/ v.owners[i].reported
         /\ i # w.current => v.fate = w.fate
         /\ \A m \in Messages :
               v.fate[m] = IF /\ ~w.owners[i].established /\ ~w.owners[i].reported
                              /\ i = w.current /\ m = w.owners[i].first
                              /\ m \notin Kept(w.agent) /\ w.fate[m] = "held"
                           THEN "reported" ELSE w.fate[m]
<1> DEFINE o == w.owners[i]
           fails == ~o.established /\ ~o.reported
           r == o.reported \/ fails
           f == IF fails /\ w.current = i THEN Told(w, {o.first}, "reported") ELSE w.fate
           n == Reporting(o, r)
           s == Put(w.owners, i, n)
<1>1. w.owners \in Seq(OwnerStates) /\ o \in OwnerStates /\ w.fate \in [Messages -> Fates]
  BY WorldHas
<1>2. r \in BOOLEAN /\ fails \in BOOLEAN
  BY <1>1 DEF OwnerStates
<1>3. n \in OwnerStates /\ n.reported = r
  BY <1>1, <1>2 DEF OwnerStates, Reporting
<1>4. f \in [Messages -> Fates]
  BY <1>1 DEF Told, Fates
<1>5. v = [w EXCEPT !.owners = s, !.fate = f]
  BY DEF ReportSpawnFailure, Worlds, Put, Reporting
<1>6. \A m \in Messages :
          f[m] = IF fails /\ i = w.current /\ m = o.first
                    /\ m \notin Kept(w.agent) /\ w.fate[m] = "held"
                 THEN "reported" ELSE w.fate[m]
  BY DEF Told
<1>7. i # w.current => f = w.fate
  OBVIOUS
<1> HIDE DEF f, r, n, fails
<1>8. s \in Seq(OwnerStates) /\ s[i] = n
  BY <1>1, <1>3, OwnersChange
<1> HIDE DEF s
<1>9. /\ v \in Worlds /\ v.agent = w.agent /\ v.current = w.current
      /\ v.owners = s /\ v.fate = f
  BY <1>4, <1>5, <1>8 DEF Worlds
<1>10. v.owners[i].reported = r
  BY <1>3, <1>8, <1>9
<1> QED BY <1>2, <1>3, <1>6, <1>7, <1>9, <1>10 DEF s, n, r, fails

\* Afterwards nobody waits for the report of the current owner.
LEMMA ReportAccounted ==
  ASSUME NEW w, Accounted(w), w.current # 0, NEW v, v = ReportSpawnFailure(w, w.current)
  PROVE  /\ Accounted(v) /\ v.current = w.current /\ v.agent = w.agent
         /\ DOMAIN v.owners = DOMAIN w.owners
         /\ \E r \in BOOLEAN : Owner(v) = Reporting(Owner(w), r)
         /\ \A m \in Messages : v.fate[m] = "held" => m \in Kept(v.agent)
         /\ Owner(v) \in OwnerStates
<1> DEFINE o == Owner(w)
           r == v.owners[w.current].reported
           n == Reporting(o, r)
           a == w.agent
<1>1. w \in Worlds /\ w.current \in DOMAIN w.owners /\ o = w.owners[w.current] /\ a \in AgentStates
  BY WorldHas DEF Accounted, Owner
<1>2. o \in OwnerStates /\ w.owners \in Seq(OwnerStates)
  BY <1>1, WorldHas
<1> HIDE DEF o, r, n
<1>3. /\ v \in Worlds /\ v.agent = a /\ v.current = w.current
      /\ v.owners = Put(w.owners, w.current, n)
      /\ n \in OwnerStates /\ r \in BOOLEAN /\ (o.reported => r)
      /\ o.established \/ r
      /\ \A m \in Messages :
            v.fate[m] = IF /\ ~o.established /\ ~o.reported /\ m = o.first
                           /\ m \notin Kept(a) /\ w.fate[m] = "held"
                        THEN "reported" ELSE w.fate[m]
  BY <1>1, ReportIs DEF r, n
<1>4. \A m \in Messages : v.fate[m] = "held" => m \in Kept(a)
  BY <1>3 DEF Accounted, Vouched, o
<1>5. Kept(a) \subseteq Messages /\ Admissions(a) \subseteq Messages
  BY <1>1, AgentHas
<1>6. Honest(a, v.fate)
  BY <1>3, <1>5 DEF Accounted, Honest
<1>7. Vouched(v.agent, w.current, n, v.fate)
  BY <1>3, <1>4 DEF Vouched
<1>8. /\ n.phase = o.phase /\ n.first = o.first /\ n.held = o.held /\ n.ended = o.ended
      /\ n.discard = o.discard /\ n.superseded = o.superseded /\ n.torndown = o.torndown
      /\ n.first \in Messages
  BY <1>2 DEF OwnerStates, Reporting, n
<1>9. Placed(v.agent, w.current, n, v.fate)
  <2>1. Placed(a, w.current, o, w.fate)
    BY DEF Accounted, o
  <2>2. \A m \in Messages : w.fate[m] # "new" => v.fate[m] # "new"
    BY <1>3
  <2> QED BY <1>3, <1>8, <2>1, <2>2 DEF Placed
<1>10. Accounted(v) /\ Owner(v) = n
  <2>1. /\ Others(w) /\ Neat(v.agent) /\ Honest(v.agent, v.fate)
    BY <1>3, <1>6 DEF Accounted
  <2> QED BY <1>1, <1>3, <1>7, <1>9, <2>1, CurrentChanges
<1>11. DOMAIN v.owners = DOMAIN w.owners
  <2> DEFINE s == w.owners
             c == w.current
             t == v.owners
  <2> HIDE DEF s, c, t
  <2>1. s \in Seq(OwnerStates) /\ c \in DOMAIN s /\ t = Put(s, c, n)
    BY <1>1, <1>2, <1>3 DEF s, c, t
  <2>2. DOMAIN t = DOMAIN s
    BY <1>3, <2>1, OwnersChange
  <2> QED BY <2>2 DEF s, t
<1>12. Owner(v) = Reporting(Owner(w), r)
  BY <1>10 DEF n, o
<1> QED BY <1>3, <1>4, <1>10, <1>11, <1>12
-----------------------------------------------------------------------------
(* Spawning and leaving.                                                   *)

\* What doSpawn needs of an agent without an owner: nothing is admitted, and the
\* messages it is given are its own.
Ready(w, q) ==
    /\ w \in Worlds /\ w.current = 0 /\ Neat(w.agent) /\ Others(w)
    /\ w.agent.epoch = 0 /\ w.agent.lease = "detached" /\ Admissions(w.agent) = {}
    /\ q \in Seq(Messages) /\ q # <<>> /\ IsInjective(q) /\ In(w.agent) \cap ToSet(q) = {}
    /\ \A m \in In(w.agent) \cup ToSet(Tail(q)) : w.fate[m] = "held"
    /\ w.fate[Head(q)] # "new"
    /\ \A m \in Messages : w.fate[m] = "held" => m \in In(w.agent) \cup ToSet(q)

\* An owner without messages of its own is none of anyone's business.
LEMMA NewOwnerIs ==
  ASSUME NEW m \in Messages, NEW o, o = NewOwner(m)
  PROVE  /\ o \in OwnerStates /\ o.phase = "opening" /\ o.first = m /\ o.held = Empty
         /\ ~o.reported /\ ~o.established /\ ~o.torndown /\ ~o.discard /\ ~o.ended
         /\ ~o.superseded /\ Empty \in HeldStates /\ IsInjective(Empty.queue)
<1>1. Empty \in HeldStates /\ IsInjective(Empty.queue)
  BY EmptyIs DEF Empty, HeldStates
<1> QED BY <1>1 DEF NewOwner, OwnerStates

LEMMA AppendOwnerIs ==
  ASSUME NEW s \in Seq(OwnerStates), NEW o \in OwnerStates, NEW t, t = Append(s, o)
  PROVE  /\ t \in Seq(OwnerStates) /\ Len(s) \in Nat
         /\ DOMAIN s = 1..Len(s) /\ DOMAIN t = 1..(Len(s) + 1)
         /\ t[Len(s) + 1] = o /\ \A i \in 1..Len(s) : t[i] = s[i]
<1>1. Len(s) \in Nat /\ DOMAIN s = 1..Len(s)
  BY LenProperties
<1>2. /\ t \in Seq(OwnerStates) /\ Len(t) = Len(s) + 1
      /\ \A i \in 1..Len(s) : t[i] = s[i] /\ t[Len(s) + 1] = o
  BY AppendProperties
<1>3. t[Len(s) + 1] = o
  BY AppendProperties
<1> QED BY <1>1, <1>2, <1>3, LenProperties

\* doSpawn leaves a sound world.
LEMMA SpawnSound ==
  ASSUME NEW w, NEW q, Ready(w, q), w.agent.status # "idle", NEW v, v = Spawn(w, q)
  PROVE  /\ Sound(v) /\ v.agent.status = w.agent.status
         /\ ~healthy => v.current = 0
<1> DEFINE a == w.agent
           f == w.fate
           m == Head(q)
           r == Tail(q)
           b == QueueDelivery(a, r)
           before == [i \in DOMAIN w.owners |->
                         [w.owners[i] EXCEPT !.superseded = @ \/ i = w.current]]
           o == NewOwner(m)
           s == w.owners
           t == Append(s, o)
           g == [f EXCEPT ![m] = IF @ = "held" THEN "abandoned" ELSE @]
<1>1. /\ w \in Worlds /\ a \in AgentStates /\ Neat(a) /\ s \in Seq(OwnerStates)
      /\ f \in [Messages -> Fates] /\ Len(s) \in Nat /\ DOMAIN s = 1..Len(s)
      /\ \A i \in DOMAIN s : s[i] \in OwnerStates
      /\ w.current = 0 /\ 0 \notin DOMAIN s
  BY WorldHas DEF Ready
<1>2. /\ m \in Messages /\ r \in Seq(Messages) /\ ToSet(q) = {m} \cup ToSet(r)
      /\ IsInjective(r) /\ m \notin ToSet(r)
  BY TailIs DEF Ready
<1>3. In(a) \cap ToSet(q) = {} /\ Admissions(a) = {} /\ Recoverable(a) = {}
  <2>1. In(a) \cap ToSet(q) = {} /\ Admissions(a) = {}
    BY DEF Ready
  <2> QED BY <1>1, <2>1, AgentHas
<1>4. before = s
  <2>1. ASSUME NEW i \in DOMAIN s PROVE before[i] = s[i]
    <3>1. s[i].superseded \in BOOLEAN /\ i # w.current
      BY <1>1 DEF OwnerStates
    <3> QED BY <1>1, <3>1 DEF OwnerStates
  <2>2. DOMAIN before = DOMAIN s /\ before = [i \in DOMAIN s |-> before[i]]
    OBVIOUS
  <2>3. s = [i \in DOMAIN s |-> s[i]]
    BY <1>1
  <2> HIDE DEF before
  <2> QED BY <2>1, <2>2, <2>3
<1>5. v = IF ~healthy THEN [w EXCEPT !.agent = b, !.fate = g]
          ELSE [w EXCEPT !.agent = b, !.owners = t, !.current = Len(s) + 1]
  <2>1. v = IF ~healthy THEN [w EXCEPT !.agent = b, !.fate = g]
            ELSE [w EXCEPT !.agent = b, !.owners = Append(before, o), !.current = Len(s) + 1]
    BY <1>1 DEF Spawn, Worlds
  <2> HIDE DEF before
  <2> QED BY <1>4, <2>1
<1> HIDE DEF before
<1>6. Shows(b, a, In(a) \cup ToSet(r), Admissions(a), Recoverable(a))
  <2>1. ToSet(r) \cap Admissions(a) = {}
    BY <1>3
  <2> HIDE DEF r
  <2> QED BY <1>1, <1>2, <2>1, QueueDeliveryIs
<1> DEFINE E == In(a) \cup ToSet(r)
<1>7. /\ b \in AgentStates /\ Neat(b) /\ In(b) = E /\ Admissions(b) = {}
      /\ Recoverable(b) = {} /\ Kept(b) = E
      /\ b.status = a.status /\ b.epoch = 0 /\ b.lease = "detached"
  <2>1. a.epoch = 0 /\ a.lease = "detached"
    BY DEF Ready
  <2>2. Shows(b, a, E, {}, {})
    BY <1>3, <1>6
  <2> HIDE DEF b, E
  <2>3. b \in AgentStates /\ In(b) = E /\ Recoverable(b) = {}
    BY <2>2 DEF Shows
  <2>4. Kept(b) = E
    BY <2>3, AgentHas
  <2> QED BY <2>1, <2>2, <2>3, <2>4 DEF Shows
<1>8. /\ \A x \in E : f[x] = "held" /\ x \in Messages
      /\ m \notin E
      /\ \A x \in Messages : f[x] = "held" => x \in E \/ x = m
      /\ f[m] # "new"
  <2>1. In(a) \subseteq Messages
    BY <1>1, AgentHas
  <2>2. E \subseteq Messages
    BY <1>7, AgentHas
  <2> QED BY <1>2, <1>3, <2>2 DEF Ready
<1>9. o \in OwnerStates
  BY <1>2, NewOwnerIs
<1> HIDE DEF b, o, E, m, r
<1>10. CASE healthy
  <2> HIDE DEF t
  <2>1. /\ t \in Seq(OwnerStates) /\ DOMAIN t = 1..(Len(s) + 1) /\ t[Len(s) + 1] = o
        /\ \A i \in 1..Len(s) : t[i] = s[i]
    BY <1>1, <1>9, AppendOwnerIs DEF t
  <2>2. /\ v \in Worlds /\ v.agent = b /\ v.owners = t /\ v.current = Len(s) + 1 /\ v.fate = f
    <3> DEFINE n == Len(s) + 1
    <3>1. n \in Nat
      BY <1>1
    <3>2. v = [w EXCEPT !.agent = b, !.owners = t, !.current = n]
      BY <1>5, <1>10
    <3> HIDE DEF n, s
    <3>3. /\ v \in Worlds /\ v.agent = b /\ v.owners = t /\ v.current = n /\ v.fate = f
      BY <1>1, <1>7, <2>1, <3>1, <3>2 DEF Worlds
    <3> QED BY <3>3 DEF n, s
  <2>3. Owner(v) = o /\ v.current # 0 /\ v.current \in DOMAIN v.owners
    BY <1>1, <2>1, <2>2 DEF Owner
  <2>4. Others(v)
    <3>1. \A i \in 1..Len(s) : s[i].torndown /\ s[i].phase # "open"
      BY <1>1 DEF Ready, Others
    <3>2. \A i \in 1..(Len(s) + 1) : i # Len(s) + 1 => i \in 1..Len(s)
      BY <1>1
    <3> QED BY <2>1, <2>2, <3>1, <3>2 DEF Others
  <2>5. Honest(b, f)
    BY <1>7, <1>8 DEF Honest
  <2>6. Vouched(b, v.current, o, f)
    BY <1>2, <1>7, <1>8, <2>3, NewOwnerIs DEF Vouched, o
  <2>7. Placed(b, v.current, o, f)
    <3> DEFINE c == v.current
    <3>1. c # 0
      BY <2>3
    <3> HIDE DEF c
    <3>2. /\ o.phase = "opening" /\ o.first = m /\ o.held = Empty /\ ~o.torndown /\ ~o.discard
          /\ ~o.ended /\ IsInjective(o.held.queue)
      BY <1>2, NewOwnerIs DEF o
    <3>3. Placed(b, c, o, f)
      BY <1>7, <1>8, <3>1, <3>2 DEF Placed
    <3> QED BY <3>3 DEF c
  <2>8. Stranded(v)
    BY <2>3 DEF Stranded
  <2>9. Accounted(v)
    BY <1>7, <2>2, <2>3, <2>4, <2>5, <2>6, <2>7, <2>8 DEF Accounted
  <2>10. o.phase = "opening"
    BY <1>2, NewOwnerIs DEF o
  <2> QED BY <1>7, <1>10, <2>2, <2>3, <2>9, <2>10 DEF Sound
<1>11. CASE ~healthy
  <2>1. /\ g \in [Messages -> Fates] /\ g[m] \notin {"held", "new"}
        /\ \A x \in Messages : x # m => g[x] = f[x]
    BY <1>1, <1>2, <1>8 DEF Fates
  <2> HIDE DEF g
  <2>2. v \in Worlds /\ v.agent = b /\ v.owners = s /\ v.current = 0 /\ v.fate = g
    BY <1>1, <1>5, <1>7, <1>11, <2>1 DEF Worlds
  <2>3. Others(v)
    BY <1>1, <2>2 DEF Ready, Others
  <2>4. Honest(b, g)
    BY <1>7, <1>8, <2>1 DEF Honest
  <2>5. Vouched(b, 0, Owner(v), g)
    BY <1>7, <1>8, <2>1 DEF Vouched
  <2>6. Placed(b, 0, Owner(v), g)
    BY <1>7 DEF Placed
  <2>7. b.status # "idle"
    BY <1>7
  <2>8. Accounted(v)
    BY <1>7, <2>2, <2>3, <2>4, <2>5, <2>6, <2>7 DEF Accounted, Stranded
  <2> QED BY <1>7, <2>2, <2>8 DEF Sound
<1> QED BY <1>10, <1>11

\* exit, of an agent that has no owner any more: it ends up idle with something
\* in the inbox only if that was given back although events were discarded.
LEMMA ExitSound ==
  ASSUME NEW w \in Worlds, w.current = 0, Neat(w.agent), Honest(w.agent, w.fate), Others(w),
         \A m \in Messages : w.fate[m] = "held" => m \in Kept(w.agent),
         In(w.agent) # {} \/ Recoverable(w.agent) = {} \/ GivenUp(w)
  PROVE  Sound(Exit(w))
<1> DEFINE a == w.agent
           b == Exited(a)
           q == a.inbox
           v == [w EXCEPT !.agent = b]
<1>1. a \in AgentStates /\ w.fate \in [Messages -> Fates]
  BY WorldHas
<1>2. /\ b \in AgentStates /\ Neat(b) /\ In(b) = Recoverable(a)
      /\ Admissions(b) = {} /\ Recoverable(b) = {}
      /\ b.epoch = 0 /\ b.lease = "detached"
      /\ b.status = IF ExitSpawns(a) THEN "starting" ELSE "idle"
  BY <1>1, ExitedIs DEF NoSession
<1>3. Kept(b) = Recoverable(a) /\ Kept(a) = In(a) \cup Recoverable(a)
      /\ Recoverable(a) \subseteq Admissions(a) /\ q \in Seq(Messages)
      /\ In(a) \subseteq Messages /\ Admissions(a) \subseteq Messages
  BY <1>1, <1>2, AgentHas
<1>4. Exit(w) = IF ExitSpawns(a) THEN Spawn(v, q) ELSE v
  BY DEF Exit
<1> HIDE DEF b
<1>5. /\ v \in Worlds /\ v.agent = b /\ v.owners = w.owners /\ v.current = 0
      /\ v.fate = w.fate
  BY <1>1, <1>2 DEF Worlds
<1> HIDE DEF v
<1>6. Others(v)
  BY <1>5 DEF Others
<1>7. CASE ExitSpawns(a)
  <2>1. q # <<>> /\ IsInjective(q) /\ ToSet(q) = In(a)
    BY <1>7 DEF ExitSpawns, Neat, In
  <2>2. In(b) \cap ToSet(q) = {}
    BY <1>2, <1>3, <2>1 DEF Neat
  <2>3. /\ Head(q) \in ToSet(q) /\ ToSet(Tail(q)) \subseteq ToSet(q)
    BY <1>3, <2>1, TailIs
  <2>4. \A m \in In(a) \cup Recoverable(a) : w.fate[m] = "held"
    BY <1>3 DEF Honest
  <2>5. Ready(v, q)
    BY <1>2, <1>3, <1>5, <1>6, <2>1, <2>2, <2>3, <2>4 DEF Ready
  <2> QED BY <1>2, <1>4, <1>5, <1>7, <2>5, SpawnSound
<1>8. CASE ~ExitSpawns(a)
  <2>1. In(a) = {}
    BY <1>1, <1>8, AgentEmpty DEF ExitSpawns
  <2>2. Kept(b) = Kept(a)
    BY <1>3, <2>1
  <2>3. Honest(b, v.fate) /\ Vouched(b, 0, Owner(v), v.fate)
    BY <1>2, <1>5, <2>2 DEF Honest, Vouched
  <2>4. Placed(b, 0, Owner(v), v.fate)
    BY <1>2 DEF Placed
  <2>5. Recoverable(a) = {} \/ GivenUp(w)
    BY <2>1
  <2>6. Stranded(v)
    BY <1>2, <1>5, <2>5 DEF Stranded, GivenUp
  <2>7. Accounted(v)
    BY <1>2, <1>5, <1>6, <2>3, <2>4, <2>6 DEF Accounted
  <2> QED BY <1>4, <1>5, <1>8, <2>7 DEF Sound
<1> QED BY <1>7, <1>8

\* exit of an agent that had no owner.
LEMMA ExitAgain ==
  ASSUME NEW w, Sound(w), w.current = 0
  PROVE  Sound(Exit(w))
<1>1. /\ w \in Worlds /\ Neat(w.agent) /\ Honest(w.agent, w.fate) /\ Others(w)
      /\ Vouched(w.agent, 0, Owner(w), w.fate) /\ Placed(w.agent, 0, Owner(w), w.fate)
  BY DEF Sound, Accounted
<1>2. w.agent \in AgentStates /\ Admissions(w.agent) = {}
  BY <1>1, WorldHas DEF Placed
<1>3. Recoverable(w.agent) = {}
  BY <1>2, AgentHas
<1>4. \A m \in Messages : w.fate[m] = "held" => m \in Kept(w.agent)
  BY <1>1 DEF Vouched
<1> QED BY <1>1, <1>3, <1>4, ExitSound
-----------------------------------------------------------------------------
(* Delivery.                                                               *)

\* A message that was just delivered is nobody's yet.
LEMMA NewIsNowhere ==
  ASSUME NEW w, Accounted(w), NEW m \in Messages, w.fate[m] = "new"
  PROVE  m \notin In(w.agent) \cup Admissions(w.agent)
<1>1. w.agent \in AgentStates
  BY WorldHas DEF Accounted
<1>2. Kept(w.agent) = In(w.agent) \cup Recoverable(w.agent)
  BY <1>1, AgentHas
<1> QED BY <1>2 DEF Accounted, Honest

\* The message joins the inbox of an agent that is not idle.
Woken(w, m) == [w EXCEPT !.agent = Wakes(w.agent, m), !.fate[m] = "held"]

LEMMA WakeSound ==
  ASSUME NEW w, Accounted(w), NEW m \in Messages, w.fate[m] = "new",
         w.agent.status # "idle", NEW v, v = Woken(w, m)
  PROVE  /\ Accounted(v)
         /\ Sound(w) => Sound(v)
         /\ v.agent = Wakes(w.agent, m) /\ v.owners = w.owners /\ v.current = w.current
<1> DEFINE a == w.agent
           f == w.fate
           o == Owner(w)
           b == Wakes(a, m)
           g == [f EXCEPT ![m] = "held"]
<1>1. w \in Worlds /\ a \in AgentStates /\ f \in [Messages -> Fates] /\ Neat(a)
  BY WorldHas DEF Accounted
<1>2. m \notin In(a) \cup Admissions(a)
  BY NewIsNowhere
<1>3. Shows(b, a, In(a) \cup {m}, Admissions(a), Recoverable(a))
  BY <1>1, <1>2, WakesIs
<1>15. v = [w EXCEPT !.agent = b, !.fate = g]
  BY <1>1 DEF Woken, Worlds
<1> HIDE DEF b
<1>4. /\ g \in [Messages -> Fates] /\ g[m] = "held" /\ \A x \in Messages : x # m => g[x] = f[x]
  BY <1>1 DEF Fates
<1> HIDE DEF g
<1>5. /\ v \in Worlds /\ v.agent = b /\ v.owners = w.owners /\ v.current = w.current
      /\ v.fate = g
  <2>1. b \in AgentStates
    BY <1>3 DEF Shows
  <2> QED BY <1>1, <1>4, <1>15, <2>1 DEF Worlds
<1>6. Owner(v) = o
  BY <1>5 DEF Owner
<1> DEFINE E == In(a) \cup {m}
<1> HIDE DEF E
<1>7. /\ b \in AgentStates /\ Neat(b) /\ In(b) = E /\ Admissions(b) = Admissions(a)
      /\ Recoverable(b) = Recoverable(a) /\ b.status = a.status /\ b.epoch = a.epoch
      /\ b.lease = a.lease /\ b.resetting = a.resetting
  BY <1>3 DEF Shows, E
<1>8. /\ Kept(b) = Kept(a) \cup {m} /\ Kept(a) \subseteq Messages
      /\ Admissions(a) \subseteq Messages
  <2>1. Kept(b) = In(b) \cup Recoverable(b)
    BY <1>7, AgentHas
  <2> QED BY <1>1, <1>7, <2>1, AgentHas DEF E
<1>9. Honest(b, g)
  BY <1>4, <1>7, <1>8 DEF Honest, Accounted
<1>10. Vouched(b, w.current, o, g)
  BY <1>4, <1>8 DEF Vouched, Accounted
<1>11. Placed(b, w.current, o, g)
  <2>1. Placed(a, w.current, o, f)
    BY DEF Accounted
  <2>2. ASSUME w.current # 0, o.phase = "opening" PROVE o.first \notin In(b) /\ g[o.first] # "new"
    <3>1. o.first \notin In(a) /\ f[o.first] # "new"
      BY <2>1, <2>2 DEF Placed
    <3>2. o.first \in Messages
      <4>1. o \in OwnerStates
        BY <1>1, <2>2, WorldHas DEF Accounted, Owner
      <4> QED BY <4>1 DEF OwnerStates
    <3> QED BY <1>4, <1>7, <3>1, <3>2 DEF E
  <2> QED BY <1>7, <2>1, <2>2 DEF Placed
<1>12. Others(v) /\ Stranded(v)
  BY <1>5, <1>7 DEF Accounted, Others, Stranded
<1>13. Accounted(v)
  BY <1>5, <1>6, <1>7, <1>9, <1>10, <1>11, <1>12 DEF Accounted
<1>14. ASSUME Sound(w), w.current # 0, o.phase = "open" PROVE Agreed(b, o, g)
  <2>1. Agreed(a, o, f)
    BY <1>14 DEF Sound
  <2>2. o.held.taken \subseteq Messages
    <3>1. o \in OwnerStates
      BY <1>1, <1>14, WorldHas DEF Accounted, Owner
    <3> QED BY <3>1 DEF OwnerStates, HeldStates
  <2>3. \A x \in o.held.taken : g[x] \notin {"new", "held"}
    BY <1>4, <2>1, <2>2 DEF Agreed
  <2>4. \A x \in Messages : g[x] = "held" /\ x \notin Kept(b) => o.held.root = x
    BY <1>4, <1>8, <2>1 DEF Agreed
  <2> QED BY <1>7, <2>1, <2>3, <2>4 DEF Agreed, Working
<1> QED BY <1>5, <1>6, <1>13, <1>14 DEF Sound, b

\* What Admit makes of what the session holds: the new messages and nothing else
\* are added to it.
Joined(k, h, q) ==
    /\ k \in HeldStates /\ Held(k) = Held(h) \cup ToSet(q) /\ IsInjective(k.queue)
    /\ k.root \notin ToSet(k.queue) \cup k.steering
    /\ ToSet(k.queue) \cap k.steering = {}
    /\ k.turn = "starting" <=> k.root # None
    /\ k.turn = "working" <=> h.turn = "working"
    /\ k.taken = h.taken
    /\ h.root # None => k.root = h.root

\* Named, so that the provers need not match the update.
Sent(w, q, D, k) == [w EXCEPT !.agent = AdmissionsStarted(w.agent, q, D, TRUE),
                              !.owners = Put(w.owners, w.current, Holding(Owner(w), k))]

Admitted(w, h, q) == \E k, D : Joined(k, h, q) /\ Admit(w, q) = Sent(w, q, D, k)

LEMMA AdmitIs ==
  ASSUME NEW w \in Worlds, w.current \in DOMAIN w.owners, NEW h, h = Owner(w).held,
         NEW q \in Seq(Messages), IsInjective(q), ToSet(q) \cap Held(h) = {},
         IsInjective(h.queue), h.root \notin ToSet(h.queue) \cup h.steering,
         ToSet(h.queue) \cap h.steering = {}, h.turn = "starting" <=> h.root # None
  PROVE  Admitted(w, h, q)
<1> DEFINE i == w.current
           opens == h.turn = "none" /\ h.queue = <<>> /\ q # <<>>
           rest == IF opens THEN Tail(q) ELSE q
           steered == IF w.owners[i].delivery = "steer" /\ (opens \/ h.turn # "none")
                      THEN ToSet(rest) \ returned ELSE {}
           queued == Minus(rest, steered)
           root == IF opens THEN Head(q) ELSE h.root
           turn == IF opens THEN "starting" ELSE h.turn
           queue == h.queue \o queued
           k == [h EXCEPT !.turn = turn, !.root = root,
                          !.steering = h.steering \cup steered, !.queue = queue]
<1>1. h \in HeldStates
  BY WorldHas DEF Owner, OwnerStates
<1>2. /\ h.turn \in {"none", "starting", "working"} /\ h.root \in Messages \cup {None}
      /\ h.queue \in Seq(Messages) /\ h.steering \subseteq Messages /\ h.taken \subseteq Messages
  BY <1>1 DEF HeldStates
<1>3. Admit(w, q) = Sent(w, q, ToSet(queued), k)
  BY WorldHas DEF Admit, Worlds, Put, Holding, Owner, Sent
<1>4. None \notin Messages
  BY BoundsAssumption DEF None, Messages
<1>5. /\ rest \in Seq(Messages) /\ IsInjective(rest)
      /\ opens => ToSet(q) = {root} \cup ToSet(rest) /\ root \in Messages
                  /\ root \notin ToSet(rest)
      /\ ~opens => rest = q /\ root = h.root
  <2>1. CASE opens
    <3>1. /\ Head(q) \in Messages /\ Tail(q) \in Seq(Messages)
          /\ ToSet(q) = {Head(q)} \cup ToSet(Tail(q))
          /\ IsInjective(Tail(q)) /\ Head(q) \notin ToSet(Tail(q))
      BY <2>1, TailIs
    <3> QED BY <2>1, <3>1
  <2>2. CASE ~opens
    BY <2>2
  <2> QED BY <2>1, <2>2
<1>6. steered \subseteq ToSet(rest)
  OBVIOUS
<1>7. opens => h.turn = "none" /\ h.root = None
  OBVIOUS
<1>8. turn \in {"none", "starting", "working"} /\ (opens => turn = "starting")
      /\ (~opens => turn = h.turn)
  BY <1>2
<1>14. k = [h EXCEPT !.turn = turn, !.root = root,
                     !.steering = h.steering \cup steered, !.queue = queue]
  OBVIOUS
<1> HIDE DEF opens, rest, steered, root, turn, k
<1>9. /\ queued \in Seq(Messages) /\ ToSet(queued) = ToSet(rest) \ steered
      /\ IsInjective(queued)
  BY <1>5, MinusIs
<1> HIDE DEF queued
<1>10. ToSet(rest) \cap Held(h) = {} /\ (opens => root \notin Held(h))
  BY <1>5
<1>11. Held(h) = ({h.root} \ {None}) \cup ToSet(h.queue) \cup h.steering
  BY DEF Held
<1>12. /\ queue \in Seq(Messages) /\ ToSet(queue) = ToSet(h.queue) \cup ToSet(queued)
       /\ IsInjective(queue)
  <2>1. ToSet(h.queue) \cap ToSet(queued) = {}
    BY <1>9, <1>10, <1>11
  <2> QED BY <1>2, <1>9, <2>1, ConcatIs
<1> HIDE DEF queue
<1>13. ToSet(rest) \subseteq Messages
  <2>1. \A x \in ToSet(rest) : x \in ToSet(q)
    BY <1>5
  <2>2. \A j \in DOMAIN q : q[j] \in Messages
    BY LenProperties, ElementOfSeq
  <2> QED BY <2>1, <2>2 DEF ToSet
<1>15. /\ k \in HeldStates /\ k.turn = turn /\ k.root = root /\ k.queue = queue
       /\ k.steering = h.steering \cup steered /\ k.taken = h.taken
  <2>1. root \in Messages \cup {None} /\ h.steering \cup steered \subseteq Messages
    BY <1>2, <1>5, <1>6, <1>13
  <2> DEFINE x == h.steering \cup steered
  <2>2. k = [h EXCEPT !.turn = turn, !.root = root, !.steering = x, !.queue = queue]
        /\ x \in SUBSET Messages
    BY <1>14, <2>1
  <2> HIDE DEF x
  <2>3. k \in HeldStates /\ k.turn = turn /\ k.root = root /\ k.queue = queue
        /\ k.steering = x /\ k.taken = h.taken
    BY <1>1, <1>8, <1>12, <2>1, <2>2 DEF HeldStates
  <2> QED BY <2>3 DEF x
<1>16. Held(k) = Held(h) \cup ToSet(q)
  <2>1. Held(k) = ({root} \ {None}) \cup (ToSet(h.queue) \cup ToSet(queued))
                     \cup (h.steering \cup steered)
    BY <1>12, <1>15 DEF Held
  <2>2. ToSet(queued) \cup steered = ToSet(rest)
    BY <1>6, <1>9
  <2>3. CASE opens
    <3>1. ToSet(q) = {root} \cup ToSet(rest) /\ {root} \ {None} = {root} /\ {h.root} \ {None} = {}
      BY <1>4, <1>5, <1>7, <2>3
    <3> QED BY <1>11, <2>1, <2>2, <3>1
  <2>4. CASE ~opens
    BY <1>5, <1>11, <2>1, <2>2, <2>4
  <2> QED BY <2>3, <2>4
<1>17. root \notin ToSet(queue) \cup (h.steering \cup steered)
  <2>1. CASE opens
    <3>1. root \notin ToSet(rest) /\ root \notin ToSet(h.queue) \cup h.steering
      BY <1>5, <1>10, <1>11, <2>1
    <3> QED BY <1>6, <1>9, <1>12, <3>1
  <2>2. CASE ~opens
    <3>1. root \notin ToSet(rest)
      <4>1. CASE root = None
        BY <1>4, <1>13, <4>1
      <4>2. CASE root # None
        BY <1>5, <1>10, <1>11, <2>2, <4>2
      <4> QED BY <4>1, <4>2
    <3> QED BY <1>5, <1>6, <1>9, <1>12, <2>2, <3>1
  <2> QED BY <2>1, <2>2
<1>18. ToSet(queue) \cap (h.steering \cup steered) = {}
  BY <1>6, <1>9, <1>10, <1>11, <1>12
<1>19. turn = "starting" <=> root # None
  BY <1>4, <1>5, <1>8
<1>20. turn = "working" <=> h.turn = "working"
  BY <1>7, <1>8
<1>21. h.root # None => root = h.root
  BY <1>5, <1>7
<1>22. Joined(k, h, q)
  BY <1>12, <1>15, <1>16, <1>17, <1>18, <1>19, <1>20, <1>21 DEF Joined
<1>23. \E D : Admit(w, q) = Sent(w, q, D, k)
  BY <1>3
<1> QED BY <1>22, <1>23 DEF Admitted

\* Sending what is in the inbox, or putting it back, leaves a sound world.
LEMMA SendSound ==
  ASSUME NEW v, Sound(v), NEW w, w = [v EXCEPT !.agent = Drained(v.agent)],
         NEW x, x = Send(w, v.agent.inbox)
  PROVE  Sound(x)
<1> DEFINE a == v.agent
           d == Drained(a)
           q == a.inbox
           o == Owner(v)
           h == o.held
           f == v.fate
<1>1. /\ v \in Worlds /\ a \in AgentStates /\ Neat(a) /\ Accounted(v)
      /\ q \in Seq(Messages) /\ IsInjective(q) /\ ToSet(q) = In(a)
  BY WorldHas, AgentHas DEF Sound, Accounted, Neat, In
<1>2. Shows(d, a, {}, Admissions(a), Recoverable(a))
  BY <1>1, DrainedIs
<1>3. /\ d \in AgentStates /\ Neat(d) /\ In(d) = {} /\ Admissions(d) = Admissions(a)
      /\ Recoverable(d) = Recoverable(a) /\ d.status = a.status /\ d.epoch = a.epoch
      /\ d.lease = a.lease /\ d.resetting = a.resetting
  BY <1>2 DEF Shows
<1>4. ToSet(q) \cap Admissions(a) = {}
  BY <1>1 DEF Neat
<1>9. w = [v EXCEPT !.agent = d]
  OBVIOUS
<1> HIDE DEF d
<1>5. /\ w \in Worlds /\ w.agent = d /\ w.owners = v.owners /\ w.current = v.current
      /\ w.fate = f
  BY <1>1, <1>3, <1>9 DEF Worlds
<1>6. Owner(w) = o
  BY <1>5 DEF Owner
<1>7. CASE ~CanSend(w)
  <2> DEFINE b == QueueDelivery(d, q)
             E == In(d) \cup ToSet(q)
  <2>1. x = [w EXCEPT !.agent = b]
    BY <1>5, <1>7 DEF Send
  <2>2. Shows(b, d, E, Admissions(d), Recoverable(d))
    <3>1. ToSet(q) \cap Admissions(d) = {}
      BY <1>3, <1>4
    <3> QED BY <1>1, <1>3, <3>1, QueueDeliveryIs
  <2>3. E = In(a)
    BY <1>1, <1>3
  <2> HIDE DEF b, E
  <2>4. /\ b \in AgentStates /\ Neat(b) /\ In(b) = In(a) /\ Admissions(b) = Admissions(a)
        /\ Recoverable(b) = Recoverable(a) /\ b.status = a.status /\ b.epoch = a.epoch
        /\ b.lease = a.lease
    BY <1>3, <2>2, <2>3 DEF Shows
  <2>5. x = [v EXCEPT !.agent = b]
    BY <1>1, <1>5, <2>1 DEF Worlds
  <2> QED BY <1>1, <2>4, <2>5, AgentAlike
<1>8. CASE CanSend(w)
  <2>1. /\ v.current # 0 /\ o.phase = "open" /\ ~o.torndown /\ ~o.superseded
        /\ a.status = "running" /\ a.epoch = v.current
    BY <1>3, <1>5, <1>8 DEF CanSend, Owner
  <2>2. /\ v.current \in DOMAIN v.owners /\ o \in OwnerStates
        /\ Honest(a, f) /\ Vouched(a, v.current, o, f) /\ Placed(a, v.current, o, f)
        /\ Agreed(a, o, f) /\ Others(v)
    BY <1>1, <2>1, WorldHas DEF Sound, Accounted, Owner
  <2>3. ~o.discard /\ Admissions(a) = Held(h)
    BY <2>1, <2>2 DEF Agreed, Placed
  <2>4. /\ IsInjective(h.queue) /\ h.root \notin ToSet(h.queue) \cup h.steering
        /\ ToSet(h.queue) \cap h.steering = {} /\ (h.turn = "starting" <=> h.root # None)
        /\ h = Owner(w).held /\ w.current \in DOMAIN w.owners
    BY <1>5, <1>6, <2>1, <2>2 DEF Agreed, Placed
  <2>5. ToSet(q) \cap Held(h) = {}
    BY <1>4, <2>3
  <2>6. PICK k, D : Joined(k, h, q) /\ Admit(w, q) = Sent(w, q, D, k)
    <3> HIDE DEF q, h, o
    <3>1. Admitted(w, h, q)
      BY <1>1, <1>5, <2>4, <2>5, AdmitIs
    <3> QED BY <3>1 DEF Admitted
  <2> DEFINE b == AdmissionsStarted(d, q, D, TRUE)
             n == Holding(o, k)
             t == Put(v.owners, v.current, n)
  <2>7. x = [w EXCEPT !.agent = b, !.owners = t]
    BY <1>5, <1>6, <1>8, <2>6 DEF Send, Sent
  <2> DEFINE Q == ToSet(q)
  <2>8. Shows(b, d, In(d), Admissions(d) \cup Q, Recoverable(d) \cup Q)
    <3>1. Q \cap (In(d) \cup Admissions(d)) = {}
      BY <1>3, <1>4
    <3> QED BY <1>1, <1>3, <3>1, AdmissionsStartedIs
  <2> HIDE DEF b, Q
  <2>9. /\ b \in AgentStates /\ Neat(b) /\ In(b) = {} /\ Admissions(b) = Admissions(a) \cup Q
        /\ Recoverable(b) = Recoverable(a) \cup Q /\ b.status = a.status /\ b.epoch = a.epoch
        /\ b.lease = a.lease /\ b.resetting = a.resetting
    BY <1>3, <2>8 DEF Shows
  <2>10. /\ n \in OwnerStates /\ n.held = k /\ n.phase = o.phase /\ n.first = o.first
         /\ n.reported = o.reported /\ n.established = o.established
         /\ n.torndown = o.torndown /\ n.discard = o.discard /\ n.superseded = o.superseded
         /\ n.ended = o.ended
    BY <2>2, <2>6 DEF OwnerStates, Holding, Joined
  <2>11. t \in Seq(OwnerStates)
    <3> HIDE DEF n
    <3> QED BY <1>1, <2>2, <2>10, WorldHas, OwnersChange
  <2>20. t = Put(v.owners, v.current, n)
    OBVIOUS
  <2> HIDE DEF t, n
  <2>12. /\ x \in Worlds /\ x.agent = b /\ x.owners = t /\ x.current = v.current /\ x.fate = f
    BY <1>5, <2>7, <2>9, <2>11 DEF Worlds
  <2>13. Kept(b) = Kept(a) /\ In(a) = Q /\ Q \subseteq Kept(a)
    <3>1. Kept(a) = In(a) \cup Recoverable(a) /\ In(a) = Q
      BY <1>1, AgentHas DEF Q
    <3>2. Kept(b) = In(b) \cup Recoverable(b)
      BY <2>9, AgentHas
    <3> QED BY <2>9, <3>1, <3>2
  <2>14. Honest(b, f)
    BY <2>2, <2>9, <2>13 DEF Honest
  <2>15. Vouched(b, v.current, n, f)
    BY <2>2, <2>10, <2>13 DEF Vouched
  <2>16. /\ Held(k) = Held(h) \cup Q /\ IsInjective(k.queue)
         /\ k.root \notin ToSet(k.queue) \cup k.steering
         /\ ToSet(k.queue) \cap k.steering = {}
         /\ (k.turn = "starting" <=> k.root # None)
         /\ (k.turn = "working" <=> h.turn = "working")
         /\ k.taken = h.taken
         /\ (h.root # None => k.root = h.root)
    BY <2>6 DEF Joined, Q
  <2>17. Placed(b, v.current, n, f)
    BY <2>1, <2>2, <2>3, <2>9, <2>10, <2>16 DEF Placed
  <2>18. Agreed(b, n, f)
    <3>1. \A m \in h.taken : f[m] # "held"
      BY <2>2 DEF Agreed
    <3>2. \A m \in Q : f[m] = "held"
      BY <2>2, <2>13 DEF Honest
    <3>3. h.taken \cap Held(h) = {}
      BY <2>2, <2>3 DEF Agreed
    <3>4. h.taken \cap (Held(h) \cup Q) = {}
      BY <3>1, <3>2, <3>3
    <3>5. \A m \in Messages : f[m] = "held" /\ m \notin Kept(b) => k.root = m
      <4> SUFFICES ASSUME NEW m \in Messages, f[m] = "held", m \notin Kept(b) PROVE k.root = m
        OBVIOUS
      <4>1. h.root = m
        BY <2>2, <2>13 DEF Agreed
      <4>2. m # None
        BY BoundsAssumption DEF None, Messages
      <4> QED BY <2>16, <4>1, <4>2
    <3>6. Held(k) \subseteq Admissions(b)
      BY <2>3, <2>9, <2>16
    <3>7. Working(b) <=> h.turn = "working"
      BY <2>2, <2>3, <2>9 DEF Agreed, Working
    <3>8. b.lease = "none" => ~n.ended
      BY <2>2, <2>3, <2>9, <2>10 DEF Agreed
    <3>9. \A m \in h.taken : f[m] \notin {"new", "held"}
      BY <2>2 DEF Agreed
    <3> QED BY <2>1, <2>3, <2>9, <2>10, <2>16, <3>4, <3>5, <3>6, <3>7, <3>8, <3>9 DEF Agreed
  <2> QED BY <1>1, <2>2, <2>9, <2>10, <2>12, <2>14, <2>15, <2>17, <2>18, <2>20, CurrentChanges
<1> QED BY <1>7, <1>8

\* The agent when its turn is over, before what waits is sent.
Ended(a) == [a EXCEPT !.lease = "terminal"]

\* turn_completed leaves a sound world if the end of the turn does.
LEMMA CompleteSound ==
  ASSUME NEW u \in Worlds, Neat(u.agent), NEW i,
         NEW w, w = [u EXCEPT !.agent = Ended(u.agent)],
         IF Listens(u, i) /\ u.agent.epoch = i /\ Working(u.agent) THEN Sound(w) ELSE Sound(u),
         NEW x, x = Complete(u, i)
  PROVE  Sound(x)
<1> DEFINE a == u.agent
           e == Ended(a)
<1>1. a \in AgentStates
  BY WorldHas
<1>2. CASE ~(Listens(u, i) /\ a.epoch = i)
  BY <1>2 DEF Complete
<1>3. CASE Listens(u, i) /\ a.epoch = i /\ ~Working(a)
  <2>1. TurnCompleted(a) = a /\ ~CompletionSends(a)
    BY <1>3 DEF TurnCompleted, CompletionSends
  <2>2. x = u
    BY <1>3, <2>1 DEF Complete, Worlds
  <2> QED BY <1>3, <2>2
<1>4. CASE Listens(u, i) /\ a.epoch = i /\ Working(a)
  <2>1. /\ e \in AgentStates /\ e.inbox = a.inbox /\ e.pending = a.pending
        /\ e.status = a.status /\ e.epoch = a.epoch
    BY <1>1 DEF Ended, AgentStates
  <2>2. /\ Neat(e) /\ In(e) = In(a) /\ Admissions(e) = Admissions(a)
        /\ Recoverable(e) = Recoverable(a)
    <3> HIDE DEF e
    <3> QED BY <1>1, <2>1, FlagsChange
  <2>3. w = [u EXCEPT !.agent = e] /\ w.agent = e /\ Sound(w)
    BY <1>4 DEF Worlds
  <2>4. CASE CompletionSends(a)
    <3>1. TurnCompleted(a) = Drained(e)
      BY <1>4, <2>4 DEF TurnCompleted, Ended
    <3>2. x = Send([u EXCEPT !.agent = Drained(e)], a.inbox)
      BY <1>4, <2>4, <3>1 DEF Complete
    <3> HIDE DEF e
    <3>3. [u EXCEPT !.agent = Drained(e)] = [w EXCEPT !.agent = Drained(w.agent)]
      BY <2>3 DEF Worlds
    <3> DEFINE y == [w EXCEPT !.agent = Drained(w.agent)]
    <3>4. x = Send(y, w.agent.inbox)
      BY <2>1, <2>3, <3>2, <3>3
    <3> HIDE DEF a
    <3> QED BY <2>3, <3>4, SendSound
  <2>5. CASE ~CompletionSends(a)
    <3> DEFINE k == a.status = "running" /\ ~a.resetting
               b == [e EXCEPT !.idle = k]
    <3>1. TurnCompleted(a) = b
      BY <1>4, <2>5 DEF TurnCompleted, Ended
    <3>2. k \in BOOLEAN
      OBVIOUS
    <3>3. x = [u EXCEPT !.agent = b]
      BY <1>4, <2>5, <3>1 DEF Complete
    <3> HIDE DEF k, e
    <3>4. /\ b \in AgentStates /\ b.inbox = e.inbox /\ b.pending = e.pending
          /\ b.status = e.status /\ b.epoch = e.epoch /\ b.lease = e.lease
      BY <2>1, <3>2 DEF AgentStates
    <3> HIDE DEF b
    <3>5. /\ Neat(b) /\ In(b) = In(e) /\ Admissions(b) = Admissions(e)
          /\ Recoverable(b) = Recoverable(e)
      BY <2>1, <2>2, <3>4, FlagsChange
    <3>6. x = [w EXCEPT !.agent = b]
      BY <2>3, <3>3 DEF Worlds
    <3>7. Accounted(w)
      BY <2>3 DEF Sound
    <3> QED BY <2>3, <3>4, <3>5, <3>6, <3>7, AgentAlike
  <2> QED BY <2>4, <2>5
<1> QED BY <1>2, <1>3, <1>4

\* deliver leaves a sound world.
LEMMA DeliverSound ==
  ASSUME NEW w, Sound(w), NEW m \in Messages, w.fate[m] = "new",
         w.agent.status = "idle" => w.current = 0, NEW x, x = Deliver(w, m)
  PROVE  /\ Sound(x)
         /\ w.agent.status = "idle" /\ ~healthy => x.current = 0
<1> DEFINE a == w.agent
           f == w.fate
           b == Wakes(a, m)
           g == [f EXCEPT ![m] = "held"]
           v == [w EXCEPT !.agent = b, !.fate = g]
           q == b.inbox
<1>1. /\ w \in Worlds /\ a \in AgentStates /\ f \in [Messages -> Fates] /\ Neat(a)
      /\ Accounted(w)
  BY WorldHas DEF Sound, Accounted
<1>2. v = [w EXCEPT !.fate[m] = "held", !.agent = Wakes(@, m)] /\ v.agent = b
  BY <1>1 DEF Worlds
<1>3. m \notin In(a) \cup Admissions(a)
  BY <1>1, NewIsNowhere
<1>4. Shows(b, a, In(a) \cup {m}, Admissions(a), Recoverable(a))
  BY <1>1, <1>3, WakesIs
<1>5. CASE a.status = "idle"
  <2> DEFINE s == [b EXCEPT !.status = "starting"]
             d == Drained(s)
             refused == ~healthy /\ Head(q) = m
             h == [f EXCEPT ![m] = IF refused THEN "refused" ELSE "held"]
             y == [w EXCEPT !.agent = d, !.fate = h]
             E == In(a) \cup {m}
  <2>1. x = Spawn(y, q)
    <3>1. y = [v EXCEPT !.agent = d, !.fate[m] = IF refused THEN "refused" ELSE @]
      <4>1. h = [g EXCEPT ![m] = IF refused THEN "refused" ELSE @]
        BY <1>1
      <4> HIDE DEF h, g, d, refused, b
      <4> QED BY <1>1, <4>1 DEF Worlds
    <3> DEFINE V == [w EXCEPT !.fate[m] = "held", !.agent = Wakes(@, m)]
    <3>2. x = Spawn([V EXCEPT !.agent = Drained([V.agent EXCEPT !.status = "starting"]),
                              !.fate[m] = IF ~healthy /\ Head(V.agent.inbox) = m
                                          THEN "refused" ELSE @], V.agent.inbox)
      BY <1>5 DEF Deliver, WakeSpawns
    <3> HIDE DEF V, v, b
    <3>3. V = v
      BY <1>2 DEF V
    <3>4. V.agent = b
      BY <1>2, <3>3
    <3>5. x = Spawn([v EXCEPT !.agent = d, !.fate[m] = IF refused THEN "refused" ELSE @], q)
      BY <3>2, <3>3, <3>4
    <3> QED BY <3>1, <3>5
  <2> HIDE DEF b
  <2>2. w.current = 0 /\ a.epoch = 0 /\ a.lease = "detached" /\ Admissions(a) = {}
    BY <1>1, <1>5 DEF Accounted, Placed
  <2>3. /\ b \in AgentStates /\ Neat(b) /\ In(b) = E /\ Admissions(b) = {}
        /\ b.epoch = 0 /\ b.lease = "detached"
    BY <1>4, <2>2 DEF Shows
  <2>4. /\ s \in AgentStates /\ s.inbox = b.inbox /\ s.pending = b.pending
        /\ s.epoch = 0 /\ s.lease = "detached" /\ s.status = "starting"
    BY <2>3 DEF AgentStates
  <2> HIDE DEF s
  <2>5. Neat(s) /\ Admissions(s) = {}
    BY <2>3, <2>4, FlagsChange
  <2>6. Shows(d, s, {}, Admissions(s), Recoverable(s))
    BY <2>4, <2>5, DrainedIs
  <2> HIDE DEF d
  <2>7. /\ d \in AgentStates /\ Neat(d) /\ In(d) = {} /\ Admissions(d) = {}
        /\ d.epoch = 0 /\ d.lease = "detached" /\ d.status = "starting"
    BY <2>4, <2>5, <2>6 DEF Shows
  <2>8. /\ q \in Seq(Messages) /\ IsInjective(q) /\ ToSet(q) = E /\ q # <<>>
    <3>1. q \in Seq(Messages) /\ IsInjective(q) /\ ToSet(q) = E
      BY <2>3, AgentHas DEF Neat, In
    <3>2. E # {}
      OBVIOUS
    <3> HIDE DEF q
    <3> QED BY <3>1, <3>2, EmptyIs
  <2> HIDE DEF q
  <2>9. /\ ToSet(q) = {Head(q)} \cup ToSet(Tail(q)) /\ Head(q) \notin ToSet(Tail(q))
    BY <2>8, TailIs
  <2>10. \A n \in Messages : f[n] = "held" <=> n \in In(a)
    <3>1. Kept(a) = In(a) /\ In(a) \subseteq Messages
      BY <1>1, <2>2, AgentHas
    <3> QED BY <1>1, <2>2, <3>1 DEF Accounted, Honest, Vouched
  <2>11. h \in [Messages -> Fates]
    BY <1>1 DEF Fates
  <2>12. /\ h[m] = IF refused THEN "refused" ELSE "held"
         /\ \A n \in Messages : n # m => h[n] = f[n]
    BY <1>1
  <2> HIDE DEF h
  <2>13. /\ y \in Worlds /\ y.agent = d /\ y.fate = h /\ y.current = 0
         /\ y.owners = w.owners
    BY <1>1, <2>2, <2>7, <2>11 DEF Worlds
  <2>14. \A n \in ToSet(Tail(q)) : h[n] = "held"
    <3> SUFFICES ASSUME NEW n \in ToSet(Tail(q)) PROVE h[n] = "held"
      OBVIOUS
    <3>1. n \in E /\ In(a) \subseteq Messages
      BY <1>1, <2>8, <2>9, AgentHas
    <3>2. CASE n = m
      BY <2>9, <2>12, <3>2
    <3>3. CASE n # m
      BY <2>10, <2>12, <3>1, <3>3
    <3> QED BY <3>2, <3>3
  <2>15. h[Head(q)] # "new"
    <3>1. Head(q) \in E /\ In(a) \subseteq Messages
      BY <1>1, <2>8, <2>9, AgentHas
    <3>2. CASE Head(q) = m
      BY <2>12, <3>2
    <3>3. CASE Head(q) # m
      BY <2>10, <2>12, <3>1, <3>3
    <3> QED BY <3>2, <3>3
  <2>16. \A n \in Messages : h[n] = "held" => n \in E
    BY <2>10, <2>12
  <2>17. Others(y)
    BY <1>1, <2>2, <2>13 DEF Accounted, Others
  <2> HIDE DEF y
  <2>18. Ready(y, q)
    BY <2>7, <2>8, <2>13, <2>14, <2>15, <2>16, <2>17 DEF Ready
  <2>19. y.agent.status # "idle"
    BY <2>7, <2>13
  <2> QED BY <2>1, <2>18, <2>19, SpawnSound
<1>6. CASE a.status # "idle"
  <2> DEFINE y == [v EXCEPT !.agent = Drained(v.agent)]
  <2>1. x = IF WakeSends(a, m, returned) THEN Send(y, v.agent.inbox) ELSE v
    <3> DEFINE V == [w EXCEPT !.fate[m] = "held", !.agent = Wakes(@, m)]
    <3>1. x = IF WakeSends(a, m, returned)
              THEN Send([V EXCEPT !.agent = Drained(V.agent)], V.agent.inbox) ELSE V
      BY <1>6 DEF Deliver, WakeSpawns
    <3> HIDE DEF V, v
    <3>2. V = v
      BY <1>2 DEF V
    <3> QED BY <3>1, <3>2
  <2>2. Sound(v)
    <3>1. v = Woken(w, m)
      BY <1>1 DEF Woken, Worlds
    <3> HIDE DEF v
    <3> QED BY <1>1, <1>6, <3>1, WakeSound
  <2> HIDE DEF v
  <2>3. CASE WakeSends(a, m, returned)
    <3> DEFINE z == Send(y, v.agent.inbox)
    <3>1. Sound(z)
      BY <2>2, SendSound
    <3> QED BY <1>6, <2>1, <2>3, <3>1
  <2>4. CASE ~WakeSends(a, m, returned)
    BY <1>6, <2>1, <2>2, <2>4
  <2> QED BY <2>3, <2>4
<1> QED BY <1>5, <1>6
-----------------------------------------------------------------------------
(* Steps of the current owner.                                             *)

\* Named, so that the provers need not match the update.
Altered(w, b, n, g) ==
    [w EXCEPT !.agent = b, !.owners = Put(w.owners, w.current, n), !.fate = g]

LEMMA HoldingIs ==
  ASSUME NEW o \in OwnerStates, NEW k \in HeldStates, NEW n, n = Holding(o, k)
  PROVE  /\ n \in OwnerStates /\ n.held = k /\ n.phase = o.phase /\ n.first = o.first
         /\ n.delivery = o.delivery /\ n.established = o.established
         /\ n.reported = o.reported /\ n.superseded = o.superseded
         /\ n.discard = o.discard /\ n.torndown = o.torndown /\ n.receipt = o.receipt
         /\ n.ended = o.ended
BY DEF OwnerStates, Holding

LEMMA AlteredIs ==
  ASSUME NEW w \in Worlds, w.current \in DOMAIN w.owners, Others(w),
         NEW n \in OwnerStates, NEW b \in AgentStates, NEW g \in [Messages -> Fates],
         Neat(b), Honest(b, g), Vouched(b, w.current, n, g), Placed(b, w.current, n, g),
         NEW v, v = Altered(w, b, n, g)
  PROVE  /\ Accounted(v) /\ Owner(v) = n /\ v.current = w.current /\ v.agent = b
         /\ v.fate = g /\ v.owners = Put(w.owners, w.current, n)
         /\ (n.phase = "open" => Agreed(b, n, g)) => Sound(v)
<1> DEFINE t == Put(w.owners, w.current, n)
<1>1. t \in Seq(OwnerStates)
  BY WorldHas, OwnersChange
<1>2. v = [w EXCEPT !.agent = b, !.owners = t, !.fate = g]
  BY DEF Altered
<1>3. t = Put(w.owners, w.current, n)
  OBVIOUS
<1> HIDE DEF t
<1>4. /\ v \in Worlds /\ v.agent = b /\ v.owners = t /\ v.current = w.current /\ v.fate = g
  BY <1>1, <1>2 DEF Worlds
<1> QED BY <1>3, <1>4, CurrentChanges

\* What is known of the owner of an open session.
LEMMA OpenIs ==
  ASSUME NEW w, Sound(w), NEW i \in DOMAIN w.owners, w.owners[i].phase = "open"
  PROVE  /\ w \in Worlds /\ i = w.current /\ i # 0 /\ i \in Nat /\ Owner(w) = w.owners[i]
         /\ w.agent \in AgentStates /\ w.fate \in [Messages -> Fates]
         /\ Owner(w) \in OwnerStates /\ Owner(w).held \in HeldStates
         /\ Neat(w.agent) /\ Honest(w.agent, w.fate) /\ Others(w)
         /\ Vouched(w.agent, i, Owner(w), w.fate)
         /\ Agreed(w.agent, Owner(w), w.fate)
         /\ w.agent.epoch = i /\ w.agent.lease # "detached"
         /\ ~Owner(w).torndown /\ IsInjective(Owner(w).held.queue)
         /\ ~Owner(w).discard => Admissions(w.agent) = Held(Owner(w).held)
         /\ Listens(w, i) <=> ~Owner(w).discard
<1> DEFINE a == w.agent
           o == Owner(w)
<1>1. w \in Worlds /\ i \in Nat /\ i # 0 /\ i = w.current /\ o = w.owners[i]
  <2>1. w \in Worlds /\ i = w.current
    BY DEF Sound, Accounted, Others
  <2> QED BY <2>1, WorldHas DEF Owner
<1>2. a \in AgentStates /\ w.fate \in [Messages -> Fates] /\ o \in OwnerStates
  BY <1>1, WorldHas
<1>3. o.held \in HeldStates
  BY <1>2 DEF OwnerStates
<1>4. /\ Neat(a) /\ Honest(a, w.fate) /\ Others(w) /\ Vouched(a, i, o, w.fate)
      /\ Placed(a, i, o, w.fate) /\ Agreed(a, o, w.fate)
  BY <1>1 DEF Sound, Accounted
<1>5. /\ a.epoch = i /\ a.lease # "detached" /\ ~o.torndown /\ IsInjective(o.held.queue)
      /\ ~o.discard => Admissions(a) \subseteq Held(o.held)
  BY <1>1, <1>4 DEF Placed
<1>6. Held(o.held) \subseteq Admissions(a)
  BY <1>4 DEF Agreed
<1>7. Listens(w, i) <=> ~o.discard
  BY <1>1, <1>5 DEF Listens
<1> QED BY <1>1, <1>2, <1>3, <1>4, <1>5, <1>6, <1>7

\* Held, and not to be tried again.
Waits(a, f) == {m \in Messages : f[m] = "held" /\ m \notin Kept(a)}

\* The agent, what the open session holds, and the fates change: the rest follows.
LEMMA OpenHolds ==
  ASSUME NEW w, Sound(w), NEW i \in DOMAIN w.owners, w.owners[i].phase = "open",
         NEW k \in HeldStates, IsInjective(k.queue),
         NEW b \in AgentStates, Neat(b), b.epoch = w.agent.epoch, b.lease # "detached",
         NEW g \in [Messages -> Fates], Honest(b, g),
         Waits(b, g) \subseteq Waits(w.agent, w.fate),
         NEW n, n = Holding(Owner(w), k), Agreed(b, n, g),
         ~Owner(w).discard => Admissions(b) \subseteq Held(k)
  PROVE  Sound(Altered(w, b, n, g))
<1> DEFINE o == Owner(w)
<1>1. /\ w \in Worlds /\ i = w.current /\ i # 0 /\ o \in OwnerStates /\ Others(w)
      /\ Vouched(w.agent, i, o, w.fate) /\ w.agent.epoch = i /\ ~o.torndown
      /\ o.phase = "open"
  BY OpenIs
<1>2. /\ n \in OwnerStates /\ n.held = k /\ n.phase = o.phase /\ n.first = o.first
      /\ n.established = o.established /\ n.reported = o.reported
      /\ n.discard = o.discard /\ n.torndown = o.torndown
  BY <1>1, HoldingIs
<1>3. Vouched(b, w.current, n, g)
  <2> SUFFICES ASSUME NEW m \in Messages, g[m] = "held", m \notin Kept(b)
               PROVE  w.current # 0 /\ n.first = m /\ ~n.reported /\ ~n.established
    BY DEF Vouched
  <2>1. m \in Waits(w.agent, w.fate)
    BY DEF Waits
  <2>2. w.fate[m] = "held" /\ m \notin Kept(w.agent)
    BY <2>1 DEF Waits
  <2> QED BY <1>1, <1>2, <2>2 DEF Vouched
<1>4. Placed(b, w.current, n, g)
  BY <1>1, <1>2 DEF Placed
<1>5. w.current \in DOMAIN w.owners
  BY <1>1
<1> QED BY <1>1, <1>2, <1>3, <1>4, <1>5, AlteredIs

\* Named, so that the provers need not match the updates.
WithHeld(w, i, k) == [w EXCEPT !.owners[i].held = k]
Updated(w, b, g)  == [w EXCEPT !.agent = b, !.fate = g]
Fated(f, m, x)    == [f EXCEPT ![m] = x]

\* A change of what the current session holds.
LEMMA WithHeldIs ==
  ASSUME NEW w \in Worlds, NEW i \in DOMAIN w.owners, i = w.current, NEW k \in HeldStates,
         NEW u, u = WithHeld(w, i, k)
  PROVE  /\ u \in Worlds /\ u.agent = w.agent /\ u.fate = w.fate /\ u.current = i
         /\ u = Altered(w, w.agent, Holding(Owner(w), k), w.fate)
         /\ Owner(u) = Holding(Owner(w), k) /\ u.owners[i] = Holding(Owner(w), k)
         /\ Listens(u, i) <=> Listens(w, i)
         /\ \A b, g : Updated(u, b, g) = Altered(w, b, Holding(Owner(w), k), g)
<1> DEFINE o == Owner(w)
           n == Holding(o, k)
           t == Put(w.owners, w.current, n)
<1>1. o \in OwnerStates /\ o = w.owners[i] /\ w.owners \in Seq(OwnerStates)
  BY WorldHas DEF Owner
<1>2. n \in OwnerStates /\ n.torndown = o.torndown /\ n.discard = o.discard
      /\ n.superseded = o.superseded
  BY <1>1, HoldingIs
<1>3. t = [w.owners EXCEPT ![i].held = k]
  BY <1>1 DEF Put, Holding
<1>4. t \in Seq(OwnerStates) /\ t[i] = n
  <2> HIDE DEF n
  <2> QED BY <1>1, <1>2, OwnersChange
<1>5. u = [w EXCEPT !.owners = t]
  BY <1>3 DEF WithHeld
<1> HIDE DEF n, t, o
<1>6. /\ u \in Worlds /\ u.agent = w.agent /\ u.fate = w.fate /\ u.current = i /\ u.owners = t
  BY <1>4, <1>5 DEF Worlds
<1>7. u.owners[i] = n /\ Owner(u) = n
  BY <1>4, <1>6 DEF Owner
<1>8. Listens(u, i) <=> Listens(w, i)
  BY <1>1, <1>2, <1>6, <1>7 DEF Listens
<1>9. t = Put(w.owners, w.current, n)
  BY DEF t
<1>10. \A b, g : Updated(u, b, g) = Altered(w, b, n, g)
  <2> SUFFICES ASSUME NEW b, NEW g PROVE Updated(u, b, g) = Altered(w, b, n, g)
    OBVIOUS
  <2>1. [u EXCEPT !.agent = b, !.fate = g] = [w EXCEPT !.agent = b, !.owners = t, !.fate = g]
    BY <1>5 DEF Worlds
  <2> QED BY <1>9, <2>1 DEF Updated, Altered
<1>11. u = Altered(w, w.agent, n, w.fate)
  BY <1>5, <1>9 DEF Altered, Worlds
<1> QED BY <1>6, <1>7, <1>8, <1>10, <1>11 DEF n, o

\* The fate of one message.
LEMMA FatedIs ==
  ASSUME NEW f \in [Messages -> Fates], NEW m \in Messages, NEW x \in Fates
  PROVE  /\ Fated(f, m, x) \in [Messages -> Fates] /\ Fated(f, m, x)[m] = x
         /\ \A y \in Messages : y # m => Fated(f, m, x)[y] = f[y]
BY DEF Fated

\* command_accepted of the current epoch.
LEMMA AcceptIs ==
  ASSUME NEW u \in Worlds, NEW i, u.agent.epoch = i, NEW m
  PROVE  Accept(u, i, m) =
            Updated(u, IF Listens(u, i) THEN AdmissionsSettled(u.agent, {m}) ELSE u.agent,
                    Fated(u.fate, m, "accepted"))
<1> DEFINE v == [u EXCEPT !.fate[m] = "accepted"]
           g == Fated(u.fate, m, "accepted")
<1>1. v.agent = u.agent /\ v.owners = u.owners
  BY DEF Worlds
<1>2. v = Updated(u, u.agent, g)
  BY DEF Updated, Fated, Worlds
<1>4. Accept(u, i, m) = IF Listens(u, i)
                        THEN [v EXCEPT !.agent = AdmissionsSettled(v.agent, {m})] ELSE v
  <2>1. Accept(u, i, m) = IF Listens(u, i) THEN Settle(v, i, {m}) ELSE v
    BY DEF Accept
  <2> HIDE DEF v
  <2>2. Settle(v, i, {m}) = [v EXCEPT !.agent = AdmissionsSettled(v.agent, {m})]
    BY <1>1 DEF Settle
  <2> QED BY <2>1, <2>2
<1> HIDE DEF g, v
<1>5. \A b : [v EXCEPT !.agent = b] = Updated(u, b, g)
  BY <1>2 DEF Updated, Worlds
<1> QED BY <1>1, <1>2, <1>4, <1>5 DEF g

\* The message of an open session that is accepted is no longer admitted.
Unadmitted(w, m) ==
    IF ~Owner(w).discard THEN AdmissionsSettled(w.agent, {m}) ELSE w.agent

LEMMA AcceptedIs ==
  ASSUME NEW w, Sound(w), NEW i \in DOMAIN w.owners, w.owners[i].phase = "open",
         NEW m \in Messages, m \in Held(Owner(w).held),
         NEW b, b = Unadmitted(w, m),
         NEW g, g = Fated(w.fate, m, "accepted")
  PROVE  /\ b \in AgentStates /\ Neat(b) /\ Honest(b, g) /\ g \in [Messages -> Fates]
         /\ Waits(b, g) \subseteq Waits(w.agent, w.fate) \ {m}
         /\ g[m] = "accepted" /\ \A x \in Messages : x # m => g[x] = w.fate[x]
         /\ ~Owner(w).discard => Admissions(b) = Admissions(w.agent) \ {m}
         /\ Owner(w).discard => Admissions(b) = Admissions(w.agent)
         /\ Owner(w).discard \/ w.agent.status # "running" => Recoverable(b) = {}
         /\ b.status = w.agent.status /\ b.epoch = w.agent.epoch
         /\ b.lease = w.agent.lease
<1> DEFINE a == w.agent
           f == w.fate
           o == Owner(w)
<1>1. /\ a \in AgentStates /\ f \in [Messages -> Fates] /\ Neat(a) /\ Honest(a, f)
      /\ Agreed(a, o, f)
  BY OpenIs
<1>2. g \in [Messages -> Fates] /\ g[m] = "accepted" /\ \A x \in Messages : x # m => g[x] = f[x]
  <2>1. "accepted" \in Fates
    BY DEF Fates
  <2> DEFINE y == "accepted"
  <2> HIDE DEF y
  <2>2. g = Fated(f, m, y) /\ y \in Fates
    BY <2>1 DEF y
  <2>3. g \in [Messages -> Fates] /\ g[m] = y /\ \A x \in Messages : x # m => g[x] = f[x]
    BY <1>1, <2>2, FatedIs
  <2> QED BY <2>3 DEF y
<1>3. m \in Admissions(a) /\ m \notin In(a)
  <2>1. m \in Admissions(a)
    BY <1>1 DEF Agreed
  <2> QED BY <1>1, <2>1 DEF Neat
<1>4. /\ Kept(a) = In(a) \cup Recoverable(a) /\ In(a) \subseteq Messages
      /\ Admissions(a) \subseteq Messages /\ Recoverable(a) \subseteq Messages
  BY <1>1, AgentHas
<1>5. CASE ~o.discard
  <2> DEFINE D == {m}
  <2>1. b = AdmissionsSettled(a, D)
    BY <1>5 DEF Unadmitted
  <2> HIDE DEF D
  <2>2. Shows(b, a, In(a), Admissions(a) \ D, Recoverable(a) \ D)
    BY <1>1, <2>1, AdmissionsSettledIs
  <2>3. /\ b \in AgentStates /\ Neat(b) /\ In(b) = In(a)
        /\ Admissions(b) = Admissions(a) \ {m} /\ Recoverable(b) = Recoverable(a) \ {m}
        /\ b.status = a.status /\ b.epoch = a.epoch /\ b.lease = a.lease
    BY <2>2 DEF Shows, D
  <2>4. Kept(b) = Kept(a) \ {m}
    <3>1. Kept(b) = In(b) \cup Recoverable(b)
      BY <2>3, AgentHas
    <3> QED BY <1>3, <1>4, <2>3, <3>1
  <2>5. Honest(b, g)
    BY <1>1, <1>2, <1>4, <2>3, <2>4 DEF Honest
  <2>6. Waits(b, g) \subseteq Waits(a, f) \ {m}
    BY <1>2, <2>4 DEF Waits
  <2>7. a.status # "running" => Recoverable(b) = {}
    BY <1>1, <2>3 DEF Agreed
  <2> QED BY <1>2, <1>5, <2>3, <2>5, <2>6, <2>7
<1>6. CASE o.discard
  <2>1. b = a /\ Recoverable(a) = {}
    BY <1>1, <1>6 DEF Agreed, Unadmitted
  <2>2. m \notin Kept(a)
    BY <1>3, <1>4, <2>1
  <2>3. Honest(a, g)
    BY <1>1, <1>2, <1>4, <2>2 DEF Honest
  <2>4. Waits(a, g) \subseteq Waits(a, f) \ {m}
    BY <1>2 DEF Waits
  <2> QED BY <1>1, <1>2, <1>6, <2>1, <2>3, <2>4
<1>7. o.discard \in BOOLEAN
  <2>1. o \in OwnerStates
    BY OpenIs
  <2> QED BY <2>1 DEF OwnerStates
<1> QED BY <1>5, <1>6, <1>7
-----------------------------------------------------------------------------
(* The steps of an open session.                                           *)

\* What a session holds, by its fields.
LEMMA HeldIs ==
  ASSUME NEW h \in HeldStates
  PROVE  /\ h.turn \in {"none", "starting", "working"} /\ h.root \in Messages \cup {None}
         /\ h.queue \in Seq(Messages) /\ h.steering \subseteq Messages
         /\ h.taken \subseteq Messages /\ ToSet(h.queue) \subseteq Messages
         /\ Held(h) = ({h.root} \ {None}) \cup ToSet(h.queue) \cup h.steering
         /\ None \notin Messages
<1>1. /\ h.turn \in {"none", "starting", "working"} /\ h.root \in Messages \cup {None}
      /\ h.queue \in Seq(Messages) /\ h.steering \subseteq Messages
      /\ h.taken \subseteq Messages
  BY DEF HeldStates
<1>2. ToSet(h.queue) \subseteq Messages
  <2>1. \A j \in DOMAIN h.queue : h.queue[j] \in Messages
    BY <1>1, LenProperties, ElementOfSeq
  <2> QED BY <2>1 DEF ToSet
<1>3. None \notin Messages
  BY BoundsAssumption DEF None, Messages
<1> QED BY <1>1, <1>2, <1>3 DEF Held

\* command_accepted and turn_started: the first message of the turn.
LEMMA SoundTurnStarts ==
  ASSUME Sound(World), NEW i \in DOMAIN owners, TurnStarts(i)
  PROVE  Sound(World)'
<1> DEFINE w == World
           a == w.agent
           f == w.fate
           o == Owner(w)
           h == o.held
           m == h.root
           k == [h EXCEPT !.turn = "working", !.root = None, !.taken = {m}]
           u == WithHeld(w, i, k)
           x == Accept(u, i, m)
           y == IF Listens(x, i) /\ agent.epoch = i
                THEN [x EXCEPT !.agent = TurnStarted(x.agent)] ELSE x
           b == Unadmitted(w, m)
           c == IF ~o.discard THEN TurnStarted(b) ELSE b
           g == Fated(f, m, "accepted")
           n == Holding(o, k)
<1>1. /\ w.agent = agent /\ w.owners = owners /\ w.current = current
      /\ w.owners[i].phase = "open" /\ w.owners[i].held.turn = "starting"
  BY DEF World, TurnStarts
<1>2. Becomes(y)
  <2>1. o = owners[i]
    BY <1>1, OpenIs
  <2> HIDE DEF w, o
  <2>2. u = [World EXCEPT !.owners[i].held = [@ EXCEPT !.turn = "working", !.root = None, !.taken = {m}]]
    BY <1>1, <2>1 DEF WithHeld, w
  <2>3. m = owners[i].held.root
    BY <2>1
  <2> HIDE DEF m, k, u
  <2> QED BY <2>2, <2>3 DEF TurnStarts
<1> HIDE DEF w
<1>20. Sound(w) /\ i \in DOMAIN w.owners
  BY <1>1 DEF w
<1>3. /\ w \in Worlds /\ i = w.current /\ o = w.owners[i]
      /\ a \in AgentStates /\ f \in [Messages -> Fates] /\ o \in OwnerStates
      /\ h \in HeldStates /\ Agreed(a, o, f) /\ a.epoch = i /\ a.lease # "detached"
      /\ IsInjective(h.queue)
      /\ (~o.discard => Admissions(a) = Held(h)) /\ (Listens(w, i) <=> ~o.discard)
  BY <1>1, <1>20, OpenIs
<1>4. /\ m \in Messages /\ m # None /\ m \in Held(h) /\ h.turn = "starting"
      /\ m \notin ToSet(h.queue) \cup h.steering
      /\ Held(h) = {m} \cup ToSet(h.queue) \cup h.steering
  <2>1. h.turn = "starting"
    BY <1>1, <1>3
  <2>2. h.root # None /\ h.root \notin ToSet(h.queue) \cup h.steering
    BY <1>3, <2>1 DEF Agreed
  <2> QED BY <1>3, <2>1, <2>2, HeldIs
<1>5. /\ k \in HeldStates /\ k.turn = "working" /\ k.root = None /\ k.taken = {m}
      /\ k.queue = h.queue /\ k.steering = h.steering
  BY <1>3, <1>4 DEF HeldStates
<1>6. Held(k) = Held(h) \ {m}
  <2>1. Held(k) = ToSet(h.queue) \cup h.steering
    BY <1>5 DEF Held
  <2> QED BY <1>4, <2>1
<1> HIDE DEF k
<1>7. /\ u \in Worlds /\ u.agent = a /\ u.fate = f /\ u.owners[i] = n
      /\ (Listens(u, i) <=> Listens(w, i))
      /\ \A p, q : Updated(u, p, q) = Altered(w, p, n, q)
  BY <1>3, <1>5, <1>20, WithHeldIs
<1>8. x = Updated(u, b, g)
  BY <1>3, <1>7, AcceptIs DEF Unadmitted
<1>9. /\ b \in AgentStates /\ Neat(b) /\ Honest(b, g) /\ g \in [Messages -> Fates]
      /\ Waits(b, g) \subseteq Waits(a, f) \ {m}
      /\ g[m] = "accepted" /\ (\A z \in Messages : z # m => g[z] = f[z])
      /\ (~o.discard => Admissions(b) = Admissions(a) \ {m})
      /\ (o.discard => Admissions(b) = Admissions(a))
      /\ (o.discard \/ a.status # "running" => Recoverable(b) = {})
      /\ b.status = a.status /\ b.epoch = a.epoch /\ b.lease = a.lease
  <2> HIDE DEF m, o, a, f, b, g
  <2>1. b = Unadmitted(w, m)
    BY DEF b
  <2>2. g = Fated(w.fate, m, "accepted")
    BY DEF g, f
  <2>3. m \in Messages /\ m \in Held(Owner(w).held) /\ w.owners[i].phase = "open"
    BY <1>1, <1>4 DEF o
  <2> QED BY <1>20, <2>1, <2>2, <2>3, AcceptedIs DEF a, f, o
<1> HIDE DEF b, g, x, u
<1>10. x.agent = b /\ x.owners = u.owners
  BY <1>7, <1>8 DEF Updated, Worlds
<1>11. Listens(x, i) <=> ~o.discard
  BY <1>3, <1>7, <1>9, <1>10 DEF Listens
<1>12. y = Altered(w, c, n, g)
  <2>1. y = Updated(u, c, g)
    <3>1. \A p : [Updated(u, b, g) EXCEPT !.agent = p] = Updated(u, p, g)
      BY <1>7 DEF Updated, Worlds
    <3>2. agent.epoch = i
      BY <1>1, <1>3
    <3> QED BY <1>8, <1>10, <1>11, <3>1, <3>2
  <2> QED BY <1>7, <2>1
<1>13. /\ c \in AgentStates /\ Neat(c) /\ Admissions(c) = Admissions(b)
       /\ Recoverable(c) = Recoverable(b) /\ In(c) = In(b) /\ Kept(c) = Kept(b)
       /\ c.status = a.status /\ c.epoch = i /\ c.lease # "detached"
       /\ ~o.discard => Working(c)
  <2> DEFINE d == TurnStarted(b)
  <2>1. /\ d \in AgentStates /\ d.inbox = b.inbox /\ d.pending = b.pending
        /\ d.status = a.status /\ d.epoch = i /\ d.lease # "detached" /\ Working(d)
    BY <1>3, <1>9 DEF TurnStarted, AgentStates, Working
  <2> HIDE DEF d
  <2>2. /\ Neat(d) /\ In(d) = In(b) /\ Admissions(d) = Admissions(b)
        /\ Recoverable(d) = Recoverable(b)
    BY <1>9, <2>1, FlagsChange
  <2>3. Kept(d) = Kept(b)
    BY <2>1, <1>9, <2>2, AgentHas
  <2> QED BY <1>3, <1>9, <2>1, <2>2, <2>3 DEF d
<1> HIDE DEF c, y
<1>14. Honest(c, g) /\ Waits(c, g) \subseteq Waits(a, f) \ {m}
  BY <1>9, <1>13 DEF Honest, Waits
<1>15. Waits(a, f) \subseteq {m}
  BY <1>3 DEF Agreed, Waits
<1>16. Agreed(c, n, g)
  <2>1. n.held = k /\ n.discard = o.discard /\ n.superseded = o.superseded /\ n.ended = o.ended
    BY <1>3, <1>5, HoldingIs
  <2>2. Held(k) \subseteq Admissions(c)
    <3>1. Held(h) \subseteq Admissions(a)
      BY <1>3 DEF Agreed
    <3> QED BY <1>6, <1>9, <1>13, <3>1
  <2>3. \A z \in Messages : g[z] = "held" /\ z \notin Kept(c) => k.root = z
    BY <1>14, <1>15 DEF Waits
  <2>4. k.taken \cap Held(k) = {}
    BY <1>5, <1>6
  <2>5. ~o.discard => Working(c) /\ c.lease # "none"
    BY <1>13 DEF Working
  <2>6. o.discard => o.superseded /\ h.queue = <<>> /\ h.steering = {}
    BY <1>3 DEF Agreed
  <2>7. ToSet(k.queue) \cap k.steering = {} /\ k.root \notin ToSet(k.queue) \cup k.steering
    <3>1. ToSet(h.queue) \cap h.steering = {}
      BY <1>3 DEF Agreed
    <3>2. None \notin ToSet(h.queue) \cup h.steering
      BY <1>3, HeldIs
    <3> QED BY <1>5, <3>1, <3>2
  <2>8. \A z \in k.taken : g[z] \notin {"new", "held"}
    BY <1>5, <1>9
  <2>9. k.turn = "working" /\ k.root = None /\ k.queue = h.queue /\ k.steering = h.steering
    BY <1>5
  <2>10. o.discard \/ c.status # "running" => Recoverable(c) = {}
    BY <1>9, <1>13
  <2> HIDE DEF n, o, h
  <2> QED BY <2>1, <2>2, <2>3, <2>4, <2>5, <2>6, <2>7, <2>8, <2>9, <2>10 DEF Agreed
<1>17. ~o.discard => Admissions(c) \subseteq Held(k)
  BY <1>3, <1>6, <1>9, <1>13
<1>18. Sound(Altered(w, c, n, g))
  <2> HIDE DEF n, o, a, f, m, h
  <2>1. n = Holding(Owner(w), k) /\ w.owners[i].phase = "open" /\ c.epoch = w.agent.epoch
    BY <1>1, <1>3, <1>13 DEF n, o, a
  <2>2. Waits(c, g) \subseteq Waits(w.agent, w.fate)
    BY <1>14 DEF a, f
  <2>3. ~Owner(w).discard => Admissions(c) \subseteq Held(k)
    BY <1>17 DEF o
  <2>4. IsInjective(k.queue)
    BY <1>3, <1>5
  <2> QED BY <1>5, <1>9, <1>13, <1>14, <1>16, <1>20, <2>1, <2>2, <2>3, <2>4, OpenHolds
<1> QED BY <1>2, <1>12, <1>18, BecomesSound

\* A message on its way into the turn of an open session.
LEMMA MayTakeIs ==
  ASSUME Sound(World), NEW i \in DOMAIN owners, NEW m \in Messages, MayTake(i, m),
         NEW w, w = World, NEW h, h = Owner(w).held
  PROVE  /\ Sound(w) /\ i \in DOMAIN w.owners /\ w.owners[i].phase = "open"
         /\ w.agent = agent /\ Owner(w) = owners[i] /\ agent.epoch = i
         /\ h = owners[i].held /\ h.turn = "working" /\ h.root = None
         /\ m \in h.steering /\ m \in Held(h) /\ m \notin ToSet(h.queue)
         /\ ~Owner(w).discard /\ Waits(w.agent, w.fate) = {}
         /\ Held(h) = ToSet(h.queue) \cup h.steering
         /\ ToSet(h.queue) \cap h.steering = {}
         /\ Working(w.agent) /\ w.agent.lease # "none"
         /\ Admissions(w.agent) = Held(h)
<1>1. /\ w.agent = agent /\ w.owners = owners /\ w.current = current /\ Sound(w)
      /\ w.owners[i].phase = "open" /\ owners[i].held.turn = "working"
      /\ m \in owners[i].held.steering
  BY DEF World, MayTake
<1>2. /\ Owner(w) = owners[i] /\ h \in HeldStates /\ Agreed(w.agent, Owner(w), w.fate)
      /\ w.agent.epoch = i
      /\ (~Owner(w).discard => Admissions(w.agent) = Held(Owner(w).held))
  BY <1>1, OpenIs
<1>3. h = owners[i].held /\ h.turn = "working" /\ h.root = None /\ m \in h.steering
  BY <1>1, <1>2 DEF Agreed
<1>4. Held(h) = ToSet(h.queue) \cup h.steering /\ None \notin Messages
  BY <1>2, <1>3, HeldIs
<1>5. ToSet(h.queue) \cap h.steering = {} /\ ~Owner(w).discard
  BY <1>2, <1>3 DEF Agreed
<1>6. Waits(w.agent, w.fate) = {}
  BY <1>2, <1>3, <1>4 DEF Agreed, Waits
<1>7. Working(w.agent) /\ w.agent.lease # "none"
  BY <1>2, <1>3, <1>5 DEF Agreed, Working
<1> QED BY <1>1, <1>2, <1>3, <1>4, <1>5, <1>6, <1>7

\* command_accepted: the turn takes the message.
LEMMA SoundTurnTakes ==
  ASSUME Sound(World), NEW i \in DOMAIN owners, NEW m \in Messages, TurnTakes(i, m)
  PROVE  Sound(World)'
<1> DEFINE w == World
           a == w.agent
           f == w.fate
           o == Owner(w)
           h == o.held
           q == Minus(h.queue, {m})
           k == [h EXCEPT !.steering = h.steering \ {m}, !.queue = q,
                          !.taken = h.taken \cup {m}]
           u == WithHeld(w, i, k)
           b == Unadmitted(w, m)
           g == Fated(f, m, "accepted")
           n == Holding(o, k)
<1>0. MayTake(i, m)
  BY DEF TurnTakes
<1>1. /\ Sound(w) /\ i \in DOMAIN w.owners /\ w.owners[i].phase = "open"
      /\ o = owners[i] /\ agent = a /\ h.turn = "working" /\ h.root = None
      /\ m \in h.steering /\ m \in Held(h) /\ m \notin ToSet(h.queue)
      /\ ~o.discard /\ Waits(a, f) = {} /\ Held(h) = ToSet(h.queue) \cup h.steering
      /\ ToSet(h.queue) \cap h.steering = {} /\ Working(a) /\ a.lease # "none"
      /\ Admissions(a) = Held(h)
  BY <1>0, MayTakeIs
<1>2. Becomes(Accept(u, i, m))
  <2> HIDE DEF w, o
  <2>1. owners[i] = World.owners[i] /\ w = World /\ o = World.owners[i]
    BY <1>1 DEF World, w
  <2>2. k = Took(h, m)
    BY DEF Took, Unqueued
  <2> HIDE DEF k
  <2>3. u = [World EXCEPT !.owners[i].held = Took(@, m)]
    BY <2>1, <2>2 DEF WithHeld
  <2> HIDE DEF u
  <2> QED BY <2>3 DEF TurnTakes
<1> HIDE DEF w
<1>3. /\ w \in Worlds /\ i = w.current /\ a \in AgentStates /\ f \in [Messages -> Fates]
      /\ o \in OwnerStates /\ h \in HeldStates /\ Agreed(a, o, f) /\ a.epoch = i
      /\ a.lease # "detached" /\ IsInjective(h.queue) /\ (Listens(w, i) <=> ~o.discard)
  BY <1>1, OpenIs
<1>4. q \in Seq(Messages) /\ ToSet(q) = ToSet(h.queue) /\ IsInjective(q)
  <2> DEFINE D == {m}
  <2> HIDE DEF D
  <2>1. /\ Minus(h.queue, D) \in Seq(Messages) /\ ToSet(Minus(h.queue, D)) = ToSet(h.queue) \ D
        /\ IsInjective(Minus(h.queue, D))
    BY <1>3, HeldIs, MinusIs
  <2>2. ToSet(h.queue) \ {m} = ToSet(h.queue)
    BY <1>1
  <2> QED BY <2>1, <2>2 DEF D
<1> HIDE DEF q
<1>5. /\ k \in HeldStates /\ k.turn = "working" /\ k.root = None /\ k.queue = q
      /\ k.taken = h.taken \cup {m} /\ k.steering = h.steering \ {m}
  BY <1>1, <1>3, <1>4 DEF HeldStates
<1>6. Held(k) = Held(h) \ {m}
  <2>1. Held(k) = ToSet(q) \cup (h.steering \ {m})
    BY <1>5 DEF Held
  <2> QED BY <1>1, <1>4, <2>1
<1> HIDE DEF k
<1>7. /\ u \in Worlds /\ u.agent = a /\ u.fate = f
      /\ (Listens(u, i) <=> Listens(w, i))
      /\ \A p, r : Updated(u, p, r) = Altered(w, p, n, r)
  BY <1>1, <1>3, <1>5, WithHeldIs
<1>8. Accept(u, i, m) = Altered(w, b, n, g)
  <2>1. Accept(u, i, m) = Updated(u, b, g)
    BY <1>3, <1>7, AcceptIs DEF Unadmitted
  <2> QED BY <1>7, <2>1
<1>9. /\ b \in AgentStates /\ Neat(b) /\ Honest(b, g) /\ g \in [Messages -> Fates]
      /\ Waits(b, g) \subseteq Waits(a, f) \ {m}
      /\ g[m] = "accepted" /\ (\A z \in Messages : z # m => g[z] = f[z])
      /\ (~o.discard => Admissions(b) = Admissions(a) \ {m})
      /\ (o.discard \/ a.status # "running" => Recoverable(b) = {})
      /\ b.status = a.status /\ b.epoch = a.epoch /\ b.lease = a.lease
  <2> HIDE DEF o, a, f, b, g
  <2>1. b = Unadmitted(w, m)
    BY DEF b
  <2>2. g = Fated(w.fate, m, "accepted")
    BY DEF g, f
  <2>3. m \in Held(Owner(w).held)
    BY <1>1 DEF o
  <2> QED BY <1>1, <2>1, <2>2, <2>3, AcceptedIs DEF a, f, o
<1> HIDE DEF b, g, u
<1>10. Agreed(b, n, g)
  <2>1. n.held = k /\ n.discard = o.discard /\ n.ended = o.ended
    BY <1>3, <1>5, HoldingIs
  <2>2. Held(k) \subseteq Admissions(b)
    BY <1>1, <1>6, <1>9
  <2>3. \A z \in Messages : g[z] = "held" /\ z \notin Kept(b) => k.root = z
    BY <1>1, <1>9 DEF Waits
  <2>4. k.taken \cap Held(k) = {}
    <3>1. h.taken \cap Held(h) = {}
      BY <1>1, <1>3 DEF Agreed
    <3> QED BY <1>5, <1>6, <3>1
  <2>5. Working(b) /\ b.lease # "none"
    BY <1>1, <1>9 DEF Working
  <2>6. ToSet(k.queue) \cap k.steering = {} /\ k.root \notin ToSet(k.queue) \cup k.steering
    <3>1. None \notin ToSet(h.queue) \cup h.steering
      BY <1>3, HeldIs
    <3> QED BY <1>1, <1>4, <1>5, <3>1
  <2>7. \A z \in k.taken : g[z] \notin {"new", "held"}
    <3>1. \A z \in h.taken : f[z] \notin {"new", "held"} /\ z \in Messages
      BY <1>3, HeldIs DEF Agreed
    <3> QED BY <1>5, <1>9, <3>1
  <2>8. k.turn = "working" /\ k.root = None /\ ~o.discard
    BY <1>1, <1>5
  <2>9. b.status # "running" => Recoverable(b) = {}
    BY <1>9
  <2> HIDE DEF n, o, h
  <2> QED BY <2>1, <2>2, <2>3, <2>4, <2>5, <2>6, <2>7, <2>8, <2>9 DEF Agreed
<1>11. Sound(Altered(w, b, n, g))
  <2>1. Admissions(b) \subseteq Held(k)
    BY <1>1, <1>6, <1>9
  <2> HIDE DEF n, o, a, f, h
  <2>2. n = Holding(Owner(w), k) /\ b.epoch = w.agent.epoch /\ b.lease # "detached"
    BY <1>3, <1>9 DEF n, o, a
  <2>3. Waits(b, g) \subseteq Waits(w.agent, w.fate)
    BY <1>9 DEF a, f
  <2>4. IsInjective(k.queue)
    BY <1>4, <1>5
  <2> QED BY <1>1, <1>5, <1>9, <1>10, <2>1, <2>2, <2>3, <2>4, OpenHolds
<1> QED BY <1>2, <1>8, <1>11, BecomesSound

\* What the open session holds is only arranged in another way.
LEMMA OpenRearranged ==
  ASSUME NEW w, Sound(w), NEW i \in DOMAIN w.owners, w.owners[i].phase = "open",
         NEW h, h = Owner(w).held, NEW k \in HeldStates, IsInjective(k.queue),
         Held(k) = Held(h), k.taken = h.taken,
         k.root \notin ToSet(k.queue) \cup k.steering, ToSet(k.queue) \cap k.steering = {},
         k.turn = "starting" <=> k.root # None,
         k.turn = "working" <=> h.turn = "working",
         h.root \in {k.root, None}, ~Owner(w).discard,
         NEW b \in AgentStates, Neat(b), In(b) = In(w.agent),
         Admissions(b) = Admissions(w.agent), Recoverable(b) = Recoverable(w.agent),
         b.status = w.agent.status, b.epoch = w.agent.epoch, b.lease = w.agent.lease,
         NEW n, n = Holding(Owner(w), k)
  PROVE  Sound(Altered(w, b, n, w.fate))
<1> DEFINE a == w.agent
           f == w.fate
           o == Owner(w)
<1>1. /\ w \in Worlds /\ a \in AgentStates /\ f \in [Messages -> Fates]
      /\ o \in OwnerStates /\ h \in HeldStates /\ Agreed(a, o, f) /\ Honest(a, f)
      /\ a.lease # "detached" /\ Admissions(a) = Held(h)
  BY OpenIs
<1>2. Kept(b) = Kept(a)
  BY <1>1, AgentHas
<1>3. Honest(b, f) /\ Waits(b, f) = Waits(a, f)
  BY <1>1, <1>2 DEF Honest, Waits
<1>4. Agreed(b, n, f)
  <2>1. n.held = k /\ n.discard = o.discard /\ n.ended = o.ended
    BY <1>1, HoldingIs
  <2>2. \A z \in Messages : f[z] = "held" /\ z \notin Kept(b) => k.root = z
    <3>1. \A z \in Messages : f[z] = "held" /\ z \notin Kept(b) => h.root = z
      BY <1>1, <1>2 DEF Agreed
    <3>2. None \notin Messages
      BY <1>1, HeldIs
    <3> QED BY <3>1, <3>2
  <2>3. /\ h.taken \cap Held(h) = {} /\ (Working(a) <=> h.turn = "working")
        /\ (a.lease = "none" => ~o.ended)
        /\ (a.status # "running" => Recoverable(a) = {})
        /\ \A m \in h.taken : f[m] \notin {"new", "held"}
    BY <1>1 DEF Agreed
  <2>4. Working(b) <=> Working(a)
    BY DEF Working
  <2>5. Held(k) \subseteq Admissions(b)
    BY <1>1
  <2> QED BY <2>1, <2>2, <2>3, <2>4, <2>5 DEF Agreed
<1> HIDE DEF a, f, o
<1>5. /\ b.lease # "detached" /\ Waits(b, f) \subseteq Waits(w.agent, w.fate)
      /\ f \in [Messages -> Fates] /\ Admissions(b) \subseteq Held(k) /\ f = w.fate
  BY <1>1, <1>3 DEF a, f
<1> QED BY <1>3, <1>4, <1>5, OpenHolds

\* startNextQueued: the head of the queue opens the next turn.
LEMMA SoundNextQueued ==
  ASSUME Sound(World), NEW i \in DOMAIN owners, NextQueued(i)
  PROVE  Sound(World)'
<1> DEFINE w == World
           a == w.agent
           o == Owner(w)
           h == o.held
           k == Opens(h)
           n == Holding(o, k)
           u == WithHeld(w, i, k)
<1>1. /\ Sound(w) /\ w.agent = agent /\ w.owners = owners /\ w.current = current
      /\ w.owners[i].phase = "open" /\ owners[i].held.turn = "none"
      /\ owners[i].held.queue # <<>>
  BY DEF World, NextQueued
<1>2. Becomes(u)
  <2>1. o = owners[i] /\ World.owners[i] = owners[i] /\ w = World
    BY <1>1, OpenIs
  <2> HIDE DEF w, o
  <2>2. u = [World EXCEPT !.owners[i].held = Opens(@)]
    BY <2>1 DEF WithHeld
  <2> HIDE DEF u
  <2> QED BY <2>2 DEF NextQueued
<1> HIDE DEF w
<1>3. /\ w \in Worlds /\ i = w.current /\ a \in AgentStates /\ o = owners[i]
      /\ h \in HeldStates /\ Agreed(a, o, w.fate) /\ Neat(a)
      /\ IsInjective(h.queue) /\ h.turn = "none" /\ h.queue # <<>>
  BY <1>1, OpenIs
<1>4. h.root = None /\ ~o.discard /\ ToSet(h.queue) \cap h.steering = {}
  BY <1>3 DEF Agreed
<1>5. /\ Head(h.queue) \in Messages /\ Tail(h.queue) \in Seq(Messages)
      /\ ToSet(h.queue) = {Head(h.queue)} \cup ToSet(Tail(h.queue))
      /\ IsInjective(Tail(h.queue)) /\ Head(h.queue) \notin ToSet(Tail(h.queue))
  BY <1>3, HeldIs, TailIs
<1>6. /\ k \in HeldStates /\ k.turn = "starting" /\ k.root = Head(h.queue)
      /\ k.queue = Tail(h.queue) /\ k.steering = h.steering /\ k.taken = h.taken
  BY <1>3, <1>5 DEF HeldStates, Opens
<1> HIDE DEF k
<1>7. None \notin Messages
  BY <1>3, HeldIs
<1>8. Held(k) = Held(h)
  BY <1>4, <1>5, <1>6, <1>7 DEF Held
<1>9. u = Altered(w, a, n, w.fate)
  BY <1>1, <1>3, <1>6, WithHeldIs
<1>10. /\ k.root \notin ToSet(k.queue) \cup k.steering /\ ToSet(k.queue) \cap k.steering = {}
       /\ (k.turn = "starting" <=> k.root # None) /\ (k.turn = "working" <=> h.turn = "working")
       /\ h.root \in {k.root, None} /\ IsInjective(k.queue)
  BY <1>3, <1>4, <1>5, <1>6, <1>7
<1>11. Sound(Altered(w, a, n, w.fate))
  <2> HIDE DEF n, o, a, h, u
  <2>1. h = Owner(w).held /\ ~Owner(w).discard /\ n = Holding(Owner(w), k) /\ a = w.agent
    BY <1>4 DEF n, o, a, h
  <2> QED BY <1>1, <1>3, <1>6, <1>8, <1>10, <2>1, OpenRearranged
<1> QED BY <1>2, <1>9, <1>11, BecomesSound

\* drainSafeBoundaryQueue: the head of the queue is on its way into the turn.
LEMMA SoundBoundaryOffer ==
  ASSUME Sound(World), NEW i \in DOMAIN owners, BoundaryOffer(i)
  PROVE  Sound(World)'
<1> DEFINE w == World
           a == w.agent
           o == Owner(w)
           h == o.held
           k == [h EXCEPT !.steering = {Head(h.queue)}, !.queue = Tail(@)]
           n == Holding(o, k)
           u == WithHeld(w, i, k)
<1>1. /\ Sound(w) /\ w.agent = agent /\ w.owners = owners /\ w.current = current
      /\ w.owners[i].phase = "open" /\ owners[i].held.turn = "working"
      /\ owners[i].held.queue # <<>> /\ owners[i].held.steering = {}
  BY DEF World, BoundaryOffer
<1>2. Becomes(u)
  <2>1. o = owners[i] /\ World.owners[i] = owners[i] /\ w = World
    BY <1>1, OpenIs
  <2> HIDE DEF w, o
  <2>2. Becomes([World EXCEPT !.owners[i].held =
                    [owners[i].held EXCEPT !.steering = {Head(owners[i].held.queue)},
                                           !.queue = Tail(@)]])
    BY DEF BoundaryOffer
  <2> QED BY <2>1, <2>2 DEF WithHeld
<1> HIDE DEF w
<1>3. /\ w \in Worlds /\ i = w.current /\ a \in AgentStates /\ o = owners[i]
      /\ h \in HeldStates /\ Agreed(a, o, w.fate) /\ Neat(a)
      /\ IsInjective(h.queue) /\ h.turn = "working" /\ h.queue # <<>> /\ h.steering = {}
  BY <1>1, OpenIs
<1>4. h.root = None /\ ~o.discard
  BY <1>3 DEF Agreed
<1>5. /\ Head(h.queue) \in Messages /\ Tail(h.queue) \in Seq(Messages)
      /\ ToSet(h.queue) = {Head(h.queue)} \cup ToSet(Tail(h.queue))
      /\ IsInjective(Tail(h.queue)) /\ Head(h.queue) \notin ToSet(Tail(h.queue))
  BY <1>3, HeldIs, TailIs
<1>6. /\ k \in HeldStates /\ k.turn = "working" /\ k.root = None
      /\ k.queue = Tail(h.queue) /\ k.steering = {Head(h.queue)} /\ k.taken = h.taken
  BY <1>3, <1>4, <1>5 DEF HeldStates
<1> HIDE DEF k
<1>7. None \notin Messages /\ ToSet(h.queue) \subseteq Messages
  BY <1>3, HeldIs
<1>8. Held(k) = Held(h)
  BY <1>3, <1>4, <1>5, <1>6, <1>7 DEF Held
<1>9. u = Altered(w, a, n, w.fate)
  BY <1>1, <1>3, <1>6, WithHeldIs
<1>10. /\ k.root \notin ToSet(k.queue) \cup k.steering /\ ToSet(k.queue) \cap k.steering = {}
       /\ (k.turn = "starting" <=> k.root # None) /\ (k.turn = "working" <=> h.turn = "working")
       /\ h.root \in {k.root, None} /\ IsInjective(k.queue)
  BY <1>3, <1>4, <1>5, <1>6, <1>7
<1>11. Sound(Altered(w, a, n, w.fate))
  <2> HIDE DEF n, o, a, h, u
  <2>1. h = Owner(w).held /\ ~Owner(w).discard /\ n = Holding(Owner(w), k) /\ a = w.agent
    BY <1>4 DEF n, o, a, h
  <2> QED BY <1>1, <1>3, <1>6, <1>8, <1>10, <2>1, OpenRearranged
<1> QED BY <1>2, <1>9, <1>11, BecomesSound

\* A message that the turn was too busy for is put back into the queue.
LEMMA RequeuedIs ==
  ASSUME NEW h \in HeldStates, IsInjective(h.queue), NEW m \in Messages,
         m \notin ToSet(h.queue), m \in h.steering, NEW last \in BOOLEAN,
         NEW k, k = Requeued(h, m, last)
  PROVE  /\ k \in HeldStates /\ k.turn = h.turn /\ k.root = h.root /\ k.taken = h.taken
         /\ IsInjective(k.queue) /\ ToSet(k.queue) = ToSet(h.queue) \cup {m}
         /\ k.steering = h.steering \ {m}
<1> DEFINE D == {m}
           r == Minus(h.queue, D)
           p == Append(r, m)
           s == <<m>> \o r
           q == IF last THEN p ELSE s
           t == h.steering \ D
<1>1. h.queue \in Seq(Messages) /\ h.steering \subseteq Messages
  BY HeldIs
<1>2. k = [h EXCEPT !.queue = q, !.steering = t]
  BY DEF Requeued, Unqueued, HeldStates
<1> HIDE DEF D
<1>3. r \in Seq(Messages) /\ ToSet(r) = ToSet(h.queue) \ D /\ IsInjective(r)
  BY <1>1, MinusIs
<1>4. ToSet(r) = ToSet(h.queue)
  BY <1>3 DEF D
<1> HIDE DEF r
<1>5. p \in Seq(Messages) /\ ToSet(p) = ToSet(h.queue) \cup {m} /\ IsInjective(p)
  BY <1>3, <1>4, AppendIs
<1>6. s \in Seq(Messages) /\ ToSet(s) = ToSet(h.queue) \cup {m} /\ IsInjective(s)
  <2> DEFINE e == <<m>>
  <2>1. e \in Seq(Messages) /\ ToSet(e) = {m} /\ IsInjective(e)
    BY SingletonIs
  <2> HIDE DEF e
  <2>2. e \o r \in Seq(Messages) /\ ToSet(e \o r) = ToSet(e) \cup ToSet(r) /\ IsInjective(e \o r)
    <3>1. ToSet(e) \cap ToSet(r) = {}
      BY <1>4, <2>1
    <3> QED BY <1>3, <2>1, <3>1, ConcatIs
  <2> QED BY <1>4, <2>1, <2>2 DEF e
<1> HIDE DEF p, s
<1>7. q \in Seq(Messages) /\ ToSet(q) = ToSet(h.queue) \cup {m} /\ IsInjective(q)
  BY <1>5, <1>6
<1> HIDE DEF q
<1>8. t \subseteq Messages
  BY <1>1
<1> HIDE DEF t
<1>9. /\ k \in HeldStates /\ k.turn = h.turn /\ k.root = h.root /\ k.taken = h.taken
      /\ k.queue = q /\ k.steering = t
  BY <1>2, <1>7, <1>8 DEF HeldStates
<1> QED BY <1>7, <1>9 DEF t, D

LEMMA SoundTurnBusy ==
  ASSUME Sound(World), NEW i \in DOMAIN owners, NEW m \in Messages, TurnBusy(i, m)
  PROVE  Sound(World)'
<1> DEFINE w == World
           a == w.agent
           o == Owner(w)
           h == o.held
           last == o.delivery = "steer"
           k == Requeued(h, m, last)
           n == Holding(o, k)
           u == WithHeld(w, i, k)
           heard == last /\ Listens(u, i) /\ agent.epoch = i
           b == IF heard THEN AdmissionAcknowledged(a, m) ELSE a
           y == IF heard THEN [u EXCEPT !.agent = AdmissionAcknowledged(@, m)] ELSE u
<1>0. MayTake(i, m)
  BY DEF TurnBusy
<1>1. /\ Sound(w) /\ i \in DOMAIN w.owners /\ w.owners[i].phase = "open"
      /\ o = owners[i] /\ agent = a /\ h.turn = "working" /\ h.root = None
      /\ m \in h.steering /\ m \notin ToSet(h.queue)
      /\ ~o.discard /\ Held(h) = ToSet(h.queue) \cup h.steering
      /\ ToSet(h.queue) \cap h.steering = {}
  BY <1>0, MayTakeIs
<1>2. Becomes(y)
  <2>1. World.owners[i] = owners[i] /\ w = World /\ o = owners[i]
    BY <1>1 DEF World, w
  <2> HIDE DEF w, o
  <2>2. u = [World EXCEPT !.owners[i].held = Requeued(@, m, owners[i].delivery = "steer")]
    BY <2>1 DEF WithHeld
  <2> HIDE DEF u
  <2> QED BY <2>1, <2>2 DEF TurnBusy
<1> HIDE DEF w
<1>3. /\ w \in Worlds /\ i = w.current /\ a \in AgentStates /\ h \in HeldStates
      /\ Neat(a) /\ IsInjective(h.queue)
  BY <1>1, OpenIs
<1>4. last \in BOOLEAN
  OBVIOUS
<1> HIDE DEF last
<1>5. /\ k \in HeldStates /\ k.turn = h.turn /\ k.root = h.root /\ k.taken = h.taken
      /\ IsInjective(k.queue) /\ ToSet(k.queue) = ToSet(h.queue) \cup {m}
      /\ k.steering = h.steering \ {m}
  BY <1>1, <1>3, <1>4, RequeuedIs
<1> HIDE DEF k
<1>6. /\ u \in Worlds /\ u.agent = a /\ u.fate = w.fate
      /\ \A p, r : Updated(u, p, r) = Altered(w, p, n, r)
  BY <1>1, <1>3, <1>5, WithHeldIs
<1>7. y = Altered(w, b, n, w.fate)
  <2>1. y = Updated(u, b, w.fate)
    <3> HIDE DEF u, heard
    <3> QED BY <1>6 DEF Updated, Worlds
  <2> QED BY <1>6, <2>1
<1>8. Shows(b, a, In(a), Admissions(a), Recoverable(a))
  <2>1. Shows(AdmissionAcknowledged(a, m), a, In(a), Admissions(a), Recoverable(a))
    BY <1>3, AdmissionAcknowledgedIs
  <2>2. Shows(a, a, In(a), Admissions(a), Recoverable(a))
    BY <1>3 DEF Shows
  <2> QED BY <2>1, <2>2
<1> HIDE DEF b, y, u
<1>9. None \notin Messages
  BY <1>3, HeldIs
<1>10. Held(k) = Held(h)
  BY <1>1, <1>5 DEF Held
<1>11. /\ k.root \notin ToSet(k.queue) \cup k.steering /\ ToSet(k.queue) \cap k.steering = {}
       /\ (k.turn = "starting" <=> k.root # None) /\ (k.turn = "working" <=> h.turn = "working")
       /\ h.root \in {k.root, None}
  <2>1. h.steering \subseteq Messages /\ ToSet(h.queue) \subseteq Messages
    BY <1>3, HeldIs
  <2> QED BY <1>1, <1>5, <1>9, <2>1
<1>12. Sound(Altered(w, b, n, w.fate))
  <2> HIDE DEF n, o, a, h
  <2>1. h = Owner(w).held /\ ~Owner(w).discard /\ n = Holding(Owner(w), k) /\ a = w.agent
    BY <1>1 DEF n, o, a, h
  <2>2. /\ b \in AgentStates /\ Neat(b) /\ In(b) = In(a) /\ Admissions(b) = Admissions(a)
        /\ Recoverable(b) = Recoverable(a) /\ b.status = a.status /\ b.epoch = a.epoch
        /\ b.lease = a.lease
    BY <1>8 DEF Shows
  <2> QED BY <1>1, <1>3, <1>5, <1>10, <1>11, <2>1, <2>2, OpenRearranged
<1> QED BY <1>2, <1>7, <1>12, BecomesSound

\* A world with another owner, agent and fates is named by them.
LEMMA IsAltered ==
  ASSUME NEW w \in Worlds, NEW v \in Worlds, v.current = w.current, NEW n,
         v.owners = Put(w.owners, w.current, n)
  PROVE  v = Altered(w, v.agent, n, v.fate)
BY DEF Worlds, Altered

\* command_failed: the turn refuses the message, which is reported.
LEMMA SoundInputRefused ==
  ASSUME Sound(World), NEW i \in DOMAIN owners, NEW m \in Messages, InputRefused(i, m)
  PROVE  Sound(World)'
<1> DEFINE w == World
           a == w.agent
           f == w.fate
           o == Owner(w)
           h == o.held
           D == {m}
           q == Minus(h.queue, D)
           k == [h EXCEPT !.steering = h.steering \ D, !.queue = q]
           u == WithHeld(w, i, k)
           x == InputsFail(u, i, D)
           b == x.agent
           g == x.fate
           n == Holding(o, k)
<1>0. MayTake(i, m)
  BY DEF InputRefused
<1>1. /\ Sound(w) /\ i \in DOMAIN w.owners /\ w.owners[i].phase = "open"
      /\ o = owners[i] /\ agent = a /\ h.turn = "working" /\ h.root = None
      /\ m \in h.steering /\ m \in Held(h) /\ m \notin ToSet(h.queue)
      /\ ~o.discard /\ Waits(a, f) = {} /\ Held(h) = ToSet(h.queue) \cup h.steering
      /\ ToSet(h.queue) \cap h.steering = {} /\ Working(a) /\ a.lease # "none"
      /\ Admissions(a) = Held(h)
  BY <1>0, MayTakeIs
<1>2. Becomes(x)
  <2> HIDE DEF w, o
  <2>1. owners[i] = World.owners[i] /\ w = World /\ o = World.owners[i]
    BY <1>1 DEF World, w
  <2>2. k = Unqueued(h, m)
    BY DEF Unqueued
  <2> HIDE DEF k
  <2>3. u = [World EXCEPT !.owners[i].held = Unqueued(@, m)]
    BY <2>1, <2>2 DEF WithHeld
  <2> HIDE DEF u
  <2> QED BY <2>3 DEF InputRefused
<1> HIDE DEF w
<1>3. /\ w \in Worlds /\ i = w.current /\ a \in AgentStates /\ f \in [Messages -> Fates]
      /\ o \in OwnerStates /\ h \in HeldStates /\ Agreed(a, o, f) /\ a.epoch = i
      /\ a.lease # "detached" /\ IsInjective(h.queue) /\ (Listens(w, i) <=> ~o.discard)
      /\ Neat(a) /\ Honest(a, f) /\ Vouched(a, i, o, f)
  BY <1>1, OpenIs
<1> HIDE DEF D
<1>4. q \in Seq(Messages) /\ ToSet(q) = ToSet(h.queue) /\ IsInjective(q)
  <2>1. q \in Seq(Messages) /\ ToSet(q) = ToSet(h.queue) \ D /\ IsInjective(q)
    BY <1>3, HeldIs, MinusIs
  <2>2. ToSet(h.queue) \ D = ToSet(h.queue)
    BY <1>1 DEF D
  <2> QED BY <2>1, <2>2
<1> HIDE DEF q
<1>5. /\ k \in HeldStates /\ k.turn = "working" /\ k.root = None /\ k.queue = q
      /\ k.taken = h.taken /\ k.steering = h.steering \ D
  BY <1>1, <1>3, <1>4 DEF HeldStates
<1>6. Held(k) = Held(h) \ D
  <2>1. Held(k) = ToSet(q) \cup (h.steering \ D)
    BY <1>5 DEF Held
  <2> QED BY <1>1, <1>4, <2>1 DEF D
<1> HIDE DEF k
<1>7. /\ u \in Worlds /\ u.agent = a /\ u.fate = f /\ u.current = i
      /\ (Listens(u, i) <=> Listens(w, i)) /\ u = Altered(w, a, n, f)
  BY <1>1, <1>3, <1>5, WithHeldIs
<1>8. u.owners = Put(w.owners, w.current, n)
  BY <1>3, <1>7 DEF Altered, Worlds
<1>9. /\ n.held = k /\ n.discard = o.discard /\ n.ended = o.ended /\ n.first = o.first
      /\ n.reported = o.reported /\ n.established = o.established
  BY <1>3, <1>5, HoldingIs
<1> HIDE DEF n, u
<1>10. Vouched(u.agent, i, n, u.fate)
  BY <1>3, <1>7, <1>9 DEF Vouched
<1>11. /\ Handled(x, u, i, n, D)
       /\ Recoverable(b) = Recoverable(a) \ D
       /\ (\A z \in Messages : g[z] \in {f[z], "reported"})
       /\ \A z \in Messages : g[z] = "held" /\ z \notin Kept(b) => f[z] = "held" /\ z \notin Kept(a)
  <2>1. Neat(u.agent) /\ Honest(u.agent, u.fate) /\ Listens(u, i) /\ u.agent.epoch = i
    BY <1>1, <1>3, <1>7
  <2> HIDE DEF a, f
  <2>2. a = u.agent /\ f = u.fate
    BY <1>7
  <2>3. u \in Worlds
    BY <1>7
  <2> HIDE DEF o, h, x
  <2>4. Failed(x, u, i, n, D)
    BY <1>10, <2>1, <2>3, InputsFailHandled DEF x
  <2> QED BY <2>2, <2>4 DEF Failed
<1> HIDE DEF x
<1>12. /\ x \in Worlds /\ x.owners = u.owners /\ x.current = i /\ Neat(b) /\ Honest(b, g)
       /\ Admissions(b) = Admissions(a) \ D
       /\ b.status = a.status /\ b.epoch = a.epoch /\ b.lease = a.lease
  BY <1>7, <1>11 DEF Handled
<1>13. b \in AgentStates /\ g \in [Messages -> Fates]
  BY <1>12, WorldHas
<1>14. x = Altered(w, b, n, g)
  BY <1>3, <1>8, <1>12, IsAltered
<1> HIDE DEF b, g
<1>15. Waits(b, g) \subseteq Waits(a, f)
  BY <1>11 DEF Waits
<1>16. Agreed(b, n, g)
  <2>1. Held(k) \subseteq Admissions(b)
    BY <1>1, <1>6, <1>12
  <2>2. \A z \in Messages : g[z] = "held" /\ z \notin Kept(b) => k.root = z
    BY <1>1, <1>15 DEF Waits
  <2>3. k.taken \cap Held(k) = {}
    <3>1. h.taken \cap Held(h) = {}
      BY <1>1, <1>3 DEF Agreed
    <3> QED BY <1>5, <1>6, <3>1
  <2>4. Working(b) /\ b.lease # "none"
    BY <1>1, <1>12 DEF Working
  <2>5. ToSet(k.queue) \cap k.steering = {} /\ k.root \notin ToSet(k.queue) \cup k.steering
    <3>1. None \notin ToSet(h.queue) \cup h.steering
      BY <1>3, HeldIs
    <3> QED BY <1>1, <1>4, <1>5, <3>1
  <2>6. \A z \in k.taken : g[z] \notin {"new", "held"}
    <3>1. \A z \in h.taken : f[z] \notin {"new", "held"} /\ z \in Messages
      BY <1>3, HeldIs DEF Agreed
    <3> QED BY <1>5, <1>11, <3>1
  <2>7. b.status # "running" => Recoverable(b) = {}
    <3>1. a.status # "running" => Recoverable(a) = {}
      BY <1>3 DEF Agreed
    <3> QED BY <1>11, <1>12, <3>1
  <2>8. k.turn = "working" /\ k.root = None /\ ~n.discard
    BY <1>1, <1>5, <1>9
  <2> QED BY <1>9, <2>1, <2>2, <2>3, <2>4, <2>5, <2>6, <2>7, <2>8 DEF Agreed
<1>17. Sound(Altered(w, b, n, g))
  <2>1. Admissions(b) \subseteq Held(k)
    BY <1>1, <1>6, <1>12
  <2>2. n = Holding(Owner(w), k) /\ b.epoch = w.agent.epoch /\ b.lease # "detached"
    BY <1>3, <1>12 DEF n
  <2> HIDE DEF o, a, f, h
  <2>3. Waits(b, g) \subseteq Waits(w.agent, w.fate)
    BY <1>15 DEF a, f
  <2>4. IsInjective(k.queue)
    BY <1>4, <1>5
  <2> QED BY <1>1, <1>5, <1>12, <1>13, <1>16, <2>1, <2>2, <2>3, <2>4, OpenHolds
<1> QED BY <1>2, <1>14, <1>17, BecomesSound

\* What the running turn of an open session gave back is no longer taken.
LEMMA TakenLess ==
  ASSUME NEW w, Sound(w), NEW i \in DOMAIN w.owners, w.owners[i].phase = "open",
         NEW h, h = Owner(w).held, h.turn = "working", NEW m \in Messages,
         NEW k \in HeldStates, k.turn = h.turn, k.root = h.root, k.queue = h.queue,
         k.steering = h.steering, NEW D, D = {m}, k.taken = h.taken \ D,
         NEW b \in AgentStates, Neat(b), Admissions(b) = Admissions(w.agent),
         Recoverable(b) = Recoverable(w.agent), b.status = w.agent.status,
         b.epoch = w.agent.epoch, b.lease = w.agent.lease,
         NEW g \in [Messages -> Fates], Honest(b, g),
         Waits(b, g) \subseteq Waits(w.agent, w.fate),
         \A z \in Messages : z # m => g[z] = w.fate[z],
         NEW n, n = Holding(Owner(w), k)
  PROVE  Sound(Altered(w, b, n, g))
<1> DEFINE a == w.agent
           f == w.fate
           o == Owner(w)
<1>1. /\ w \in Worlds /\ o \in OwnerStates /\ h \in HeldStates /\ Agreed(a, o, f)
      /\ a.lease # "detached" /\ IsInjective(h.queue)
      /\ (~o.discard => Admissions(a) = Held(h))
  BY OpenIs
<1>2. n.held = k /\ n.discard = o.discard /\ n.ended = o.ended /\ n.superseded = o.superseded
  BY <1>1, HoldingIs
<1>3. Held(k) = Held(h)
  BY DEF Held
<1>4. Agreed(b, n, g)
  <2>1. Held(k) \subseteq Admissions(b)
    BY <1>1, <1>3 DEF Agreed
  <2>2. \A z \in Messages : g[z] = "held" /\ z \notin Kept(b) => k.root = z
    BY <1>1 DEF Waits, Agreed
  <2>3. ~o.discard => k.taken \cap Held(k) = {}
    BY <1>1, <1>3 DEF Agreed
  <2>4. Working(b) <=> Working(a)
    BY DEF Working
  <2>5. \A z \in k.taken : g[z] \notin {"new", "held"}
    BY <1>1, HeldIs DEF Agreed
  <2> QED BY <1>1, <1>2, <2>1, <2>2, <2>3, <2>4, <2>5 DEF Agreed
<1>5. /\ b.lease # "detached" /\ IsInjective(k.queue)
      /\ (~Owner(w).discard => Admissions(b) \subseteq Held(k))
  BY <1>1, <1>3
<1> HIDE DEF a, f, o
<1> QED BY <1>4, <1>5, OpenHolds

\* input_returned: the message is lost, reported or waits for another turn.
LEMMA SoundCommandReturned ==
  ASSUME Sound(World), NEW i \in DOMAIN owners, NEW m \in Messages,
         NEW retryable \in BOOLEAN, CommandReturned(i, m, retryable)
  PROVE  Sound(World)'
<1> DEFINE w == World
           a == w.agent
           f == w.fate
           o == Owner(w)
           h == o.held
           D == {m}
           k == [h EXCEPT !.taken = h.taken \ D]
           u == WithHeld(w, i, k)
           n == Holding(o, k)
           listens == Listens(w, i) /\ ~o.superseded
           x == IF ~listens THEN "abandoned" ELSE IF retryable THEN "held" ELSE "reported"
           g == Fated(f, m, x)
           back == listens /\ retryable
           q == QueueDelivery(a, <<m>>)
           b == IF back THEN q ELSE a
           y == Updated(u, b, g)
<1>1. /\ Sound(w) /\ w.agent = agent /\ w.owners = owners /\ w.current = current
      /\ w.owners[i].phase = "open" /\ owners[i].held.turn = "working"
      /\ m \in owners[i].held.taken
  BY DEF World, CommandReturned
<1>2. o = owners[i] /\ w \in Worlds /\ i = w.current /\ h \in HeldStates
  BY <1>1, OpenIs
<1>3. /\ k \in HeldStates /\ k.turn = h.turn /\ k.root = h.root /\ k.queue = h.queue
      /\ k.steering = h.steering /\ k.taken = h.taken \ D
  BY <1>2 DEF HeldStates
<1>4. Becomes(IF ~listens THEN [u EXCEPT !.fate[m] = "abandoned"]
              ELSE IF retryable
              THEN [u EXCEPT !.agent = QueueDelivery(@, <<m>>), !.fate[m] = "held"]
              ELSE [u EXCEPT !.fate[m] = "reported"])
  <2>1. World.owners[i] = owners[i] /\ w = World
    BY <1>1
  <2> HIDE DEF w, o
  <2>2. u = [World EXCEPT !.owners[i].held.taken = @ \ {m}]
    BY <1>2, <2>1 DEF WithHeld
  <2> HIDE DEF u
  <2> QED BY <1>2, <2>1, <2>2 DEF CommandReturned
<1> HIDE DEF w, k
<1>5. /\ u \in Worlds /\ u.agent = a /\ u.fate = f
      /\ \A p, r : Updated(u, p, r) = Altered(w, p, n, r)
  BY <1>1, <1>2, <1>3, WithHeldIs
<1>6. Becomes(Altered(w, b, n, g))
  <2> HIDE DEF u, listens, n, q
  <2>1. CASE back
    <3>1. y = [u EXCEPT !.agent = q, !.fate[m] = "held"]
      BY <1>5, <2>1 DEF Updated, Fated
    <3>2. y = Altered(w, b, n, g)
      BY <1>5
    <3> HIDE DEF y, b, g
    <3>3. q = QueueDelivery(u.agent, <<m>>)
      BY <1>5 DEF q
    <3>4. [u EXCEPT !.agent = QueueDelivery(@, <<m>>), !.fate[m] = "held"]
             = [u EXCEPT !.agent = q, !.fate[m] = "held"]
      BY <3>3
    <3> QED BY <1>4, <2>1, <3>1, <3>2, <3>4
  <2>2. CASE ~back
    <3>1. y = [u EXCEPT !.fate[m] = x]
      BY <1>5, <2>2 DEF Updated, Fated, Worlds
    <3>2. y = Altered(w, b, n, g)
      BY <1>5
    <3> HIDE DEF y, b, g
    <3> QED BY <1>4, <2>2, <3>1, <3>2
  <2> QED BY <2>1, <2>2
<1>7. /\ a \in AgentStates /\ f \in [Messages -> Fates] /\ Agreed(a, o, f) /\ Neat(a)
      /\ Honest(a, f) /\ (~o.discard => Admissions(a) = Held(h))
      /\ (Listens(w, i) <=> ~o.discard)
  BY <1>1, OpenIs
<1>8. f[m] \notin {"held", "new"} /\ h.turn = "working" /\ m \in h.taken /\ m \notin Kept(a)
  BY <1>1, <1>2, <1>7 DEF Agreed, Honest
<1>9. g \in [Messages -> Fates] /\ g[m] = x /\ \A z \in Messages : z # m => g[z] = f[z]
  <2>1. x \in Fates
    BY DEF Fates
  <2> HIDE DEF x
  <2> QED BY <1>7, <2>1, FatedIs
<1> HIDE DEF g
<1>10. /\ b \in AgentStates /\ Neat(b) /\ Admissions(b) = Admissions(a)
       /\ Recoverable(b) = Recoverable(a) /\ b.status = a.status /\ b.epoch = a.epoch
       /\ b.lease = a.lease /\ In(b) = IF back THEN In(a) \cup D ELSE In(a)
  <2>1. CASE back
    <3> DEFINE e == <<m>>
    <3>1. e \in Seq(Messages) /\ ToSet(e) = D /\ IsInjective(e)
      BY SingletonIs
    <3> HIDE DEF e
    <3>2. m \notin Admissions(a)
      BY <1>7, <1>8, <2>1 DEF Agreed
    <3>3. Shows(QueueDelivery(a, e), a, In(a) \cup ToSet(e), Admissions(a), Recoverable(a))
      BY <1>7, <3>1, <3>2, QueueDeliveryIs
    <3>4. b = QueueDelivery(a, e)
      BY <2>1 DEF e
    <3> HIDE DEF b
    <3> QED BY <2>1, <3>1, <3>3, <3>4 DEF Shows
  <2>2. CASE ~back
    BY <1>7, <2>2
  <2> QED BY <2>1, <2>2
<1> HIDE DEF b
<1>11. Kept(b) = IF back THEN Kept(a) \cup D ELSE Kept(a)
  BY <1>7, <1>10, AgentHas
<1>12. back <=> x = "held"
  OBVIOUS
<1>13. Admissions(a) \subseteq Messages /\ Kept(a) \subseteq Messages /\ x # "new"
  BY <1>7, AgentHas
<1> HIDE DEF back, x, listens
<1>14. Honest(b, g)
  BY <1>7, <1>8, <1>9, <1>10, <1>11, <1>12, <1>13 DEF Honest
<1>15. Waits(b, g) \subseteq Waits(a, f)
  BY <1>8, <1>9, <1>11, <1>12 DEF Waits
<1>16. Sound(Altered(w, b, n, g))
  <2> HIDE DEF a, f, h, o, n, D
  <2>1. /\ h = Owner(w).held /\ a = w.agent /\ f = w.fate /\ n = Holding(Owner(w), k)
        /\ D = {m}
    BY DEF a, f, h, o, n, D
  <2>2. /\ b \in AgentStates /\ Neat(b) /\ Admissions(b) = Admissions(w.agent)
        /\ Recoverable(b) = Recoverable(w.agent) /\ b.status = w.agent.status
        /\ b.epoch = w.agent.epoch /\ b.lease = w.agent.lease
    BY <1>10, <2>1
  <2>3. /\ g \in [Messages -> Fates] /\ Waits(b, g) \subseteq Waits(w.agent, w.fate)
        /\ \A z \in Messages : z # m => g[z] = w.fate[z]
    BY <1>9, <1>15, <2>1
  <2>4. i \in DOMAIN w.owners /\ w.owners[i].phase = "open" /\ Sound(w)
    BY <1>1
  <2> QED BY <1>3, <1>8, <1>14, <2>1, <2>2, <2>3, <2>4, TakenLess
<1> QED BY <1>6, <1>16, BecomesSound

\* reopenClosedLaneForWork: a turn that was over works again.
LEMMA SoundWorkAfterTerminal ==
  ASSUME Sound(World), NEW i \in DOMAIN owners, WorkAfterTerminal(i)
  PROVE  Sound(World)'
<1> DEFINE w == World
           a == w.agent
           f == w.fate
           o == Owner(w)
           h == o.held
           k == [h EXCEPT !.turn = "working"]
           u == WithHeld(w, i, k)
           n == Holding(o, k)
           heard == Listens(u, i) /\ agent.epoch = i
           b == IF heard THEN ReopenedByWork(a) ELSE a
           y == IF heard THEN [u EXCEPT !.agent = ReopenedByWork(@)] ELSE u
<1>1. /\ Sound(w) /\ w.agent = agent /\ w.owners = owners /\ w.current = current
      /\ w.owners[i].phase = "open" /\ owners[i].held.turn = "none" /\ owners[i].ended
  BY DEF World, WorkAfterTerminal
<1>2. /\ o = owners[i] /\ w \in Worlds /\ i = w.current /\ h \in HeldStates
      /\ a \in AgentStates /\ f \in [Messages -> Fates] /\ Agreed(a, o, f) /\ Neat(a)
      /\ Honest(a, f) /\ (~o.discard => Admissions(a) = Held(h)) /\ a.epoch = i
      /\ a.lease # "detached" /\ (Listens(w, i) <=> ~o.discard) /\ o \in OwnerStates
      /\ IsInjective(h.queue)
  BY <1>1, OpenIs
<1>3. /\ k \in HeldStates /\ k.turn = "working" /\ k.root = h.root /\ k.queue = h.queue
      /\ k.steering = h.steering /\ k.taken = h.taken
  BY <1>2 DEF HeldStates
<1>4. Becomes(y)
  <2>1. World.owners[i] = owners[i] /\ w = World
    BY <1>1
  <2> HIDE DEF w, o
  <2>2. u = [World EXCEPT !.owners[i].held.turn = "working"]
    BY <1>2, <2>1 DEF WithHeld
  <2> HIDE DEF u
  <2> QED BY <2>2, <1>1 DEF WorkAfterTerminal
<1> HIDE DEF w, k
<1>5. /\ u \in Worlds /\ u.agent = a /\ u.fate = f /\ (Listens(u, i) <=> Listens(w, i))
      /\ \A p, r : Updated(u, p, r) = Altered(w, p, n, r)
  BY <1>1, <1>2, <1>3, WithHeldIs
<1> HIDE DEF u
<1>6. y = Altered(w, b, n, f)
  <2>1. y = Updated(u, b, f)
    <3> HIDE DEF heard
    <3> QED BY <1>5 DEF Updated, Worlds
  <2> QED BY <1>5, <2>1
<1>7. heard <=> ~o.discard
  BY <1>1, <1>2, <1>5
<1>8. h.root = None /\ h.turn = "none" /\ Held(k) = Held(h)
  <2>1. h.turn = "none"
    BY <1>1, <1>2
  <2> QED BY <1>2, <1>3, <2>1 DEF Agreed, Held
<1>9. /\ b \in AgentStates /\ Neat(b) /\ In(b) = In(a) /\ Admissions(b) = Admissions(a)
      /\ Recoverable(b) = Recoverable(a) /\ b.status = a.status /\ b.epoch = a.epoch
      /\ b.lease # "detached" /\ (~o.discard => b.lease = "suspect")
  <2>1. CASE ~o.discard
    <3>1. a.lease = "terminal"
      <4>1. a.lease # "none" /\ ~Working(a)
        BY <1>1, <1>2, <1>8, <2>1 DEF Agreed
      <4> QED BY <1>2, <4>1 DEF AgentStates, Working
    <3>2. b = [a EXCEPT !.lease = "suspect", !.idle = FALSE]
      BY <1>7, <2>1, <3>1 DEF ReopenedByWork
    <3>3. /\ b \in AgentStates /\ b.inbox = a.inbox /\ b.pending = a.pending
          /\ b.status = a.status /\ b.epoch = a.epoch /\ b.lease = "suspect"
      BY <1>2, <3>2 DEF AgentStates
    <3> HIDE DEF b
    <3>4. /\ Neat(b) /\ In(b) = In(a) /\ Admissions(b) = Admissions(a)
          /\ Recoverable(b) = Recoverable(a)
      BY <1>2, <3>3, FlagsChange
    <3> QED BY <3>3, <3>4
  <2>2. CASE o.discard
    BY <1>2, <1>7, <2>2
  <2>3. o.discard \in BOOLEAN
    BY <1>2 DEF OwnerStates
  <2> QED BY <2>1, <2>2, <2>3
<1> HIDE DEF b, y, heard
<1>10. Kept(b) = Kept(a)
  BY <1>2, <1>9, AgentHas
<1>11. Honest(b, f) /\ Waits(b, f) = Waits(a, f)
  BY <1>2, <1>9, <1>10 DEF Honest, Waits
<1>12. Agreed(b, n, f)
  <2>1. n.held = k /\ n.discard = o.discard /\ n.superseded = o.superseded
    BY <1>2, <1>3, HoldingIs
  <2>2. ~o.discard => Working(b) /\ b.lease # "none"
    BY <1>9 DEF Working
  <2>3. \A z \in Messages : f[z] = "held" /\ z \notin Kept(b) => k.root = z
    BY <1>2, <1>3, <1>10 DEF Agreed
  <2>4. Held(k) \subseteq Admissions(b)
    BY <1>2, <1>8, <1>9 DEF Agreed
  <2>5. k.root = None /\ k.turn # "starting"
    BY <1>3, <1>8
  <2>6. o.discard \/ b.status # "running" => Recoverable(b) = {}
    BY <1>2, <1>9 DEF Agreed
  <2>7. /\ h.root \notin ToSet(h.queue) \cup h.steering
        /\ ToSet(h.queue) \cap h.steering = {}
        /\ \A m \in h.taken : f[m] \notin {"new", "held"}
        /\ ~o.discard => h.taken \cap Held(h) = {}
        /\ o.discard => o.superseded /\ h.queue = <<>> /\ h.steering = {}
    BY <1>2 DEF Agreed
  <2> HIDE DEF n, o, h
  <2> QED BY <1>3, <1>8, <2>1, <2>2, <2>3, <2>4, <2>5, <2>6, <2>7 DEF Agreed
<1>13. Sound(Altered(w, b, n, f))
  <2>1. ~o.discard => Admissions(b) \subseteq Held(k)
    BY <1>2, <1>8, <1>9
  <2> HIDE DEF n, o, a, f, h
  <2>2. n = Holding(Owner(w), k) /\ b.epoch = w.agent.epoch
    BY <1>9 DEF n, o, a
  <2>3. /\ Waits(b, f) \subseteq Waits(w.agent, w.fate)
        /\ ~Owner(w).discard => Admissions(b) \subseteq Held(k)
    BY <1>11, <2>1 DEF a, f, o
  <2>4. IsInjective(k.queue) /\ i \in DOMAIN w.owners
    BY <1>1, <1>2, <1>3
  <2>5. f \in [Messages -> Fates]
    BY <1>2
  <2> QED BY <1>1, <1>3, <1>9, <1>11, <1>12, <2>2, <2>3, <2>4, <2>5, OpenHolds
<1> QED BY <1>4, <1>6, <1>13, BecomesSound

\* Named, so that the provers need not match the update.
Ending(o, k) == [o EXCEPT !.ended = TRUE, !.held = k]

LEMMA EndingIs ==
  ASSUME NEW o \in OwnerStates, NEW k \in HeldStates, NEW n, n = Ending(o, k)
  PROVE  /\ n \in OwnerStates /\ n.held = k /\ n.ended /\ n.phase = o.phase
         /\ n.first = o.first /\ n.established = o.established
         /\ n.reported = o.reported /\ n.superseded = o.superseded
         /\ n.discard = o.discard /\ n.torndown = o.torndown
BY DEF OwnerStates, Ending

\* completeTurn: the turn is over, and what was on its way into it failed.
LEMMA SoundTurnCompletes ==
  ASSUME Sound(World), NEW i \in DOMAIN owners, TurnCompletes(i)
  PROVE  Sound(World)'
<1> DEFINE w == World
           a == w.agent
           f == w.fate
           o == Owner(w)
           h == o.held
           E == h.steering
           k == [h EXCEPT !.turn = "none", !.steering = {}, !.taken = {}]
           n == Ending(o, k)
           u == Altered(w, a, n, f)
           x == InputsFail(u, i, E)
           y == Complete(x, i)
           b == x.agent
           g == x.fate
           d == Ended(b)
           z == [x EXCEPT !.agent = d]
<1>1. /\ Sound(w) /\ w.agent = agent /\ w.owners = owners /\ w.current = current
      /\ w.owners[i].phase = "open" /\ owners[i].held.turn = "working"
  BY DEF World, TurnCompletes
<1>2. /\ o = owners[i] /\ w \in Worlds /\ i = w.current /\ h \in HeldStates
      /\ a \in AgentStates /\ f \in [Messages -> Fates] /\ Agreed(a, o, f) /\ Neat(a)
      /\ Honest(a, f) /\ (~o.discard => Admissions(a) = Held(h)) /\ a.epoch = i
      /\ a.lease # "detached" /\ o \in OwnerStates /\ IsInjective(h.queue) /\ ~o.torndown
      /\ Vouched(a, i, o, f) /\ Others(w) /\ i # 0
  BY <1>1, OpenIs
<1>3. /\ k \in HeldStates /\ k.turn = "none" /\ k.root = h.root /\ k.queue = h.queue
      /\ k.steering = {} /\ k.taken = {}
  BY <1>2 DEF HeldStates
<1>4. Becomes(y)
  <2>1. World.owners[i] = owners[i] /\ w = World /\ i = World.current
    BY <1>1, <1>2
  <2> HIDE DEF w, o
  <2>2. u = [World EXCEPT !.owners[i].ended = TRUE,
                          !.owners[i].held = [h EXCEPT !.turn = "none", !.steering = {}, !.taken = {}]]
    BY <1>2, <2>1 DEF Altered, Put, Ending, Worlds
  <2> HIDE DEF u, k
  <2> QED BY <1>2, <2>1, <2>2 DEF TurnCompletes
<1> HIDE DEF w, k
<1>5. /\ n \in OwnerStates /\ n.held = k /\ n.ended /\ n.phase = "open"
      /\ n.first = o.first /\ n.established = o.established /\ n.superseded = o.superseded
      /\ n.reported = o.reported /\ n.discard = o.discard /\ ~n.torndown
  BY <1>1, <1>2, <1>3, EndingIs
<1> HIDE DEF n
<1>6. Vouched(a, i, n, f)
  BY <1>2, <1>5 DEF Vouched
<1>7. /\ u \in Worlds /\ u.agent = a /\ u.fate = f /\ u.current = i
      /\ u.owners = Put(w.owners, i, n) /\ u.owners[i] = n
  <2> DEFINE t == Put(w.owners, i, n)
  <2>1. w.owners \in Seq(OwnerStates) /\ i \in DOMAIN w.owners
    BY <1>1, <1>2, WorldHas
  <2>2. t \in Seq(OwnerStates) /\ t[i] = n
    BY <1>5, <2>1, OwnersChange
  <2> HIDE DEF t
  <2>3. u = [w EXCEPT !.agent = a, !.owners = t, !.fate = f]
    BY <1>2 DEF Altered, t
  <2>4. u \in Worlds /\ u.agent = a /\ u.fate = f /\ u.current = i /\ u.owners = t
    BY <1>2, <2>2, <2>3 DEF Worlds
  <2> QED BY <2>2, <2>4 DEF t
<1>8. h.root = None /\ h.turn = "working"
  BY <1>1, <1>2 DEF Agreed
<1>9. Listens(u, i) <=> ~o.discard
  BY <1>2, <1>5, <1>7 DEF Listens
<1> HIDE DEF u
<1>10. ASSUME NEW c \in AgentStates, Neat(c), c.epoch = i, c.lease # "detached",
              NEW e \in [Messages -> Fates], Honest(c, e), Vouched(c, i, n, e),
              o.discard => c = a /\ e = f,
              ~o.discard => Admissions(c) = ToSet(h.queue) /\ c.lease = "terminal"
                            /\ Waits(c, e) \subseteq Waits(a, f)
                            /\ (c.status # "running" => Recoverable(c) = {})
       PROVE  Sound(Altered(w, c, n, e))
  <2>1. Held(k) = ToSet(h.queue)
    BY <1>3, <1>8 DEF Held
  <2>2. Placed(c, w.current, n, e)
    <3>1. Admissions(c) \subseteq Held(n.held) \/ n.discard
      BY <1>5, <1>10, <2>1
    <3> QED BY <1>2, <1>3, <1>5, <1>10, <3>1 DEF Placed
  <2>3. Agreed(c, n, e)
    <3>1. /\ h.root \notin ToSet(h.queue) \cup h.steering
          /\ o.discard => o.superseded /\ h.queue = <<>> /\ h.steering = {}
          /\ o.discard => Recoverable(a) = {} /\ Held(h) \subseteq Admissions(a)
          /\ Waits(a, f) = {}
      BY <1>2, <1>8, HeldIs DEF Agreed, Waits
    <3>2. Held(k) \subseteq Admissions(c)
      <4>1. ToSet(h.queue) \subseteq Held(h)
        BY DEF Held
      <4> QED BY <1>10, <2>1, <3>1, <4>1
    <3>3. \A m \in Messages : e[m] = "held" /\ m \notin Kept(c) => k.root = m
      <4>1. Waits(c, e) = {}
        BY <1>10, <3>1
      <4> QED BY <4>1 DEF Waits
    <3>4. ~o.discard => ~Working(c) /\ c.lease # "none"
      BY <1>10 DEF Working
    <3>5. o.discard \/ c.status # "running" => Recoverable(c) = {}
      BY <1>10, <3>1
    <3> HIDE DEF o, h
    <3> QED BY <1>3, <1>5, <1>8, <3>1, <3>2, <3>3, <3>4, <3>5 DEF Agreed
  <2>4. w.current \in DOMAIN w.owners /\ Vouched(c, w.current, n, e)
    BY <1>1, <1>2, <1>10
  <2> QED BY <1>2, <1>5, <1>10, <2>2, <2>3, <2>4, AlteredIs
<1>11. CASE o.discard
  <2>1. x = u /\ ~Listens(x, i)
    BY <1>9, <1>11 DEF InputsFail
  <2>2. Sound(Altered(w, a, n, f))
    BY <1>2, <1>6, <1>10, <1>11
  <2>3. Sound(x) /\ x \in Worlds /\ Neat(x.agent)
    BY <1>2, <1>7, <2>1, <2>2 DEF u
  <2> HIDE DEF x
  <2>4. Sound(y)
    BY <2>1, <2>3, CompleteSound
  <2> QED BY <1>4, <2>4, BecomesSound
<1>12. CASE ~o.discard
  <2>1. Failed(x, u, i, n, E)
    <3>1. Neat(u.agent) /\ Honest(u.agent, u.fate) /\ Listens(u, i) /\ u.agent.epoch = i
          /\ Vouched(u.agent, i, n, u.fate) /\ u \in Worlds
      BY <1>2, <1>6, <1>7, <1>9, <1>12
    <3> HIDE DEF E, o, h, a, f
    <3> QED BY <3>1, InputsFailHandled
  <2> HIDE DEF x
  <2>2. /\ x \in Worlds /\ x.owners = u.owners /\ x.current = i /\ Neat(b) /\ Honest(b, g)
        /\ Vouched(b, i, n, g) /\ Admissions(b) = Admissions(a) \ E
        /\ Recoverable(b) = Recoverable(a) \ E
        /\ b.status = a.status /\ b.epoch = a.epoch /\ b.lease = a.lease
        /\ Waits(b, g) \subseteq Waits(a, f)
    BY <1>7, <2>1 DEF Failed, Handled, Waits
  <2>3. b \in AgentStates /\ g \in [Messages -> Fates]
    BY <2>2, WorldHas
  <2>4. Listens(x, i) /\ x.agent.epoch = i /\ Working(x.agent)
    <3>1. Working(a)
      BY <1>2, <1>8, <1>12 DEF Agreed
    <3>2. Listens(x, i)
      BY <1>2, <1>7, <1>9, <1>12, <2>2 DEF Listens
    <3> QED BY <1>2, <2>2, <3>1, <3>2 DEF Working
  <2>5. /\ d \in AgentStates /\ d.inbox = b.inbox /\ d.pending = b.pending
        /\ d.status = b.status /\ d.epoch = b.epoch /\ d.lease = "terminal"
    BY <2>3 DEF Ended, AgentStates
  <2>6. z = Altered(w, d, n, g)
    BY <1>2, <1>7, <2>2 DEF Worlds, Altered
  <2>10. z = [x EXCEPT !.agent = Ended(x.agent)]
    OBVIOUS
  <2> HIDE DEF b, d, g, z
  <2>7. /\ Neat(d) /\ In(d) = In(b) /\ Admissions(d) = Admissions(b)
        /\ Recoverable(d) = Recoverable(b)
    BY <2>2, <2>3, <2>5, FlagsChange
  <2>8. Kept(d) = Kept(b)
    BY <2>3, <2>5, <2>7, AgentHas
  <2>9. Sound(Altered(w, d, n, g))
    <3>1. Honest(d, g) /\ Vouched(d, i, n, g) /\ Waits(d, g) = Waits(b, g)
      BY <2>2, <2>7, <2>8 DEF Honest, Vouched, Waits
    <3>2. Admissions(d) = ToSet(h.queue)
      <4>1. Admissions(a) = ToSet(h.queue) \cup E /\ ToSet(h.queue) \cap E = {}
        BY <1>2, <1>8, <1>12 DEF Held, Agreed
      <4> QED BY <2>2, <2>7, <4>1
    <3>3. d.status # "running" => Recoverable(d) = {}
      <4>1. a.status # "running" => Recoverable(a) = {}
        BY <1>2 DEF Agreed
      <4> QED BY <2>2, <2>5, <2>7, <4>1
    <3>4. d.epoch = i /\ d.lease # "detached" /\ Waits(d, g) \subseteq Waits(a, f)
      BY <1>2, <2>2, <2>5, <3>1
    <3> HIDE DEF o, h, a, f
    <3> QED BY <1>10, <1>12, <2>3, <2>5, <2>7, <3>1, <3>2, <3>3, <3>4
  <2>11. Neat(x.agent) /\ x \in Worlds
    BY <2>2 DEF b
  <2>12. Sound(z)
    BY <2>6, <2>9
  <2>13. Sound(y)
    BY <2>4, <2>10, <2>11, <2>12, CompleteSound
  <2> QED BY <1>4, <2>13, BecomesSound
<1> QED BY <1>11, <1>12
-----------------------------------------------------------------------------
(* The first and the last steps of an owner.                               *)

\* Named, so that the provers need not match the updates.
Replaced(w, i, o) == [w EXCEPT !.owners = Put(w.owners, i, o)]
Phased(o, p)      == [o EXCEPT !.phase = p]

\* An owner that was given up is replaced by one that is given up.
LEMMA OtherReplaced ==
  ASSUME NEW w, Sound(w), NEW i \in DOMAIN w.owners, i # w.current,
         NEW o \in OwnerStates, o.torndown, o.phase # "open", w.owners[i].discard => o.discard
  PROVE  Sound(Replaced(w, i, o))
<1> DEFINE v == Replaced(w, i, o)
           t == Put(w.owners, i, o)
<1>1. w \in Worlds /\ t \in Seq(OwnerStates)
  BY WorldHas, OwnersChange DEF Sound, Accounted
<1>2. v = [w EXCEPT !.owners = t]
  BY DEF Replaced
<1>3. t = Put(w.owners, i, o)
  OBVIOUS
<1> HIDE DEF t, v
<1>4. v \in Worlds /\ v.agent = w.agent /\ v.current = w.current /\ v.fate = w.fate /\ v.owners = t
  BY <1>1, <1>2 DEF Worlds
<1>5. Sound(v)
  BY <1>3, <1>4, OtherChanges
<1> QED BY <1>5 DEF v

\* What is known of any owner but the current one.
LEMMA OtherIs ==
  ASSUME NEW w, Sound(w), NEW i \in DOMAIN w.owners
  PROVE  /\ w \in Worlds /\ w.owners[i] \in OwnerStates /\ i # 0
         /\ i # w.current => w.owners[i].torndown /\ w.owners[i].phase # "open"
         /\ i = w.current => ~w.owners[i].torndown /\ w.owners[i] = Owner(w)
BY WorldHas DEF Sound, Accounted, Others, Placed, Owner

LEMMA PhasedIs ==
  ASSUME NEW o \in OwnerStates, NEW p \in {"stopping", "crashed", "ended"},
         NEW n, n = Phased(o, p)
  PROVE  /\ n \in OwnerStates /\ n.held = o.held /\ n.phase = p /\ n.ended = o.ended
         /\ n.first = o.first /\ n.established = o.established
         /\ n.reported = o.reported /\ n.superseded = o.superseded
         /\ n.discard = o.discard /\ n.torndown = o.torndown
BY DEF OwnerStates, Phased

\* What an owner is when its session starts.
Started(o, d, k) ==
    [o EXCEPT !.phase = "open", !.delivery = d, !.receipt = "due", !.held = k]

\* The factory answers: a session starts, or is stopped at once.
LEMMA SoundFactoryOpens ==
  ASSUME Sound(World), NEW i \in DOMAIN owners, NEW d \in Deliveries, FactoryOpens(i, d)
  PROVE  Sound(World)'
<1> DEFINE w == World
           a == w.agent
           f == w.fate
           o == w.owners[i]
           m == o.first
           k == [o.held EXCEPT !.turn = "starting", !.root = m]
           n == Started(o, d, k)
           b1 == AttachSession(a, i)
           b == AdmissionsStarted(b1, <<m>>, {}, FALSE)
           s == Phased(o, "stopping")
<1>1. /\ Sound(w) /\ w.agent = agent /\ w.owners = owners /\ w.current = current
      /\ w.fate = fate /\ i \in DOMAIN w.owners /\ o.phase = "opening"
  BY DEF World, FactoryOpens
<1>2. /\ w \in Worlds /\ o \in OwnerStates /\ i # 0
      /\ (i # w.current => o.torndown) /\ (i = w.current => ~o.torndown /\ o = Owner(w))
  BY <1>1, OtherIs
<1>3. CASE i # w.current
  <2>1. Becomes(Replaced(w, i, s))
    <3>1. Replaced(w, i, s) = [World EXCEPT !.owners[i].phase = "stopping"]
      BY DEF Replaced, Put, Phased
    <3> HIDE DEF s
    <3> QED BY <1>1, <1>3, <3>1 DEF FactoryOpens
  <2>2. s \in OwnerStates /\ s.phase = "stopping" /\ s.torndown = o.torndown
        /\ s.discard = o.discard
    BY <1>2, PhasedIs
  <2> HIDE DEF s, w
  <2>3. Sound(Replaced(w, i, s))
    BY <1>1, <1>2, <1>3, <2>2, OtherReplaced
  <2> QED BY <2>1, <2>3, BecomesSound
<1>4. CASE i = w.current
  <2>1. Becomes(Altered(w, b, n, f))
    <3>1. n = [o EXCEPT !.phase = "open", !.delivery = d, !.receipt = "due",
                        !.held.turn = "starting", !.held.root = o.first]
      BY DEF Started
    <3> HIDE DEF n
    <3>2. Altered(w, b, n, f) = [World EXCEPT !.agent = b, !.owners[i] = n]
      BY <1>2, <1>4 DEF Altered, Put, Worlds
    <3>3. ~owners[i].torndown /\ current = i
      BY <1>1, <1>2, <1>4
    <3>4. Becomes([World EXCEPT
               !.agent = AdmissionsStarted(AttachSession(@, i), <<owners[i].first>>, {}, FALSE),
               !.owners[i] = [owners[i] EXCEPT !.phase = "open", !.delivery = d, !.receipt = "due",
                                       !.held.turn = "starting", !.held.root = owners[i].first]])
      BY <3>3 DEF FactoryOpens
    <3> QED BY <1>1, <3>1, <3>2, <3>4
  <2> HIDE DEF w
  <2>2. /\ a \in AgentStates /\ f \in [Messages -> Fates] /\ Neat(a) /\ Honest(a, f)
        /\ Vouched(a, i, o, f) /\ Placed(a, i, o, f) /\ Others(w) /\ i \in Nat
    BY <1>1, <1>2, <1>4, WorldHas DEF Sound, Accounted
  <2>3. /\ a.epoch = 0 /\ o.held = Empty /\ ~o.ended /\ m \notin In(a) /\ f[m] # "new"
        /\ (o.discard => o.superseded) /\ Admissions(a) = {} /\ ~o.torndown
    BY <1>1, <1>2, <2>2 DEF Placed
  <2>4. m \in Messages /\ None \notin Messages /\ Recoverable(a) = {} /\ Kept(a) = In(a)
        /\ In(a) \subseteq Messages
    <3>1. Empty \in HeldStates
      BY <1>2, <2>3 DEF OwnerStates
    <3>2. None \notin Messages
      BY <3>1, HeldIs
    <3>3. /\ In(a) \subseteq Messages /\ Recoverable(a) \subseteq Admissions(a)
          /\ Kept(a) = In(a) \cup Recoverable(a)
      BY <2>2, AgentHas
    <3>4. m \in Messages
      BY <1>2 DEF OwnerStates
    <3> QED BY <2>3, <3>2, <3>3, <3>4
  <2>5. /\ k \in HeldStates /\ k.turn = "starting" /\ k.root = m /\ k.queue = <<>>
        /\ k.steering = {} /\ k.taken = {}
    <3>1. k = [Empty EXCEPT !.turn = "starting", !.root = m]
      BY <2>3
    <3>2. Empty \in HeldStates
      BY <1>2, <2>3 DEF OwnerStates
    <3> QED BY <2>4, <3>1, <3>2 DEF HeldStates, Empty
  <2> HIDE DEF k
  <2>6. /\ n \in OwnerStates /\ n.held = k /\ n.phase = "open" /\ n.first = m
        /\ n.established = o.established /\ n.reported = o.reported
        /\ n.superseded = o.superseded /\ n.discard = o.discard /\ ~n.torndown /\ ~n.ended
    <3>1. d \in {"steer", "boundary", "next_turn"}
      BY BackendAssumption
    <3> QED BY <1>2, <2>3, <2>5, <3>1 DEF OwnerStates, Started
  <2> HIDE DEF n
  <2>7. /\ b1 \in AgentStates /\ Neat(b1) /\ In(b1) = In(a) /\ Admissions(b1) = {}
        /\ b1.epoch = i /\ b1.lease = "none" /\ b1.status = a.status
    <3>1. b1 = AttachSession(a, i)
      OBVIOUS
    <3> HIDE DEF b1, a
    <3>2. /\ b1 \in AgentStates /\ Neat(b1) /\ In(b1) = In(a) \cup Recoverable(a)
          /\ Admissions(b1) = {} /\ b1.epoch = i /\ b1.lease = "none" /\ b1.status = a.status
      BY <2>2, <3>1, AttachSessionIs
    <3> QED BY <2>4, <3>2
  <2>8. Shows(b, b1, In(b1), {m}, {})
    <3> DEFINE D == {}
    <3> HIDE DEF D, b1, m
    <3>1. Shows(AdmissionsStarted(b1, <<m>>, D, FALSE), b1, In(b1), {m}, {})
      BY <2>3, <2>4, <2>7, FirstAdmittedIs
    <3> QED BY <3>1 DEF D
  <2> HIDE DEF b, b1
  <2>9. /\ b \in AgentStates /\ Neat(b) /\ In(b) = In(a) /\ Admissions(b) = {m}
        /\ Recoverable(b) = {} /\ b.epoch = i /\ b.lease = "none"
    BY <2>7, <2>8 DEF Shows
  <2>10. Kept(b) = Kept(a)
    BY <2>4, <2>9, AgentHas
  <2>11. Honest(b, f) /\ Vouched(b, i, n, f)
    BY <2>2, <2>3, <2>6, <2>9, <2>10 DEF Honest, Vouched
  <2>12. Held(k) = {m}
    BY <2>4, <2>5, EmptyIs DEF Held
  <2>13. Placed(b, i, n, f)
    BY <1>2, <2>5, <2>6, <2>9, <2>12, EmptyIs DEF Placed
  <2>14. Agreed(b, n, f)
    <3>1. \A z \in Messages : f[z] = "held" /\ z \notin Kept(b) => k.root = z
      BY <2>2, <2>5, <2>10 DEF Vouched
    <3>2. ToSet(k.queue) = {} /\ k.root # None
      BY <2>4, <2>5, EmptyIs
    <3>3. ~Working(b)
      BY <2>9 DEF Working
    <3> HIDE DEF o, m
    <3> QED BY <2>3, <2>5, <2>6, <2>9, <2>12, <3>1, <3>2, <3>3 DEF Agreed
  <2>15. Sound(Altered(w, b, n, f))
    <3>1. w.current \in DOMAIN w.owners /\ i = w.current
      BY <1>1, <1>4
    <3> HIDE DEF f
    <3> QED BY <1>2, <2>2, <2>6, <2>9, <2>11, <2>13, <2>14, <3>1, AlteredIs
  <2> QED BY <2>1, <2>15, BecomesSound
<1> QED BY <1>3, <1>4

LEMMA OverIs ==
  ASSUME NEW o \in OwnerStates
  PROVE  /\ Over(o) \in OwnerStates /\ Over(o).phase = "gone" /\ Over(o).torndown
         /\ Over(o).discard <=> o.discard /\ o.torndown
<1>1. o.first \in Messages /\ o.discard \in BOOLEAN /\ o.torndown \in BOOLEAN
  BY DEF OwnerStates
<1>2. 1 \in Messages
  BY <1>1, BoundsAssumption DEF Messages
<1> DEFINE n == NewOwner(1)
           d == o.discard /\ o.torndown
<1>3. n \in OwnerStates
  <2> DEFINE m == 1
  <2>1. m \in Messages
    BY <1>2
  <2> HIDE DEF m
  <2>2. NewOwner(m) \in OwnerStates
    BY <2>1, NewOwnerIs
  <2> QED BY <2>2 DEF m
<1>4. d \in BOOLEAN
  BY <1>1
<1>5. Over(o) = [n EXCEPT !.phase = "gone", !.torndown = TRUE, !.discard = d]
  BY DEF Over
<1> HIDE DEF n, d
<1>6. /\ Over(o) \in OwnerStates /\ Over(o).phase = "gone" /\ Over(o).torndown
      /\ Over(o).discard = d
  BY <1>3, <1>4, <1>5 DEF OwnerStates
<1> QED BY <1>6 DEF d

\* Named, so that the provers need not match the updates.
Left(w, b, n, g) ==
    [w EXCEPT !.agent = b, !.owners = Put(w.owners, w.current, n), !.current = 0, !.fate = g]

\* The current owner is given up, with nothing that only it would answer for.
LEMMA LeavesSound ==
  ASSUME NEW w \in Worlds, w.current \in DOMAIN w.owners, Others(w),
         NEW n \in OwnerStates, n.torndown, n.phase # "open",
         NEW b \in AgentStates, Neat(b), NEW g \in [Messages -> Fates], Honest(b, g),
         \A m \in Messages : g[m] = "held" => m \in Kept(b),
         In(b) # {} \/ Recoverable(b) = {} \/ n.discard,
         NEW v, v = Left(w, b, n, g)
  PROVE  Sound(Exit(v))
<1> DEFINE c == w.current
           s == w.owners
           t == Put(s, c, n)
<1>1. s \in Seq(OwnerStates) /\ c \in DOMAIN s
  BY WorldHas
<1>2. v = [w EXCEPT !.agent = b, !.owners = t, !.current = 0, !.fate = g]
  BY DEF Left
<1>3. Others(w)
  OBVIOUS
<1> HIDE DEF c, s
<1>4. /\ t \in Seq(OwnerStates) /\ DOMAIN t = DOMAIN s /\ t[c] = n
      /\ \A j \in DOMAIN s : j # c => t[j] = s[j]
  BY <1>1, OwnersChange
<1> HIDE DEF t
<1>5. v \in Worlds /\ v.agent = b /\ v.owners = t /\ v.current = 0 /\ v.fate = g
  <2> DEFINE z == 0
  <2>1. z \in Nat /\ v = [w EXCEPT !.agent = b, !.owners = t, !.current = z, !.fate = g]
    BY <1>2
  <2> HIDE DEF z
  <2>2. v \in Worlds /\ v.agent = b /\ v.owners = t /\ v.current = z /\ v.fate = g
    BY <1>4, <2>1 DEF Worlds
  <2> QED BY <2>2 DEF z
<1>6. Others(v)
  BY <1>1, <1>3, <1>4, <1>5 DEF Others, c, s
<1>7. n.discard => GivenUp(v)
  BY <1>1, <1>4, <1>5 DEF GivenUp
<1>8. /\ Neat(v.agent) /\ Honest(v.agent, v.fate)
      /\ \A m \in Messages : v.fate[m] = "held" => m \in Kept(v.agent)
      /\ In(v.agent) # {} \/ Recoverable(v.agent) = {} \/ GivenUp(v)
  BY <1>5, <1>7
<1> QED BY <1>5, <1>6, <1>8, ExitSound

\* The factory fails: the loss of the first message is reported.
LEMMA SoundFactoryFails ==
  ASSUME Sound(World), NEW i \in DOMAIN owners, FactoryFails(i)
  PROVE  Sound(World)'
<1> DEFINE w == World
           o == w.owners[i]
           x == ReportSpawnFailure(w, i)
           p == x.owners[i]
           n == Over(p)
<1>1. /\ Sound(w) /\ Accounted(w) /\ w.agent = agent /\ w.owners = owners
      /\ w.current = current /\ w.fate = fate /\ i \in DOMAIN w.owners /\ o.phase = "opening"
  BY DEF World, FactoryFails, Sound
<1>2. /\ w \in Worlds /\ o \in OwnerStates /\ i # 0
      /\ (i # w.current => o.torndown) /\ (i = w.current => ~o.torndown /\ o = Owner(w))
  BY <1>1, OtherIs
<1>3. Becomes(IF current = i
              THEN Exit([[x EXCEPT !.owners[i] = Over(@)] EXCEPT !.current = 0])
              ELSE [x EXCEPT !.owners[i] = Over(@)])
  BY DEF FactoryFails
<1> HIDE DEF w
<1>4. CASE i # w.current
  <2>1. /\ x \in Worlds /\ x.agent = w.agent /\ x.current = w.current /\ x.fate = w.fate
        /\ x.owners = Put(w.owners, i, Reporting(o, p.reported))
        /\ Reporting(o, p.reported) \in OwnerStates
    BY <1>1, <1>2, <1>4, ReportIs
  <2> DEFINE r == Reporting(o, p.reported)
  <2>2. r.torndown = o.torndown /\ r.discard = o.discard
    BY <1>2 DEF OwnerStates, Reporting
  <2> HIDE DEF r
  <2>3. p = r
    <3> DEFINE s == w.owners
    <3> HIDE DEF s
    <3>1. s \in Seq(OwnerStates) /\ i \in DOMAIN s /\ r \in OwnerStates /\ x.owners = Put(s, i, r)
      BY <1>1, <1>2, <2>1, WorldHas DEF s, r
    <3> QED BY <3>1, OwnersChange
  <2>4. [x EXCEPT !.owners[i] = Over(@)] = Replaced(w, i, n)
    <3>1. x.owners = Put(w.owners, i, r)
      BY <2>1 DEF r
    <3>2. [x EXCEPT !.owners[i] = Over(@)] = [x EXCEPT !.owners = Put(x.owners, i, n)]
      BY <2>1 DEF Put, Worlds
    <3> HIDE DEF x, n, p
    <3>3. Put(x.owners, i, n) = Put(w.owners, i, n)
      BY <3>1, PutAgain
    <3>4. [x EXCEPT !.owners = Put(w.owners, i, n)] = [w EXCEPT !.owners = Put(w.owners, i, n)]
      BY <1>2, <2>1 DEF Worlds
    <3> QED BY <3>2, <3>3, <3>4 DEF Replaced
  <2> HIDE DEF x, p
  <2>5. n \in OwnerStates /\ n.phase = "gone" /\ n.torndown /\ (o.discard => n.discard)
    BY <1>2, <1>4, <2>1, <2>2, <2>3, OverIs DEF r
  <2>6. Sound(Replaced(w, i, n))
    <3> HIDE DEF n
    <3> QED BY <1>1, <1>4, <2>5, OtherReplaced
  <2> QED BY <1>1, <1>3, <1>4, <2>4, <2>6, BecomesSound
<1>5. CASE i = w.current
  <2>1. /\ Accounted(x) /\ x.current = i /\ x.agent = w.agent
        /\ (\A m \in Messages : x.fate[m] = "held" => m \in Kept(x.agent))
        /\ Owner(x) \in OwnerStates /\ DOMAIN x.owners = DOMAIN w.owners
    <3>1. x = ReportSpawnFailure(w, w.current)
      BY <1>5
    <3> HIDE DEF x
    <3> QED BY <1>1, <1>2, <1>5, <3>1, ReportAccounted
  <2>2. x \in Worlds /\ Others(x) /\ Neat(x.agent) /\ Honest(x.agent, x.fate)
    BY <2>1 DEF Accounted
  <2>3. x.agent \in AgentStates /\ x.fate \in [Messages -> Fates] /\ Owner(x) = p
    BY <2>1, <2>2, WorldHas DEF Owner
  <2>4. n \in OwnerStates /\ n.phase = "gone" /\ n.torndown
    BY <2>1, <2>3, OverIs
  <2>5. Recoverable(x.agent) = {}
    <3>1. Admissions(w.agent) = {}
      BY <1>1, <1>2, <1>5 DEF Accounted, Placed
    <3> QED BY <2>1, <2>3, <3>1, AgentHas
  <2>6. [[x EXCEPT !.owners[i] = Over(@)] EXCEPT !.current = 0] = Left(x, x.agent, n, x.fate)
    BY <2>1, <2>2 DEF Left, Put, Worlds
  <2> HIDE DEF x, n
  <2>7. Sound(Exit(Left(x, x.agent, n, x.fate)))
    <3>1. x.current \in DOMAIN x.owners
      BY <1>1, <2>1
    <3> QED BY <2>1, <2>2, <2>3, <2>4, <2>5, <3>1, LeavesSound
  <2> QED BY <1>1, <1>3, <1>5, <2>6, <2>7, BecomesSound
<1> QED BY <1>4, <1>5

\* teardown: the session is over, and what was admitted is given back.
LEMMA SoundCloses ==
  ASSUME Sound(World), NEW i \in DOMAIN owners, Closes(i)
  PROVE  Sound(World)'
<1> DEFINE w == World
           o == w.owners[i]
           x == ReportSpawnFailure(w, i)
           a == x.agent
           b == SessionClosed(a)
           p == x.owners[i]
           n == Over(p)
<1>1. /\ Sound(w) /\ Accounted(w) /\ w.agent = agent /\ w.owners = owners
      /\ w.current = current /\ w.fate = fate /\ i \in DOMAIN w.owners /\ o.phase = "ended"
  BY DEF World, Closes, Sound
<1>2. /\ w \in Worlds /\ o \in OwnerStates /\ i # 0
      /\ (i # w.current => o.torndown) /\ (i = w.current => ~o.torndown /\ o = Owner(w))
  BY <1>1, OtherIs
<1>3. Becomes(IF owners[i].torndown \/ current # i THEN [World EXCEPT !.owners[i] = Over(@)]
              ELSE Exit([x EXCEPT !.current = 0, !.owners[i] = Over(@),
                                  !.agent = IF @.epoch = i THEN SessionClosed(@) ELSE @]))
  BY DEF Closes
<1>4. CASE i # w.current
  <2> DEFINE q == Over(o)
  <2>1. [World EXCEPT !.owners[i] = Over(@)] = Replaced(w, i, q)
    BY DEF Replaced, Put
  <2>2. q \in OwnerStates /\ q.phase = "gone" /\ q.torndown /\ (o.discard => q.discard)
    BY <1>2, <1>4, OverIs
  <2> HIDE DEF q, w
  <2>3. Sound(Replaced(w, i, q))
    BY <1>1, <1>4, <2>2, OtherReplaced
  <2> QED BY <1>1, <1>3, <1>4, <2>1, <2>3, BecomesSound
<1> HIDE DEF w
<1>5. CASE i = w.current
  <2>1. /\ Accounted(x) /\ x.current = i /\ x.agent = w.agent
        /\ (\A m \in Messages : x.fate[m] = "held" => m \in Kept(x.agent))
        /\ Owner(x) \in OwnerStates /\ DOMAIN x.owners = DOMAIN w.owners
    <3>1. x = ReportSpawnFailure(w, w.current)
      BY <1>5
    <3> HIDE DEF x, a
    <3> QED BY <1>1, <1>2, <1>5, <3>1, ReportAccounted
  <2>2. x \in Worlds /\ Others(x) /\ Neat(a) /\ Honest(a, x.fate)
    BY <2>1 DEF Accounted
  <2>3. a \in AgentStates /\ x.fate \in [Messages -> Fates] /\ Owner(x) = p
    BY <2>1, <2>2, WorldHas DEF Owner
  <2>4. n \in OwnerStates /\ n.phase = "gone" /\ n.torndown
    BY <2>1, <2>3, OverIs
  <2>5. a.epoch = i
    BY <1>1, <1>2, <1>5, <2>1 DEF Accounted, Placed
  <2>6. [x EXCEPT !.current = 0, !.owners[i] = Over(@),
                  !.agent = IF @.epoch = i THEN SessionClosed(@) ELSE @]
           = Left(x, b, n, x.fate)
    BY <2>1, <2>2, <2>5 DEF Left, Put, Worlds
  <2>7. /\ b \in AgentStates /\ Neat(b) /\ In(b) = In(a) \cup Recoverable(a)
        /\ Admissions(b) = {} /\ Recoverable(b) = {}
    <3> HIDE DEF a
    <3> QED BY <2>2, <2>3, SessionClosedIs
  <2> HIDE DEF x, n, b
  <2>8. Kept(b) = Kept(a)
    BY <2>3, <2>7, AgentHas
  <2>9. Honest(b, x.fate) /\ \A m \in Messages : x.fate[m] = "held" => m \in Kept(b)
    BY <2>1, <2>2, <2>7, <2>8 DEF Honest
  <2>10. Sound(Exit(Left(x, b, n, x.fate)))
    <3>1. x.current \in DOMAIN x.owners
      BY <1>1, <2>1
    <3> QED BY <2>1, <2>2, <2>3, <2>4, <2>7, <2>9, <3>1, LeavesSound
  <2> QED BY <1>1, <1>2, <1>3, <1>5, <2>6, <2>10, BecomesSound
<1> QED BY <1>4, <1>5
-----------------------------------------------------------------------------
(* Stops, timeouts and receipts.                                           *)

\* The current owner changes in a way that concerns no message.
LEMMA OwnerAlike ==
  ASSUME NEW w, Accounted(w), w.current # 0, NEW o, o = Owner(w), NEW n \in OwnerStates,
         n.phase = o.phase \/ (o.phase = "open" /\ n.phase = "crashed"),
         n.first = o.first, n.held = o.held, n.ended = o.ended, ~n.torndown,
         n.reported = o.reported,
         n.established = o.established \/ Waits(w.agent, w.fate) = {},
         o.discard => n.discard, o.superseded => n.superseded,
         n.discard => o.discard \/ n.superseded \/ o.phase # "opening",
         NEW v, v = Replaced(w, w.current, n)
  PROVE  /\ Accounted(v) /\ Owner(v) = n /\ v.current = w.current /\ v.agent = w.agent
         /\ v.fate = w.fate /\ v \in Worlds /\ v.owners = Put(w.owners, w.current, n)
         /\ (Sound(w) /\ n.discard = o.discard) \/ n.phase # "open" => Sound(v)
<1> DEFINE a == w.agent
           f == w.fate
<1>1. /\ w \in Worlds /\ w.current \in DOMAIN w.owners /\ Neat(a) /\ Honest(a, f)
      /\ Vouched(a, w.current, o, f) /\ Placed(a, w.current, o, f) /\ Others(w)
      /\ a \in AgentStates /\ f \in [Messages -> Fates] /\ w.current # 0
  BY WorldHas DEF Accounted
<1>2. v = Altered(w, a, n, f)
  BY <1>1 DEF Replaced, Altered, Worlds
<1>3. Vouched(a, w.current, n, f)
  BY <1>1 DEF Vouched, Waits
<1>4. Placed(a, w.current, n, f)
  BY <1>1 DEF Placed
<1>5. /\ Accounted(v) /\ Owner(v) = n /\ v.current = w.current /\ v.agent = a
      /\ v.fate = f /\ v.owners = Put(w.owners, w.current, n)
      /\ (n.phase = "open" => Agreed(a, n, f)) => Sound(v)
  <2> HIDE DEF a, f
  <2> QED BY <1>1, <1>2, <1>3, <1>4, AlteredIs
<1>6. v \in Worlds
  BY <1>5 DEF Accounted
<1>7. ASSUME Sound(w), n.discard = o.discard, n.phase = "open" PROVE Agreed(a, n, f)
  <2>1. Agreed(a, o, f)
    BY <1>1, <1>7 DEF Sound
  <2> QED BY <1>7, <2>1 DEF Agreed
<1> QED BY <1>5, <1>6, <1>7

\* agent:stop.
LEMMA SoundStop ==
  ASSUME Sound(World), Stop
  PROVE  Sound(World)'
<1> DEFINE w == World
<1>1. Becomes(StopSession(w, w.current)) /\ Accounted(w)
  BY DEF Stop, World, Sound
<1> HIDE DEF w
<1>2. Sound(StopSession(w, w.current))
  BY <1>1, StopSound
<1> QED BY <1>1, <1>2, BecomesSound

\* The backend refuses the turn.
LEMMA SoundTurnRefused ==
  ASSUME Sound(World), NEW i \in DOMAIN owners, TurnRefused(i)
  PROVE  Sound(World)'
<1> DEFINE w == World
           x == IF Listens(w, i) THEN ReportSpawnFailure(w, i) ELSE w
<1>1. /\ Sound(w) /\ Accounted(w) /\ i \in DOMAIN w.owners /\ w.owners[i].phase = "open"
      /\ Becomes(StopSession(x, i))
  BY DEF TurnRefused, World, Sound
<1> HIDE DEF w
<1>2. i = w.current /\ i # 0
  BY <1>1, OpenIs
<1>3. Accounted(x) /\ x.current = i
  <2> DEFINE y == ReportSpawnFailure(w, i)
  <2>1. y = ReportSpawnFailure(w, w.current)
    BY <1>2
  <2> HIDE DEF y
  <2>2. Accounted(y) /\ y.current = i
    BY <1>1, <1>2, <2>1, ReportAccounted
  <2> QED BY <1>1, <1>2, <2>2 DEF y
<1> HIDE DEF x
<1>4. Sound(StopSession(x, i))
  BY <1>3, StopSound
<1> QED BY <1>1, <1>4, BecomesSound

\* The session did not establish itself in time.
LEMMA SoundHandshakeTimeout ==
  ASSUME Sound(World), NEW i \in DOMAIN owners, HandshakeTimeout(i)
  PROVE  Sound(World)'
<1> DEFINE w == World
           x == ReportSpawnFailure(w, i)
           p == x.owners[i]
           n == [p EXCEPT !.receipt = "none"]
           y == Replaced(x, i, n)
<1>1. /\ Sound(w) /\ Accounted(w) /\ i \in DOMAIN w.owners /\ w.owners[i].phase = "open"
  BY DEF HandshakeTimeout, World, Sound
<1>2. Becomes(StopSession(y, i))
  <2>1. y = [x EXCEPT !.owners[i].receipt = "none"]
    BY DEF Replaced, Put
  <2> QED BY <2>1 DEF HandshakeTimeout
<1> HIDE DEF w
<1>3. i = w.current /\ i # 0
  BY <1>1, OpenIs
<1>4. Accounted(x) /\ x.current = i /\ Owner(x) \in OwnerStates
  <2>1. x = ReportSpawnFailure(w, w.current)
    BY <1>3
  <2> HIDE DEF x
  <2> QED BY <1>1, <1>3, <2>1, ReportAccounted
<1>5. p = Owner(x) /\ ~p.torndown
  BY <1>3, <1>4 DEF Owner, Accounted, Placed
<1>6. /\ n \in OwnerStates /\ n.phase = p.phase /\ n.first = p.first /\ n.held = p.held
      /\ n.ended = p.ended /\ ~n.torndown /\ n.reported = p.reported
      /\ n.established = p.established /\ n.discard = p.discard
      /\ n.superseded = p.superseded
  BY <1>4, <1>5 DEF OwnerStates
<1>7. y = Replaced(x, x.current, n)
  BY <1>4
<1> HIDE DEF x, n, p, y
<1>8. Accounted(y) /\ y.current = i
  BY <1>3, <1>4, <1>5, <1>6, <1>7, OwnerAlike
<1>9. Sound(StopSession(y, i))
  BY <1>8, StopSound
<1> QED BY <1>2, <1>9, BecomesSound

\* session_started: the owner is established, or given up.
LEMMA SoundSessionStarts ==
  ASSUME Sound(World), NEW i \in DOMAIN owners, NEW saved \in BOOLEAN, SessionStarts(i, saved)
  PROVE  Sound(World)'
<1> DEFINE w == World
           a == w.agent
           f == w.fate
           o == w.owners[i]
           h == o.held
<1>1. /\ Sound(w) /\ Accounted(w) /\ i \in DOMAIN w.owners /\ o.phase = "open"
      /\ h.turn # "starting"
  BY DEF SessionStarts, World, Sound
<1>2. /\ i = w.current /\ i # 0 /\ o = Owner(w) /\ o \in OwnerStates /\ h \in HeldStates
      /\ ~o.torndown /\ Agreed(a, o, f)
  BY <1>1, OpenIs
<1>3. CASE saved
  <2> DEFINE n == [o EXCEPT !.established = TRUE,
                            !.receipt = IF @ = "timed" THEN "none" ELSE @]
             y == Replaced(w, i, n)
  <2>1. Becomes(y)
    <3>1. y = [World EXCEPT !.owners[i].established = TRUE,
                            !.owners[i].receipt = IF @ = "timed" THEN "none" ELSE @]
      BY DEF Replaced, Put
    <3> QED BY <1>3, <3>1 DEF SessionStarts
  <2> HIDE DEF w
  <2>2. /\ n \in OwnerStates /\ n.phase = o.phase /\ n.first = o.first /\ n.held = o.held
        /\ n.ended = o.ended /\ ~n.torndown /\ n.reported = o.reported
        /\ n.discard = o.discard /\ n.superseded = o.superseded
    BY <1>2 DEF OwnerStates
  <2>3. Waits(w.agent, w.fate) = {}
    <3>1. h.root = None /\ None \notin Messages
      BY <1>1, <1>2, HeldIs DEF Agreed
    <3> QED BY <1>2, <3>1 DEF Agreed, Waits
  <2>4. y = Replaced(w, w.current, n)
    BY <1>2
  <2> HIDE DEF n, y, o
  <2>5. Sound(y)
    BY <1>1, <1>2, <2>2, <2>3, <2>4, OwnerAlike
  <2> QED BY <2>1, <2>5, BecomesSound
<1>4. CASE ~saved
  <2> DEFINE x == ReportSpawnFailure(w, i)
             p == x.owners[i]
             n == [p EXCEPT !.discard = TRUE]
             y == Replaced(x, i, n)
  <2>1. Becomes(StopSession(y, i))
    <3>1. y = [x EXCEPT !.owners[i].discard = TRUE]
      BY DEF Replaced, Put
    <3> QED BY <1>4, <3>1 DEF SessionStarts
  <2> HIDE DEF w
  <2>2. /\ Accounted(x) /\ x.current = i /\ Owner(x) \in OwnerStates
        /\ \E r \in BOOLEAN : Owner(x) = Reporting(Owner(w), r)
    <3>1. x = ReportSpawnFailure(w, w.current)
      BY <1>2
    <3> HIDE DEF x
    <3> QED BY <1>1, <1>2, <3>1, ReportAccounted
  <2>3. p = Owner(x) /\ ~p.torndown
    BY <1>2, <2>2 DEF Owner, Accounted, Placed
  <2>4. p.phase = "open"
    BY <1>1, <1>2, <2>2, <2>3 DEF Reporting, OwnerStates
  <2>5. /\ n \in OwnerStates /\ n.phase = p.phase /\ n.first = p.first /\ n.held = p.held
        /\ n.ended = p.ended /\ ~n.torndown /\ n.reported = p.reported
        /\ n.established = p.established /\ n.discard /\ n.superseded = p.superseded
    BY <2>2, <2>3 DEF OwnerStates
  <2>6. y = Replaced(x, x.current, n)
    BY <2>2
  <2> HIDE DEF x, n, p, y
  <2>7. Accounted(y) /\ y.current = i
    BY <1>2, <2>2, <2>3, <2>4, <2>5, <2>6, OwnerAlike
  <2>8. Sound(StopSession(y, i))
    BY <2>7, StopSound
  <2> QED BY <2>1, <2>8, BecomesSound
<1> QED BY <1>3, <1>4

\* onLaneExit.
LEMMA SoundCrash ==
  ASSUME Sound(World), NEW i \in DOMAIN owners, Crash(i)
  PROVE  Sound(World)'
<1> DEFINE w == World
           o == w.owners[i]
           n == Phased(o, "crashed")
           y == Replaced(w, i, n)
<1>1. /\ Sound(w) /\ Accounted(w) /\ i \in DOMAIN w.owners /\ o.phase = "open"
  BY DEF Crash, World, Sound
<1>2. Becomes(y)
  <2>1. y = [World EXCEPT !.owners[i].phase = "crashed"]
    BY DEF Replaced, Put, Phased
  <2> QED BY <2>1 DEF Crash
<1> HIDE DEF w
<1>3. i = w.current /\ i # 0 /\ o = Owner(w) /\ o \in OwnerStates /\ ~o.torndown
  BY <1>1, OpenIs
<1>4. /\ n \in OwnerStates /\ n.held = o.held /\ n.phase = "crashed" /\ n.ended = o.ended
      /\ n.first = o.first /\ n.established = o.established
      /\ n.reported = o.reported /\ n.superseded = o.superseded
      /\ n.discard = o.discard /\ n.torndown = o.torndown
  BY <1>3, PhasedIs
<1>5. y = Replaced(w, w.current, n)
  BY <1>3
<1> HIDE DEF n, y, o
<1>6. Sound(y)
  BY <1>1, <1>3, <1>4, <1>5, OwnerAlike
<1> QED BY <1>2, <1>6, BecomesSound
-----------------------------------------------------------------------------
(* The tick.                                                               *)

\* The agent is told to stop.
LEMMA StopsAccounted ==
  ASSUME NEW w, Accounted(w), NEW b, b \in {Stalls(w.agent), Stops(w.agent)},
         NEW v, v = [w EXCEPT !.agent = b]
  PROVE  /\ Accounted(v) /\ v.current = w.current /\ Owner(v) = Owner(w)
         /\ v.agent = b /\ v.owners = w.owners
<1> DEFINE a == w.agent
<1>1. w \in Worlds /\ a \in AgentStates /\ Neat(a)
  BY WorldHas DEF Accounted
<1>2. /\ b \in AgentStates /\ b.inbox = a.inbox /\ b.pending = a.pending
      /\ b.epoch = a.epoch /\ b.lease = a.lease /\ b.status = "stopping"
  BY <1>1 DEF Stalls, Stops, AgentStates
<1>3. /\ Neat(b) /\ In(b) = In(a) /\ Admissions(b) = Admissions(a)
      /\ Recoverable(b) = Recoverable(a)
  BY <1>1, <1>2, FlagsChange
<1> QED BY <1>1, <1>2, <1>3, AgentAlike

\* A reset that does not come about.
LEMMA SoundTickResetStuck ==
  ASSUME Sound(World), TickResetStuck
  PROVE  Sound(World)'
<1> DEFINE w == World
           b == Stalls(w.agent)
           v == [w EXCEPT !.agent = b]
<1>1. Accounted(w) /\ w.current = current
  BY DEF World, Sound
<1>2. Becomes(StopSession(v, w.current))
  BY DEF TickResetStuck, World
<1> HIDE DEF w
<1>3. Accounted(v) /\ v.current = w.current
  BY <1>1, StopsAccounted
<1> HIDE DEF v
<1>4. Sound(StopSession(v, w.current))
  BY <1>3, StopSound
<1> QED BY <1>2, <1>4, BecomesSound

\* An agent that has been idle for long.
LEMMA SoundTickIdleStop ==
  ASSUME Sound(World), TickIdleStop
  PROVE  Sound(World)'
<1> DEFINE w == World
           b == Stops(w.agent)
           v == [w EXCEPT !.agent = b]
<1>1. Accounted(w) /\ w.current = current
  BY DEF World, Sound
<1>2. Becomes(StopSession(v, w.current))
  BY DEF TickIdleStop, World
<1> HIDE DEF w
<1>3. Accounted(v) /\ v.current = w.current
  BY <1>1, StopsAccounted
<1> HIDE DEF v
<1>4. Sound(StopSession(v, w.current))
  BY <1>3, StopSound
<1> QED BY <1>2, <1>4, BecomesSound

\* A silent turn: the second time, the events of the session are discarded.
LEMMA SoundTickStalled ==
  ASSUME Sound(World), Good(World), NEW again \in BOOLEAN, TickStalled(again)
  PROVE  Sound(World)'
<1> DEFINE w == World
           b == Stalls(w.agent)
           v == [w EXCEPT !.agent = b]
           c == w.current
           o == Owner(v)
           n == [o EXCEPT !.discard = TRUE]
           y == Replaced(v, c, n)
           x == IF again THEN y ELSE v
<1>1. Accounted(w) /\ c = current /\ w.agent = agent /\ w.owners = owners
  BY DEF World, Sound
<1>2. v.owners = w.owners /\ o = w.owners[c]
  BY DEF World, Owner
<1>3. Becomes(StopSession(x, c))
  <2>1. y = [v EXCEPT !.owners[c].discard = TRUE]
    BY <1>2 DEF Replaced, Put
  <2> HIDE DEF y
  <2>2. v = [World EXCEPT !.agent = Stalls(@)]
    OBVIOUS
  <2> HIDE DEF v, w
  <2> QED BY <1>1, <2>1, <2>2 DEF TickStalled
<1>4. c # 0 /\ w.owners[c].phase # "opening"
  BY <1>1 DEF TickStalled, Stallable, Good
<1> HIDE DEF w
<1>5. Accounted(v) /\ v.current = c
  BY <1>1, StopsAccounted
<1> HIDE DEF v
<1>6. Accounted(y) /\ y.current = c
  <2>1. o \in OwnerStates /\ ~o.torndown
    BY <1>4, <1>5, WorldHas DEF Accounted, Owner, Placed
  <2>2. /\ n \in OwnerStates /\ n.phase = o.phase /\ n.first = o.first /\ n.held = o.held
        /\ n.ended = o.ended /\ ~n.torndown /\ n.reported = o.reported
        /\ n.established = o.established /\ n.discard /\ n.superseded = o.superseded
    BY <2>1 DEF OwnerStates
  <2>3. y = Replaced(v, v.current, n) /\ o.phase # "opening" /\ v.current # 0
    BY <1>2, <1>4, <1>5
  <2>4. o = Owner(v)
    OBVIOUS
  <2> HIDE DEF n, y, o, c
  <2>5. Accounted(y) /\ y.current = v.current
    BY <1>5, <2>2, <2>3, <2>4, OwnerAlike
  <2> QED BY <1>5, <2>5
<1> HIDE DEF y, c
<1>7. Accounted(x) /\ x.current = c
  BY <1>5, <1>6
<1> HIDE DEF x
<1>8. Sound(StopSession(x, c))
  BY <1>7, StopSound
<1> QED BY <1>3, <1>8, BecomesSound

\* Admissions that the session never answered.
LEMMA SoundTickExpires ==
  ASSUME Sound(World), NEW D \in SUBSET Messages, TickExpires(D)
  PROVE  Sound(World)'
<1> DEFINE w == World
           a == w.agent
           f == w.fate
           c == w.current
           o == Owner(w)
           b == Expires(a, D)
           v == [w EXCEPT !.agent = b]
<1>1. Accounted(w) /\ c = current /\ a = agent
  BY DEF World, Sound
<1>2. a.epoch # 0
  BY <1>1 DEF TickExpires, Expirable, NoSession
<1>3. /\ w \in Worlds /\ a \in AgentStates /\ Neat(a) /\ Honest(a, f) /\ Vouched(a, c, o, f)
      /\ Placed(a, c, o, f) /\ Others(w) /\ f \in [Messages -> Fates]
      /\ (c # 0 => c \in DOMAIN w.owners)
  BY <1>1, WorldHas DEF Accounted
<1>4. c = a.epoch /\ c # 0
  BY <1>2, <1>3 DEF Placed
<1>5. Becomes(StopSession(v, c))
  BY <1>1, <1>4 DEF TickExpires, World
<1> HIDE DEF w
<1>6. /\ b \in AgentStates /\ Neat(b) /\ In(b) = In(a) \cup (Recoverable(a) \cap D)
      /\ Admissions(b) = Admissions(a) \ D /\ Recoverable(b) = Recoverable(a) \ D
      /\ b.status = "stopping" /\ b.epoch = a.epoch /\ b.lease = a.lease
  <2> HIDE DEF a
  <2> QED BY <1>3, ExpiresIs
<1> HIDE DEF b
<1>7. Kept(b) = Kept(a)
  <2>1. Kept(a) = In(a) \cup Recoverable(a) /\ Kept(b) = In(b) \cup Recoverable(b)
    BY <1>3, <1>6, AgentHas
  <2> QED BY <1>6, <2>1
<1>8. /\ v \in Worlds /\ v.agent = b /\ v.owners = w.owners /\ v.current = c /\ v.fate = f
  BY <1>3, <1>6 DEF Worlds
<1> HIDE DEF v
<1>9. Owner(v) = o
  BY <1>8 DEF Owner
<1>10. Honest(b, f) /\ Vouched(b, c, o, f)
  BY <1>3, <1>6, <1>7 DEF Honest, Vouched
<1>11. Placed(b, c, o, f)
  <2> HIDE DEF a, o
  <2>1. o.phase # "opening"
    BY <1>3, <1>4 DEF Placed
  <2> QED BY <1>3, <1>4, <1>6, <2>1 DEF Placed
<1>12. Others(v) /\ Stranded(v)
  BY <1>3, <1>6, <1>8 DEF Others, Stranded
<1>13. Accounted(v)
  BY <1>3, <1>6, <1>8, <1>9, <1>10, <1>11, <1>12 DEF Accounted
<1>14. Sound(StopSession(v, c))
  BY <1>8, <1>13, StopSound
<1> QED BY <1>5, <1>14, BecomesSound

\* force_exit: the owner is given up, and the message that only it vouched for.
LEMMA SoundTickStoppingStuck ==
  ASSUME Sound(World), TickStoppingStuck
  PROVE  Sound(World)'
<1> DEFINE w == World
           a == w.agent
           f == w.fate
           c == w.current
           o == w.owners[c]
           lost == IF o.reported THEN {} ELSE {o.first}
           g == Told(w, lost, "abandoned")
           n == [o EXCEPT !.torndown = TRUE,
                          !.phase = IF @ = "open" THEN "stopping" ELSE @]
           v == Left(w, a, n, g)
<1>1. /\ Sound(w) /\ Accounted(w) /\ c = current /\ a = agent /\ w.owners = owners
      /\ w.fate = fate /\ (c # 0 => o.phase # "crashed")
  BY DEF World, Sound, TickStoppingStuck
<1>2. CASE c = 0
  <2>1. Becomes(Exit(w))
    BY <1>1, <1>2 DEF TickStoppingStuck
  <2> HIDE DEF w
  <2>2. Sound(Exit(w))
    BY <1>1, <1>2, ExitAgain
  <2> QED BY <2>1, <2>2, BecomesSound
<1>3. CASE c # 0
  <2>1. Becomes(Exit(v))
    <3>1. v = [World EXCEPT !.current = 0,
                     !.owners[current] =
                        [owners[current] EXCEPT !.torndown = TRUE,
                                  !.phase = IF @ = "open" THEN "stopping" ELSE @],
                     !.fate = Told(World, lost, "abandoned")]
      BY <1>1 DEF Left, Put, World
    <3> HIDE DEF v
    <3> QED BY <1>1, <1>3, <3>1 DEF TickStoppingStuck
  <2> HIDE DEF w
  <2>2. /\ w \in Worlds /\ a \in AgentStates /\ Neat(a) /\ Honest(a, f) /\ Vouched(a, c, o, f)
        /\ Placed(a, c, o, f) /\ Others(w) /\ f \in [Messages -> Fates]
        /\ c \in DOMAIN w.owners /\ o \in OwnerStates
        /\ (o.phase = "open" => Agreed(a, o, f))
    BY <1>1, <1>3, WorldHas DEF Sound, Accounted, Owner
  <2>3. /\ n \in OwnerStates /\ n.torndown /\ n.phase # "open" /\ n.discard = o.discard
    BY <2>2 DEF OwnerStates
  <2>4. \A m \in Messages :
            g[m] = IF m \in lost \ Kept(a) /\ f[m] = "held" THEN "abandoned" ELSE f[m]
    BY DEF Told
  <2>5. g \in [Messages -> Fates]
    <3>1. g = [m \in Messages |-> g[m]]
      BY DEF Told
    <3> HIDE DEF g
    <3> QED BY <2>2, <2>4, <3>1 DEF Fates
  <2> HIDE DEF g, n, v
  <2>6. \A m \in Messages : g[m] = "held" => m \in Kept(a)
    BY <2>2, <2>4 DEF Vouched
  <2>7. Kept(a) \subseteq Messages /\ Admissions(a) \subseteq Messages
        /\ Recoverable(a) \subseteq Admissions(a)
    BY <2>2, AgentHas
  <2>8. Honest(a, g)
    BY <2>2, <2>4, <2>7 DEF Honest
  <2>9. Recoverable(a) = {} \/ n.discard
    <3>1. CASE o.phase = "open"
      <4>1. a.status = "stopping"
        BY <1>1 DEF TickStoppingStuck, StoppingStuck
      <4> QED BY <2>2, <3>1, <4>1 DEF Agreed
    <3>2. CASE o.phase # "open"
      <4>1. ~o.discard => Admissions(a) = {}
        BY <1>1, <1>3, <2>2, <3>2 DEF Placed, OwnerStates
      <4> QED BY <2>3, <2>7, <4>1
    <3> QED BY <3>1, <3>2
  <2>10. Sound(Exit(v))
    <3>1. v = Left(w, a, n, g)
      BY DEF v
    <3> HIDE DEF a
    <3> QED BY <2>2, <2>3, <2>5, <2>6, <2>8, <2>9, <3>1, LeavesSound
  <2> QED BY <2>1, <2>10, BecomesSound
<1> QED BY <1>2, <1>3
-----------------------------------------------------------------------------
(* The receipt of the start and the end of a session.                      *)

\* The receipt of start: what waited in the inbox is sent.
LEMMA SoundStartReceipt ==
  ASSUME Sound(World), NEW i \in DOMAIN owners, StartReceipt(i)
  PROVE  Sound(World)'
<1> DEFINE w == World
           a == w.agent
           o == w.owners[i]
           waits == ~o.established /\ ~o.reported
           r == IF waits THEN "timed" ELSE "none"
           n == [o EXCEPT !.receipt = r]
           s == [o EXCEPT !.receipt = "none"]
           u == Replaced(w, i, n)
           z == Replaced(w, i, s)
           b == Stable(a, "running")
           v == [u EXCEPT !.agent = b]
           d == [v EXCEPT !.agent = Drained(v.agent)]
           x == Send(d, v.agent.inbox)
           runs == /\ current = i /\ ~o.superseded /\ o.phase = "open"
                   /\ agent.status = "starting"
<1>1. /\ Sound(w) /\ Accounted(w) /\ i \in DOMAIN w.owners /\ a = agent
      /\ w.owners = owners /\ w.current = current
  BY DEF World, Sound
<1>2. Becomes(IF runs THEN x ELSE z)
  <2>1. z = [World EXCEPT !.owners[i].receipt = "none"]
    BY DEF Replaced, Put
  <2>2. u = [World EXCEPT !.owners[i].receipt = r]
    BY DEF Replaced, Put
  <2>3. d = [u EXCEPT !.agent = Spawned(@)] /\ v.agent.inbox = agent.inbox
    <3>1. u.agent = a
      BY DEF Replaced, World
    <3>2. v.agent = b
      BY DEF Replaced, World
    <3>3. d = [u EXCEPT !.agent = Drained(b)]
      BY <3>2
    <3>4. b.inbox = agent.inbox
      BY <1>1 DEF Stable
    <3> HIDE DEF u, v, d, b
    <3> QED BY <3>1, <3>2, <3>3, <3>4 DEF Spawned, b
  <2>4. StartReceipt(i)
    OBVIOUS
  <2> HIDE DEF z, u, d, v, w
  <2> QED BY <1>1, <2>1, <2>2, <2>3, <2>4 DEF StartReceipt
<1> HIDE DEF w
<1>3. /\ w \in Worlds /\ o \in OwnerStates /\ i # 0
      /\ (i # w.current => o.torndown /\ o.phase # "open")
      /\ (i = w.current => ~o.torndown /\ o = Owner(w))
  BY <1>1, OtherIs
<1>4. /\ s \in OwnerStates /\ s.phase = o.phase /\ s.first = o.first /\ s.held = o.held
      /\ s.ended = o.ended /\ s.torndown = o.torndown /\ s.reported = o.reported
      /\ s.established = o.established /\ s.discard = o.discard
      /\ s.superseded = o.superseded
  BY <1>3 DEF OwnerStates
<1>5. /\ n \in OwnerStates /\ n.phase = o.phase /\ n.first = o.first /\ n.held = o.held
      /\ n.ended = o.ended /\ n.torndown = o.torndown /\ n.reported = o.reported
      /\ n.established = o.established /\ n.discard = o.discard
      /\ n.superseded = o.superseded
  BY <1>3 DEF OwnerStates
<1> HIDE DEF s, n, o
<1>6. CASE ~runs
  <2>1. CASE i = w.current
    <3>1. z = Replaced(w, w.current, s) /\ w.current # 0
      BY <1>3, <2>1
    <3> HIDE DEF z
    <3>2. Sound(z)
      BY <1>1, <1>3, <1>4, <2>1, <3>1, OwnerAlike
    <3> QED BY <1>2, <1>6, <3>2, BecomesSound
  <2>2. CASE i # w.current
    <3>1. w.owners[i].discard => s.discard
      BY <1>4 DEF o
    <3>2. Sound(z)
      BY <1>1, <1>3, <1>4, <2>2, <3>1, OtherReplaced
    <3> HIDE DEF z
    <3> QED BY <1>2, <1>6, <3>2, BecomesSound
  <2> QED BY <2>1, <2>2
<1>7. CASE runs
  <2>1. i = w.current /\ w.current # 0
    BY <1>1, <1>3, <1>7
  <2>2. u = Replaced(w, w.current, n)
    BY <2>1
  <2>3. v = [u EXCEPT !.agent = b]
    OBVIOUS
  <2> HIDE DEF u, v
  <2>4. Sound(u) /\ u.agent = a /\ Accounted(u)
    <3>1. Sound(u) /\ u.agent = a
      BY <1>1, <1>3, <1>5, <2>1, <2>2, OwnerAlike
    <3> QED BY <3>1 DEF Sound
  <2>5. a \in AgentStates /\ Neat(a)
    BY <1>1, WorldHas DEF Accounted
  <2>6. /\ b \in AgentStates /\ b.inbox = a.inbox /\ b.pending = a.pending
        /\ b.status = "running" /\ b.epoch = a.epoch /\ b.lease = a.lease
    BY <2>5 DEF AgentStates, Stable
  <2> HIDE DEF b, a
  <2>7. /\ Neat(b) /\ In(b) = In(a) /\ Admissions(b) = Admissions(a)
        /\ Recoverable(b) = Recoverable(a)
    BY <2>5, <2>6, FlagsChange
  <2>8. Sound(v)
    BY <2>3, <2>4, <2>6, <2>7, AgentAlike
  <2>9. d = [v EXCEPT !.agent = Drained(v.agent)] /\ x = Send(d, v.agent.inbox)
    OBVIOUS
  <2> HIDE DEF d, x
  <2>10. Sound(x)
    BY <2>8, <2>9, SendSound
  <2> QED BY <1>2, <1>7, <2>10, BecomesSound
<1> QED BY <1>6, <1>7

\* Named, so that the provers need not match the update.
Finished(o) == [o EXCEPT !.phase = "ended", !.held = Empty]

LEMMA FinishedIs ==
  ASSUME NEW o \in OwnerStates, NEW n, n = Finished(o)
  PROVE  /\ n \in OwnerStates /\ n.phase = "ended" /\ n.held = Empty /\ n.ended = o.ended
         /\ n.first = o.first /\ n.established = o.established
         /\ n.reported = o.reported /\ n.superseded = o.superseded
         /\ n.discard = o.discard /\ n.torndown = o.torndown
         /\ IsInjective(n.held.queue)
<1>1. Empty \in HeldStates /\ IsInjective(Empty.queue)
  BY EmptyIs DEF Empty, HeldStates
<1> HIDE DEF Empty
<1> QED BY <1>1 DEF OwnerStates, Finished

FinishedAt(w, i) == [w EXCEPT !.owners[i].phase = "ended", !.owners[i].held = Empty]

\* The two updates of one owner are one.
LEMMA FinishedTwice ==
  ASSUME NEW w \in Worlds, NEW i \in DOMAIN w.owners
  PROVE  FinishedAt(w, i) = Replaced(w, i, Finished(w.owners[i]))
<1> DEFINE s == w.owners
           o == s[i]
           p == [o EXCEPT !.phase = "ended"]
           n == Finished(o)
           t == Put(s, i, p)
           e == Empty
<1>1. s \in Seq(OwnerStates) /\ o \in OwnerStates /\ i \in DOMAIN s
  BY WorldHas
<1>2. p \in OwnerStates /\ n = [p EXCEPT !.held = e]
  BY <1>1 DEF OwnerStates, Finished
<1>3. [w EXCEPT !.owners[i].phase = "ended", !.owners[i].held = e]
         = [w EXCEPT !.owners = [t EXCEPT ![i] = [t[i] EXCEPT !.held = e]]]
  <2> HIDE DEF e
  <2> QED BY DEF Worlds, Put
<1> HIDE DEF p, n, s, o
<1>4. t[i] = p
  BY <1>1, <1>2, OwnersChange
<1>5. [t EXCEPT ![i] = n] = Put(s, i, n)
  BY <1>2, PutAgain DEF Put
<1> HIDE DEF t, e
<1>6. [w EXCEPT !.owners = [t EXCEPT ![i] = [t[i] EXCEPT !.held = e]]] = Replaced(w, i, n)
  BY <1>2, <1>4, <1>5 DEF Replaced, s
<1> QED BY <1>3, <1>6 DEF FinishedAt, n, o, s, e

\* finish: what is still held fails, and the turn ends.
LEMMA SoundFinishes ==
  ASSUME Sound(World), NEW i \in DOMAIN owners, Finishes(i)
  PROVE  Sound(World)'
<1> DEFINE w == World
           a == w.agent
           o == w.owners[i]
           x == FailHeld(w, i)
           n == Finished(o)
           v == [x EXCEPT !.owners[i].phase = "ended", !.owners[i].held = Empty]
           y == Complete(v, i)
           works == o.held.turn = "working"
<1>1. /\ Sound(w) /\ Accounted(w) /\ i \in DOMAIN w.owners /\ a = agent
      /\ w.owners = owners /\ w.current = current /\ o.phase \in {"stopping", "crashed"}
  BY DEF World, Sound, Finishes
<1>2. Becomes(IF works THEN y ELSE v)
  BY DEF Finishes, World
<1> HIDE DEF w
<1>3. /\ w \in Worlds /\ o \in OwnerStates /\ i # 0
      /\ (i # w.current => o.torndown /\ o.phase # "open")
      /\ (i = w.current => ~o.torndown /\ o = Owner(w))
  BY <1>1, OtherIs
<1>4. /\ n \in OwnerStates /\ n.phase = "ended" /\ n.ended = o.ended
      /\ n.first = o.first /\ n.established = o.established
      /\ n.reported = o.reported /\ n.superseded = o.superseded
      /\ n.discard = o.discard /\ n.torndown = o.torndown
      /\ IsInjective(n.held.queue)
  BY <1>3, FinishedIs
<1>5. CASE i # w.current
  <2> DEFINE h == o.held
             k == [h EXCEPT !.root = None, !.queue = <<>>, !.steering = {},
                            !.turn = IF @ = "starting" THEN "none" ELSE @]
             u == [w EXCEPT !.owners[i].held = k]
  <2>1. \A p : p.owners = u.owners => ~Listens(p, i)
    <3>1. u.owners[i].torndown
      BY <1>1, <1>3, <1>5 DEF Worlds, OwnerStates
    <3> HIDE DEF u
    <3> QED BY <3>1 DEF Listens
  <2>2. x = u
    <3>1. ~Listens(u, i)
      BY <2>1
    <3> QED BY <3>1 DEF FailHeld, TurnsFail, InputsFail
  <2>3. v = Replaced(w, i, n)
    <3>1. v = [u EXCEPT !.owners[i].phase = "ended", !.owners[i].held = Empty]
      BY <2>2
    <3>2. [u EXCEPT !.owners[i].phase = "ended", !.owners[i].held = Empty] = Replaced(w, i, n)
      <4> DEFINE t == w.owners
                 p == Holding(o, k)
                 z == Put(t, i, p)
      <4>1. t \in Seq(OwnerStates) /\ i \in DOMAIN t /\ h \in HeldStates
        BY <1>1, <1>3, WorldHas DEF OwnerStates
      <4>2. k \in HeldStates
        BY <4>1, EmptyIs DEF HeldStates, Empty
      <4> HIDE DEF k
      <4>3. p \in OwnerStates
        BY <1>3, <4>2, HoldingIs
      <4>4. Finished(p) = n
        BY <1>3 DEF Finished, Holding, OwnerStates
      <4>5. u = [w EXCEPT !.owners = z]
        BY DEF Put, Holding
      <4> HIDE DEF p, n, u, t, z, o
      <4>6. z \in Seq(OwnerStates) /\ i \in DOMAIN z /\ z[i] = p
        BY <4>1, <4>3, OwnersChange DEF z
      <4>7. u \in Worlds /\ u.owners = z
        BY <1>3, <4>5, <4>6 DEF Worlds
      <4>8. FinishedAt(u, i) = Replaced(u, i, n)
        BY <4>4, <4>6, <4>7, FinishedTwice
      <4>9. Put(z, i, n) = Put(t, i, n)
        BY PutAgain DEF z
      <4>10. Replaced(u, i, n) = Replaced(w, i, n)
        BY <1>3, <4>5, <4>7, <4>9 DEF Replaced, Worlds, t
      <4> QED BY <4>8, <4>10 DEF FinishedAt
    <3> QED BY <3>1, <3>2
  <2>4. Sound(Replaced(w, i, n))
    <3>1. w.owners[i].discard => n.discard
      BY <1>4
    <3> HIDE DEF n
    <3> QED BY <1>1, <1>3, <1>4, <1>5, <3>1, OtherReplaced
  <2>5. y = v
    <3>1. Replaced(w, i, n).owners[i] = n
      <4> DEFINE t == w.owners
      <4>1. t \in Seq(OwnerStates) /\ i \in DOMAIN t
        BY <1>1, <1>3, WorldHas
      <4> HIDE DEF t, n
      <4>2. Put(t, i, n)[i] = n
        BY <1>4, <4>1, OwnersChange
      <4> QED BY <1>3, <4>2 DEF Replaced, Worlds, t
    <3> HIDE DEF v, n
    <3>2. ~Listens(v, i)
      BY <1>3, <1>4, <1>5, <2>3, <3>1 DEF Listens
    <3> QED BY <3>2 DEF Complete
  <2> HIDE DEF v, y
  <2> QED BY <1>2, <2>3, <2>4, <2>5, BecomesSound
<1>6. CASE i = w.current
  <2>1. /\ a \in AgentStates /\ Neat(a) /\ Honest(a, w.fate) /\ Vouched(a, i, o, w.fate)
        /\ Placed(a, i, o, w.fate) /\ Others(w) /\ ~o.torndown
        /\ a.epoch = i /\ IsInjective(o.held.queue)
    <3>1. /\ a \in AgentStates /\ Neat(a) /\ Honest(a, w.fate) /\ Vouched(a, i, o, w.fate)
          /\ Placed(a, i, o, w.fate) /\ Others(w) /\ ~o.torndown
      BY <1>1, <1>3, <1>6, WorldHas DEF Accounted
    <3> QED BY <1>1, <1>3, <3>1 DEF Placed
  <2>2. x = FailHeld(w, w.current)
    BY <1>6
  <2> HIDE DEF x, o
  <2>3. \E h \in HeldStates :
            /\ Spent(h)
            /\ x \in Worlds /\ x.current = w.current
            /\ x.owners = Put(w.owners, w.current, Holding(Owner(w), h))
            /\ Neat(x.agent) /\ Honest(x.agent, x.fate)
            /\ Vouched(x.agent, w.current, Owner(w), x.fate)
            /\ x.agent.status = w.agent.status /\ x.agent.epoch = w.agent.epoch
            /\ x.agent.lease = w.agent.lease /\ x.agent.resetting = w.agent.resetting
            /\ ~Owner(w).discard =>
                   Admissions(x.agent) = Admissions(w.agent) \ Held(Owner(w).held)
            /\ Owner(w).discard => x.agent = w.agent /\ x.fate = w.fate
    <3>1. /\ ~Owner(w).torndown /\ w.agent.epoch = w.current
          /\ IsInjective(Owner(w).held.queue) /\ Neat(w.agent) /\ Honest(w.agent, w.fate)
          /\ Vouched(w.agent, w.current, Owner(w), w.fate) /\ w.current \in DOMAIN w.owners
      BY <1>1, <1>3, <1>6, <2>1
    <3> QED BY <1>3, <2>2, <3>1, FailHeldIs
  <2> DEFINE b == x.agent
             g == x.fate
  <2>4. PICK h \in HeldStates :
            /\ x \in Worlds /\ x.current = i /\ x.owners = Put(w.owners, i, Holding(o, h))
            /\ Neat(b) /\ Honest(b, g) /\ Vouched(b, i, o, g)
            /\ b.epoch = i /\ b.lease = a.lease
            /\ ~o.discard => Admissions(b) = Admissions(a) \ Held(o.held)
            /\ o.discard => b = a
    BY <1>3, <1>6, <2>1, <2>3
  <2>5. v = Altered(w, b, n, g)
    <3> DEFINE m == Holding(o, h)
    <3>1. v = [x EXCEPT !.owners = Put(x.owners, i, Finished(m))]
      <4>1. x.owners[i] = m
        <5> DEFINE t == w.owners
        <5>1. t \in Seq(OwnerStates) /\ i \in DOMAIN t /\ m \in OwnerStates
          BY <1>1, <1>3, <2>4, WorldHas, HoldingIs
        <5> HIDE DEF t, m
        <5>2. Put(t, i, m)[i] = m
          BY <5>1, OwnersChange
        <5> QED BY <2>4, <5>2 DEF t, m
      <4>2. v = [x EXCEPT !.owners = Put(x.owners, i, Finished(x.owners[i]))]
        <5> DEFINE t == w.owners
        <5>1. x \in Worlds /\ i \in DOMAIN x.owners
          <6>1. t \in Seq(OwnerStates) /\ i \in DOMAIN t /\ m \in OwnerStates
            BY <1>1, <1>3, <2>4, WorldHas, HoldingIs
          <6> HIDE DEF t, m
          <6>2. i \in DOMAIN Put(t, i, m)
            BY <6>1, OwnersChange
          <6> QED BY <2>4, <6>2 DEF t, m
        <5> HIDE DEF m
        <5>2. FinishedAt(x, i) = Replaced(x, i, Finished(x.owners[i]))
          BY <5>1, FinishedTwice
        <5> QED BY <5>2 DEF FinishedAt, Replaced
      <4> QED BY <4>1, <4>2
    <3>2. Finished(m) = n
      BY <1>3 DEF Finished, Holding, OwnerStates
    <3>3. Put(x.owners, i, n) = Put(w.owners, i, n)
      <4> HIDE DEF n
      <4>1. x.owners = Put(w.owners, i, m)
        BY <2>4
      <4> HIDE DEF m
      <4> QED BY <4>1, PutAgain
    <3> HIDE DEF v, n, m
    <3>4. v = [x EXCEPT !.owners = Put(w.owners, i, n)]
      BY <3>1, <3>2, <3>3
    <3> QED BY <1>3, <1>6, <2>4, <3>4 DEF Altered, Worlds
  <2>6. b \in AgentStates /\ g \in [Messages -> Fates]
    BY <2>4, WorldHas
  <2>7. ~o.discard => Admissions(b) = {}
    <3>1. ~o.discard => Admissions(a) \subseteq Held(o.held)
      BY <1>1, <1>3, <2>1 DEF Placed, o
    <3> QED BY <2>4, <3>1
  <2> HIDE DEF n
  <2>8. ASSUME NEW c \in AgentStates, Neat(c), In(c) = In(b), Admissions(c) = Admissions(b),
               Recoverable(c) = Recoverable(b), c.epoch = i, c.lease # "detached"
        PROVE  Sound(Altered(w, c, n, g))
    <3>1. Kept(c) = Kept(b)
      BY <2>6, <2>8, AgentHas
    <3>2. Honest(c, g) /\ Vouched(c, i, n, g)
      BY <1>4, <2>4, <2>8, <3>1 DEF Honest, Vouched
    <3>3. Placed(c, i, n, g)
      BY <1>3, <1>4, <2>1, <2>7, <2>8 DEF Placed
    <3>4. w.current \in DOMAIN w.owners /\ i = w.current /\ n.phase # "open"
      BY <1>1, <1>4, <1>6
    <3> HIDE DEF g
    <3> QED BY <1>3, <1>4, <2>1, <2>6, <2>8, <3>2, <3>3, <3>4, AlteredIs
  <2>9. Sound(v)
    <3>1. b.lease # "detached"
      BY <1>3, <2>1, <2>4 DEF Placed
    <3> HIDE DEF b, g, v
    <3> QED BY <2>4, <2>5, <2>6, <2>8, <3>1
  <2>10. v.agent = b /\ v \in Worlds /\ Neat(v.agent)
    <3>1. v.agent = b
      BY <1>3, <2>5 DEF Altered, Worlds
    <3> HIDE DEF v
    <3> QED BY <2>4, <2>9, <3>1 DEF Sound, Accounted
  <2> DEFINE e == Ended(b)
             z == [v EXCEPT !.agent = Ended(v.agent)]
  <2>11. /\ e \in AgentStates /\ e.inbox = b.inbox /\ e.pending = b.pending
         /\ e.epoch = i /\ e.lease = "terminal"
    BY <2>4, <2>6 DEF Ended, AgentStates
  <2>12. z = Altered(w, e, n, g)
    <3>1. z = [v EXCEPT !.agent = e]
      BY <2>10
    <3> HIDE DEF v, z, e, b, g
    <3> QED BY <1>3, <2>5, <3>1 DEF Altered, Worlds
  <2> HIDE DEF e, b, g, v
  <2>13. /\ Neat(e) /\ In(e) = In(b) /\ Admissions(e) = Admissions(b)
         /\ Recoverable(e) = Recoverable(b)
    BY <2>4, <2>6, <2>11, FlagsChange
  <2>14. Sound(z)
    BY <2>8, <2>11, <2>12, <2>13
  <2>15. z = [v EXCEPT !.agent = Ended(v.agent)]
    OBVIOUS
  <2> HIDE DEF z
  <2>16. Sound(y)
    BY <2>9, <2>10, <2>14, <2>15, CompleteSound
  <2> QED BY <1>2, <2>9, <2>16, BecomesSound
<1> QED BY <1>5, <1>6
-----------------------------------------------------------------------------
(* Commands of the server, and the initial state.                          *)

\* agent:wake.
LEMMA SoundWake ==
  ASSUME Sound(World), Good(World), NEW m \in Messages, Wake(m)
  PROVE  Sound(World)'
<1> DEFINE w == World
           x == Deliver(w, m)
<1>1. /\ Sound(w) /\ w.fate[m] = "new" /\ Becomes(x)
      /\ w.agent.status = "idle" => w.current = 0
  BY DEF Wake, IsNext, World, Good
<1> HIDE DEF w
<1>2. x = Deliver(w, m)
  OBVIOUS
<1> HIDE DEF x
<1>3. Sound(x)
  BY <1>1, <1>2, DeliverSound
<1> QED BY <1>1, <1>3, BecomesSound

\* The owner is superseded, and perhaps its events are discarded.
LEMMA SupersedeIs ==
  ASSUME NEW w, Accounted(w), NEW discards \in BOOLEAN, NEW v, v = Supersede(w, discards)
  PROVE  /\ Accounted(v) /\ v.current = w.current /\ v.fate = w.fate
         /\ v.agent.status = w.agent.status
         /\ Sound(w) /\ w.current = 0 => Sound(v)
<1> DEFINE a == w.agent
           b == BeginReset(IF discards THEN ResetSession(a) ELSE a)
           u == [w EXCEPT !.agent = b]
           c == w.current
           o == Owner(w)
           n == [o EXCEPT !.superseded = TRUE, !.discard = @ \/ discards]
           y == Replaced(u, u.current, n)
<1>1. w \in Worlds /\ a \in AgentStates /\ Neat(a)
  BY WorldHas DEF Accounted
<1>2. /\ b \in AgentStates /\ b.inbox = a.inbox /\ b.pending = a.pending
      /\ b.epoch = a.epoch /\ b.lease = a.lease /\ b.status = a.status
  BY <1>1 DEF BeginReset, ResetSession, AgentStates
<1>3. v = IF c = 0 THEN u ELSE y
  <2> DEFINE V == [w EXCEPT !.agent = BeginReset(IF discards THEN ResetSession(@) ELSE @)]
             Y == [V EXCEPT !.owners[c].superseded = TRUE,
                            !.owners[c].discard = @ \/ discards]
  <2>1. V = u
    OBVIOUS
  <2>2. u.owners = w.owners /\ u.current = c
    BY <1>1 DEF Worlds
  <2>3. v = IF c = 0 THEN V ELSE Y
    BY DEF Supersede
  <2> HIDE DEF V
  <2>4. ASSUME c # 0 PROVE Y = y
    <3> DEFINE s == u.owners
    <3>1. Y = [u EXCEPT !.owners[c].superseded = TRUE, !.owners[c].discard = @ \/ discards]
      BY <2>1
    <3>2. c \in DOMAIN s /\ o = s[c] /\ o \in OwnerStates /\ u \in Worlds
      BY <1>1, <1>2, <2>2, <2>4, WorldHas DEF Accounted, Owner, Worlds
    <3> HIDE DEF u, o, b
    <3>3. y = [u EXCEPT !.owners = [s EXCEPT ![c] = n]]
      BY <2>2 DEF Replaced, Put
    <3>4. Y = [u EXCEPT !.owners = [s EXCEPT ![c] = n]]
      <4> DEFINE p == [o EXCEPT !.superseded = TRUE]
                 t == Put(s, c, p)
                 k == o.discard \/ discards
      <4>1. p \in OwnerStates /\ n = [p EXCEPT !.discard = k]
        BY <3>2 DEF OwnerStates
      <4>2. Y = [u EXCEPT !.owners = [t EXCEPT ![c] = [t[c] EXCEPT !.discard = k]]]
        <5>1. (u.owners[c].discard \/ discards) = k
          BY <3>2
        <5>2. Y = [u EXCEPT !.owners[c].superseded = TRUE,
                            !.owners[c].discard = u.owners[c].discard \/ discards]
          BY <3>1
        <5>3. Y = [u EXCEPT !.owners[c].superseded = TRUE, !.owners[c].discard = k]
          BY <5>1, <5>2
        <5> HIDE DEF k, Y
        <5>4. s[c] \in OwnerStates /\ s = u.owners
          BY <3>2
        <5> QED BY <3>2, <5>3, <5>4 DEF Worlds, Put, p
      <4> HIDE DEF p, n, s, k
      <4>3. s \in Seq(OwnerStates)
        BY <3>2, WorldHas DEF s
      <4>4. t[c] = p
        BY <3>2, <4>1, <4>3, OwnersChange
      <4>5. [t EXCEPT ![c] = n] = [s EXCEPT ![c] = n]
        BY PutAgain DEF Put
      <4> HIDE DEF t
      <4> QED BY <4>1, <4>2, <4>4, <4>5
    <3> QED BY <3>3, <3>4
  <2> HIDE DEF Y, y, u
  <2> QED BY <2>1, <2>3, <2>4
<1> HIDE DEF b, u
<1>4. /\ Neat(b) /\ In(b) = In(a) /\ Admissions(b) = Admissions(a)
      /\ Recoverable(b) = Recoverable(a)
  BY <1>1, <1>2, FlagsChange
<1>5. /\ Accounted(u) /\ u.agent = b /\ u.current = c /\ Owner(u) = o /\ u.fate = w.fate
      /\ Sound(w) => Sound(u)
  <2>1. u = [w EXCEPT !.agent = b]
    BY DEF u
  <2> QED BY <1>1, <1>2, <1>4, <2>1, AgentAlike
<1>6. ASSUME c # 0
      PROVE  Accounted(y) /\ y.current = c /\ y.fate = w.fate /\ y.agent = b
  <2>1. o \in OwnerStates /\ ~o.torndown
    BY <1>1, <1>6, WorldHas DEF Accounted, Owner, Placed
  <2>2. /\ n \in OwnerStates /\ n.phase = o.phase /\ n.first = o.first /\ n.held = o.held
        /\ n.ended = o.ended /\ ~n.torndown /\ n.reported = o.reported
        /\ n.established = o.established /\ n.superseded /\ (o.discard => n.discard)
    BY <2>1 DEF OwnerStates
  <2>3. y = Replaced(u, u.current, n) /\ u.current # 0
    BY <1>5, <1>6
  <2> HIDE DEF n, y, o, c
  <2>4. o = Owner(u)
    BY <1>5
  <2>5. Accounted(y) /\ y.current = u.current /\ y.fate = u.fate /\ y.agent = u.agent
    BY <1>5, <2>2, <2>3, <2>4, OwnerAlike
  <2> QED BY <1>5, <2>5 DEF c
<1> HIDE DEF y, o
<1> QED BY <1>2, <1>3, <1>5, <1>6

\* reset, nap and model switch.
LEMMA SoundRestart ==
  ASSUME Sound(World), Good(World), NEW discards \in BOOLEAN, NEW m \in Messages \cup {None},
         Restart(discards, m)
  PROVE  Sound(World)'
<1> DEFINE w == World
           v == Supersede(w, discards)
           d == Deliver(v, m)
           r == Woken(v, m)
           x == IF m = None THEN v ELSE r
<1>1. /\ Sound(w) /\ Accounted(w) /\ w.agent = agent /\ w.current = current
      /\ (w.agent.status = "idle" => w.current = 0)
      /\ (m # None => w.fate[m] = "new")
  BY DEF Restart, IsNext, World, Good, Sound
<1>2. Becomes(IF w.agent.status = "idle"
              THEN IF m = None THEN Exit(v) ELSE IF healthy THEN d ELSE Exit(d)
              ELSE StopSession(x, w.current))
  <2>1. r = [v EXCEPT !.agent = Rewake(@, m), !.fate[m] = "held"]
    BY DEF Woken, Rewake, Wakes
  <2>2. v = Supersede(World, discards)
    OBVIOUS
  <2> HIDE DEF r, v, w
  <2>3. Becomes(IF agent.status = "idle"
                THEN IF m = None THEN Exit(v)
                     ELSE IF healthy THEN Deliver(v, m) ELSE Exit(Deliver(v, m))
                ELSE StopSession(IF m = None THEN v
                                 ELSE [v EXCEPT !.agent = Rewake(@, m), !.fate[m] = "held"], current))
    BY <2>2 DEF Restart
  <2>4. Becomes(IF agent.status = "idle"
                THEN IF m = None THEN Exit(v)
                     ELSE IF healthy THEN Deliver(v, m) ELSE Exit(Deliver(v, m))
                ELSE StopSession(IF m = None THEN v ELSE r, current))
    BY <2>1, <2>3
  <2> QED BY <1>1, <2>4
<1> HIDE DEF w
<1>3. v = Supersede(w, discards)
  OBVIOUS
<1> HIDE DEF v
<1>4. /\ Accounted(v) /\ v.current = w.current /\ v.fate = w.fate
      /\ v.agent.status = w.agent.status /\ (w.current = 0 => Sound(v))
  BY <1>1, <1>3, SupersedeIs
<1>5. m # None => m \in Messages
  OBVIOUS
<1>6. CASE w.agent.status = "idle" /\ m = None
  <2>1. Sound(Exit(v))
    BY <1>1, <1>4, <1>6, ExitAgain
  <2> QED BY <1>2, <1>6, <2>1, BecomesSound
<1>7. CASE w.agent.status = "idle" /\ m # None
  <2>1. d = Deliver(v, m) /\ Sound(v) /\ v.fate[m] = "new" /\ v.current = 0
    BY <1>1, <1>4, <1>7
  <2> HIDE DEF d
  <2>2. Sound(d) /\ (~healthy => d.current = 0)
    BY <1>4, <1>5, <1>7, <2>1, DeliverSound
  <2>3. ~healthy => Sound(Exit(d))
    BY <2>2, ExitAgain
  <2> QED BY <1>2, <1>7, <2>2, <2>3, BecomesSound
<1>8. CASE w.agent.status # "idle"
  <2>1. m # None => Accounted(r) /\ r.current = v.current
    <3>1. r = Woken(v, m)
      OBVIOUS
    <3> HIDE DEF r
    <3> QED BY <1>1, <1>4, <1>5, <1>8, <3>1, WakeSound
  <2> HIDE DEF r
  <2>2. Accounted(x) /\ x.current = w.current
    BY <1>4, <2>1
  <2> HIDE DEF x
  <2>3. Sound(StopSession(x, w.current))
    BY <2>2, StopSound
  <2> QED BY <1>2, <1>8, <2>3, BecomesSound
<1> QED BY <1>6, <1>7, <1>8

\* A step that leaves the world as it is.
LEMMA SoundUnchanged ==
  ASSUME Sound(World), UNCHANGED <<agent, owners, current, fate>>
  PROVE  Sound(World)'
<1>1. Becomes(World)
  BY DEF Becomes, World
<1> QED BY <1>1, BecomesSound

\* The initial state.
LEMMA SoundInit ==
  ASSUME Init
  PROVE  Sound(World)
<1> DEFINE w == World
           a == w.agent
           e == <<>>
<1>1. /\ w.agent = Fresh /\ w.owners = e /\ w.current = 0 /\ w = World
      /\ w.fate = [m \in Messages |-> "new"]
  BY DEF Init, World
<1>2. /\ a.status = "idle" /\ a.inbox = e /\ a.pending = e /\ a.epoch = 0
      /\ a.lease = "detached" /\ a.idle = FALSE /\ a.resetting = FALSE
  BY <1>1 DEF Fresh, NoSession
<1>3. e \in Seq(Messages) /\ e \in Seq(Entries) /\ e \in Seq(OwnerStates) /\ DOMAIN e = {}
  OBVIOUS
<1>4. a \in AgentStates
  BY <1>1, <1>3 DEF Fresh, NoSession, AgentStates
<1>5. In(a) = {} /\ Admissions(a) = {} /\ Recoverable(a) = {} /\ Kept(a) = {} /\ Neat(a)
  <2>1. ToSet(e) = {} /\ IsInjective(e)
    BY EmptyIs
  <2> HIDE DEF e, a
  <2> QED BY <1>2, <1>3, <2>1 DEF In, Admissions, Recoverable, Kept, Neat
<1>6. w \in Worlds /\ \A m \in Messages : w.fate[m] = "new"
  <2>1. w.fate \in [Messages -> Fates]
    BY <1>1 DEF Fates
  <2> HIDE DEF e
  <2>2. w = [agent |-> w.agent, owners |-> w.owners, current |-> w.current, fate |-> w.fate]
    BY DEF World
  <2> HIDE DEF w
  <2>3. w.owners \in Seq(OwnerStates) /\ w.current \in Nat
    BY <1>1, <1>3
  <2>4. w \in Worlds
    BY <1>4, <2>1, <2>2, <2>3 DEF Worlds
  <2>5. \A m \in Messages : w.fate[m] = "new"
    BY <1>1
  <2> QED BY <2>4, <2>5
<1> HIDE DEF w, e
<1>7. Honest(a, w.fate) /\ Vouched(a, 0, Owner(w), w.fate) /\ Placed(a, 0, Owner(w), w.fate)
  BY <1>2, <1>5, <1>6 DEF Honest, Vouched, Placed
<1>8. Others(w) /\ Stranded(w)
  BY <1>1, <1>3, <1>5 DEF Others, Stranded
<1> QED BY <1>1, <1>5, <1>6, <1>7, <1>8 DEF Sound, Accounted, w
-----------------------------------------------------------------------------
(* The theorems.                                                           *)

\* No step leaves the invariant.  (It needs Good: an idle agent has no owner.)
LEMMA SoundNext ==
  ASSUME Sound(World), Good(World), [Next]_vars
  PROVE  Sound(World)'
<1>1. CASE UNCHANGED vars
  <2>1. UNCHANGED <<agent, owners, current, fate>>
    BY <1>1 DEF vars
  <2> QED BY <2>1, SoundUnchanged
<1>2. CASE Commands
  <2>1. ASSUME HealthChanges PROVE Sound(World)'
    <3>1. UNCHANGED <<agent, owners, current, fate>>
      BY <2>1 DEF HealthChanges
    <3> QED BY <3>1, SoundUnchanged
  <2> QED BY <1>2, <2>1, SoundWake, SoundStop, SoundRestart DEF Commands
<1>3. CASE \E i \in DOMAIN owners : Session(i)
  <2> PICK i \in DOMAIN owners : Session(i)
    BY <1>3
  <2> QED BY SoundFactoryOpens, SoundFactoryFails, SoundTurnStarts, SoundTurnRefused,
             SoundStartReceipt, SoundSessionStarts, SoundHandshakeTimeout,
             SoundBoundaryOffer, SoundNextQueued, SoundTurnTakes, SoundInputRefused,
             SoundTurnBusy, SoundCommandReturned, SoundTurnCompletes,
             SoundWorkAfterTerminal, SoundCrash, SoundFinishes, SoundCloses
          DEF Session
<1>4. CASE Tick
  BY <1>4, SoundTickStalled, SoundTickExpires, SoundTickResetStuck,
     SoundTickStoppingStuck, SoundTickIdleStop DEF Tick
<1> QED BY <1>1, <1>2, <1>3, <1>4 DEF Next

\* Who has every message, and what the manager knows of it, in every reachable state.
THEOREM Soundness ==
    Spec => [](Good(World) /\ Sound(World))
<1>1. Good(World) /\ Sound(World) /\ [Next]_vars => Sound(World)'
  BY SoundNext
<1>2. Init => Sound(World)
  BY SoundInit
<1> QED BY <1>1, <1>2, Invariance, PTL DEF Spec

\* Only messages are returned.
LEMMA ReturnedMessages ==
    Spec => [](returned \subseteq Messages)
<1>1. Init => returned \subseteq Messages
  BY DEF Init
<1>2. returned \subseteq Messages /\ [Next]_vars => (returned \subseteq Messages)'
  <2> SUFFICES ASSUME returned \subseteq Messages, [Next]_vars
               PROVE  (returned \subseteq Messages)'
    OBVIOUS
  <2>1. CASE UNCHANGED vars
    BY <2>1 DEF vars
  <2>2. CASE Commands
    BY <2>2 DEF Commands, Wake, Stop, Restart, HealthChanges
  <2>3. ASSUME NEW i \in DOMAIN owners, Session(i) PROVE (returned \subseteq Messages)'
    <3>1. CASE \E m \in Messages, retryable \in BOOLEAN : CommandReturned(i, m, retryable)
      BY <3>1 DEF CommandReturned
    <3>2. CASE ~\E m \in Messages, retryable \in BOOLEAN : CommandReturned(i, m, retryable)
      BY <2>3, <3>2
         DEF Session, Quietly, FactoryOpens, FactoryFails, TurnStarts, TurnRefused,
             StartReceipt, SessionStarts, HandshakeTimeout, BoundaryOffer, NextQueued,
             TurnTakes, InputRefused, TurnBusy, TurnCompletes, WorkAfterTerminal, Crash,
             Finishes, Closes
    <3> QED BY <3>1, <3>2
  <2>4. CASE Tick
    BY <2>4 DEF Tick, Quietly, TickStalled, TickExpires, TickResetStuck,
                TickStoppingStuck, TickIdleStop
  <2> QED BY <2>1, <2>2, <2>3, <2>4 DEF Next
<1> QED BY <1>1, <1>2, PTL DEF Spec

\* No more is admitted than there are messages.
LEMMA PendingBounded ==
  ASSUME NEW a \in AgentStates, Neat(a)
  PROVE  Len(a.pending) <= NumMessages
<1> DEFINE p == a.pending
           f == [i \in 1..Len(p) |-> p[i].msg]
<1>1. /\ p \in Seq(Entries) /\ Len(p) \in Nat /\ DOMAIN p = 1..Len(p) /\ NumMessages \in Nat
      /\ \A i \in 1..Len(p) : p[i].msg \in Messages
  BY AgentHas, LenProperties, BoundsAssumption DEF Entries
<1>2. f \in [1..Len(p) -> Messages]
  BY <1>1
<1>3. \A i, j \in 1..Len(p) : f[i] = f[j] => i = j
  BY <1>1 DEF Neat
<1>4. /\ IsFiniteSet(1..Len(p)) /\ Cardinality(1..Len(p)) = Len(p)
      /\ IsFiniteSet(Messages) /\ Cardinality(Messages) = NumMessages
  <2>1. \A n \in Nat : IsFiniteSet(1..n) /\ Cardinality(1..n) = n
    BY FS_Interval
  <2> QED BY <1>1, <2>1 DEF Messages
<1> HIDE DEF f, p
<1>5. ~(Cardinality(Messages) < Cardinality(1..Len(p)))
  BY <1>2, <1>3, <1>4, FS_PigeonHole
<1> QED BY <1>1, <1>4, <1>5 DEF p

\* The types of the manager's state: the reducer's fields, the owners and their
\* phases, the fates; an agent is detached just when it has no epoch.
THEOREM TypeCorrect ==
    Spec => []TypeOK
<1>1. Sound(World) /\ returned \subseteq Messages => TypeOK
  <2> SUFFICES ASSUME Sound(World), returned \subseteq Messages PROVE TypeOK
    OBVIOUS
  <2> DEFINE w == World
  <2>1. /\ w \in Worlds /\ w.agent = agent /\ w.owners = owners /\ w.current = current
        /\ w.fate = fate /\ Accounted(w)
    BY DEF Sound, Accounted, World
  <2> HIDE DEF w
  <2>2. /\ agent \in AgentStates /\ owners \in Seq(OwnerStates) /\ Len(owners) \in Nat
        /\ fate \in [Messages -> Fates] /\ DOMAIN owners = 1..Len(owners)
        /\ \A i \in DOMAIN owners : owners[i] \in OwnerStates
    BY <2>1, WorldHas
  <2>3. /\ current # 0 => current \in DOMAIN owners
        /\ agent.epoch \in {0, current} /\ (agent.lease = "detached" <=> agent.epoch = 0)
        /\ Neat(agent)
    BY <2>1 DEF Accounted, Placed
  <2>4. agent.epoch \in 0..Len(owners) /\ current \in 0..Len(owners)
    BY <2>2, <2>3
  <2>5. agent.lease = "detached" <=> agent.epoch = NoSession
    BY <2>3 DEF NoSession
  <2>6. Len(agent.pending) <= NumMessages
    BY <2>2, <2>3, PendingBounded
  <2>7. IsInjective(agent.inbox) /\ ToSet(agent.inbox) \cup Admissions(agent) \subseteq Messages
    BY <2>2, <2>3, AgentHas DEF Neat, In
  <2>8. /\ agent.status \in {"idle", "starting", "running", "stopping"}
        /\ agent.lease \in {"detached", "none", "terminal", "active", "suspect"}
    BY <2>2 DEF AgentStates
  <2>9. ASSUME NEW i \in DOMAIN owners
        PROVE  /\ owners[i].phase \in
                     {"opening", "open", "stopping", "crashed", "ended", "gone"}
               /\ owners[i].first \in Messages
    BY <2>2 DEF OwnerStates
  <2> QED BY <2>2, <2>4, <2>5, <2>6, <2>7, <2>8, <2>9 DEF TypeOK
<1> QED BY <1>1, Soundness, ReturnedMessages, PTL

\* No message is dropped: whatever the server commands and however the backend
\* fails, a message that was taken over and not answered for is in the inbox, comes
\* back to it if its admission fails, or is the first of the current owner.
THEOREM NothingIsDropped ==
    Spec => []Custody
<1>1. Sound(World) => Custody
  <2> SUFFICES ASSUME Sound(World) PROVE Custody
    OBVIOUS
  <2>1. Vouched(agent, current, owners[current], fate)
    BY DEF Sound, Accounted, Owner, World
  <2> QED BY <2>1 DEF Custody, Vouched
<1> QED BY <1>1, Soundness, PTL

\* Nothing is delivered twice: what waits in the inbox is neither in the hands of a
\* session nor answered for.
THEOREM NothingIsDeliveredTwice ==
    Spec => []DeliveredOnce
<1>1. Sound(World) => DeliveredOnce
  <2> SUFFICES ASSUME Sound(World) PROVE DeliveredOnce
    OBVIOUS
  <2>1. Neat(agent) /\ Honest(agent, fate)
    BY DEF Sound, Accounted, World
  <2> QED BY <2>1 DEF DeliveredOnce, Neat, Honest, In, Kept
<1> QED BY <1>1, Soundness, PTL

\* Nothing waits with an idle agent, unless an owner was given up by a forced exit
\* while its events were discarded.
THEOREM IdleHasNothing ==
    Spec => []IdleIsEmpty
<1>1. Good(World) /\ Sound(World) => IdleIsEmpty
  <2> SUFFICES ASSUME Good(World), Sound(World), agent.status = "idle", agent.inbox # <<>>
               PROVE  \E i \in DOMAIN owners : owners[i].torndown /\ owners[i].discard
    BY DEF IdleIsEmpty
  <2> DEFINE w == World
  <2>1. /\ w.agent = agent /\ w.owners = owners /\ w.current = 0 /\ Stranded(w)
        /\ agent \in AgentStates
    <3>1. World \in Worlds
      BY DEF Sound, Accounted
    <3>2. World.agent = agent /\ World.owners = owners
      BY DEF World
    <3> QED BY <3>1, <3>2, WorldHas DEF Sound, Accounted, Good
  <2> HIDE DEF w
  <2>2. In(agent) # {}
    BY <2>1, AgentEmpty
  <2> QED BY <2>1, <2>2 DEF Stranded, GivenUp
<1> QED BY <1>1, Soundness, PTL

\* While the manager hears the session of the current epoch, what it believes of the
\* turn and of the messages in flight is what the session has.
THEOREM ViewsStayAgreed ==
    Spec => []ViewsAgree
<1>1. Sound(World) => ViewsAgree
  <2> SUFFICES ASSUME Sound(World), NEW i \in DOMAIN owners,
                      owners[i].phase = "open", agent.epoch = i, Listens(World, i)
               PROVE  /\ Working(agent) <=> owners[i].held.turn = "working"
                      /\ Admissions(agent) = Held(owners[i].held)
    BY DEF ViewsAgree
  <2> DEFINE w == World
             o == owners[i]
  <2>1. /\ w.agent = agent /\ w.owners = owners /\ w.current = current /\ w.fate = fate
        /\ Sound(w) /\ i \in DOMAIN w.owners /\ w.owners[i].phase = "open" /\ Listens(w, i)
    BY DEF World
  <2> HIDE DEF w
  <2>2. i = w.current /\ i # 0 /\ Accounted(w)
    BY <2>1, OpenIs DEF Sound
  <2>3. Owner(w) = o
    BY <2>1, <2>2 DEF Owner
  <2>4. ~o.discard
    BY <2>1 DEF Listens
  <2>5. Agreed(agent, o, fate) /\ Placed(agent, i, o, fate)
    BY <2>1, <2>2, <2>3 DEF Sound, Accounted
  <2> HIDE DEF o
  <2>6. o.phase = "open"
    BY DEF o
  <2>7. /\ Working(agent) <=> o.held.turn = "working"
        /\ Admissions(agent) = Held(o.held)
    BY <2>2, <2>4, <2>5, <2>6 DEF Agreed, Placed
  <2> QED BY <2>7 DEF o
<1> QED BY <1>1, Soundness, PTL
=============================================================================
