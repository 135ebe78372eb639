------------------------ MODULE MachineSession_proofs ------------------------
(***************************************************************************)
(* Proofs about MachineSession, for any number of activations, tokens,     *)
(* sockets and failures.                                                   *)
(*                                                                         *)
(* Every invariant rests on what a step may do to the row and to the       *)
(* credentials (RowWrites): nothing that matters, a write of the current   *)
(* epoch, or the batch of an activation that has not minted before.        *)
(***************************************************************************)
EXTENDS MachineSession, FiniteSetTheorems, TLAPS

\* The states of the parts, as TypeOK has them.
NodeStates == [identity : BOOLEAN, handle : BOOLEAN, alarm : BOOLEAN,
               task : {"idle", "renewing", "reading", "looking", "expiring", "expired"},
               left : 0..MaxSockets, kept : BOOLEAN]

SocketStates == [phase : {"new", "found", "open", "closing", "gone"}, epoch : Epochs,
                 peer : BOOLEAN, leased : BOOLEAN,
                 ready : {"unsent", "asked", "written", "over"},
                 close : {"idle", "asked", "flipped", "kept"}]

RowStates == [status : {"online", "offline"}, fresh : BOOLEAN, by : Epochs]

RequestStates == [pc : {"idle", "claimed", "batch", "committed", "answered", "failed"},
                  token : Tokens \cup {Nothing}, closes : SUBSET Epochs]

Parts ==
    /\ token \in [Tokens -> {"pending", "revoked"}]
    /\ request \in [Requests -> RequestStates]
    /\ credential \in [Epochs -> {"none", "current", "revoked"}]
    /\ row \in RowStates
    /\ node \in [Epochs -> NodeStates]
    /\ socket \in [Sockets -> SocketStates]
    /\ failures \in 0..MaxFailures

\* An activation that was answered, or is about to be, has minted its credential.
Installed == \A r \in Requests : request[r].pc \in {"committed", "answered"} => credential[r] # "none"

LEMMA TypeIsParts == TypeOK <=> Parts /\ Installed
  BY DEF TypeOK, Parts, Installed, NodeStates, SocketStates, RowStates, RequestStates
-----------------------------------------------------------------------------
(* The helpers keep the types.                                             *)

LEMMA ScheduleType ==
  ASSUME NEW n \in NodeStates, NEW L
  PROVE  Schedule(n, L) \in NodeStates
  BY DEF Schedule, NodeStates

LEMMA ForgetType ==
  ASSUME NEW n \in NodeStates
  PROVE  Forget(n) \in NodeStates
  BY DEF Forget, NodeStates

LEMMA TailType ==
  ASSUME NEW n \in NodeStates, NEW L, NEW expired \in BOOLEAN
  PROVE  Tail(n, L, expired) \in NodeStates
<1>1. [n EXCEPT !.task = "expiring"] \in NodeStates
  BY DEF NodeStates
<1>2. [n EXCEPT !.task = IF n.identity THEN "reading" ELSE "looking"] \in NodeStates
  BY DEF NodeStates
<1>3. [n EXCEPT !.task = "idle"] \in NodeStates
  BY DEF NodeStates
<1>4. Schedule([n EXCEPT !.task = "idle"], L) \in NodeStates
  BY <1>3, ScheduleType
<1> QED
  BY <1>1, <1>2, <1>4 DEF Tail

\* A handler that is through with its renewals.
Through(n) == [n EXCEPT !.left = 0, !.kept = FALSE]

LEMMA ThroughType ==
  ASSUME NEW n \in NodeStates
  PROVE  Through(n) \in NodeStates /\ [Through(n) EXCEPT !.task = "idle"] \in NodeStates
<1>1. 0 \in 0..MaxSockets
  BY BoundAssumption
<1>2. Through(n) \in NodeStates
  BY <1>1 DEF Through, NodeStates
<1>3. ASSUME NEW o \in NodeStates PROVE [o EXCEPT !.task = "idle"] \in NodeStates
  BY DEF NodeStates
<1> QED
  BY <1>2, <1>3

\* A handler with renewals left.
Remaining(n, k) == [n EXCEPT !.left = @ - 1, !.kept = k]

LEMMA RemainingType ==
  ASSUME NEW n \in NodeStates, NEW k \in BOOLEAN, n.left > 1
  PROVE  Remaining(n, k) \in NodeStates /\ Remaining(n, k).task = n.task
<1>1. n.left - 1 \in 0..MaxSockets
  BY BoundAssumption DEF NodeStates
<1> QED
  BY <1>1 DEF Remaining, NodeStates

LEMMA RenewedIs ==
  ASSUME NEW n \in NodeStates, NEW L, NEW kept \in BOOLEAN
  PROVE  \/ n.left > 1 /\ \E k \in BOOLEAN : Renewed(n, L, kept) = Remaining(n, k)
         \/ Renewed(n, L, kept) = Schedule([Through(n) EXCEPT !.task = "idle"], L)
         \/ Renewed(n, L, kept) = Tail(Through(n), L, TRUE)
<1>1. (n.kept \/ kept) \in BOOLEAN
  OBVIOUS
<1> QED
  BY <1>1 DEF Renewed, Remaining, Through

LEMMA RenewedType ==
  ASSUME NEW n \in NodeStates, NEW L, NEW kept \in BOOLEAN
  PROVE  Renewed(n, L, kept) \in NodeStates
<1>1. Schedule([Through(n) EXCEPT !.task = "idle"], L) \in NodeStates
  BY ThroughType, ScheduleType
<1>2. Tail(Through(n), L, TRUE) \in NodeStates
  BY ThroughType, TailType
<1> QED
  BY <1>1, <1>2, RenewedIs, RemainingType

\* There are as many renewals as live sockets, and no more than sockets.
LEMMA LiveCount ==
  ASSUME NEW S \in SUBSET Sockets
  PROVE  Cardinality(S) \in 0..MaxSockets
<1>1. MaxSockets \in Nat
  BY BoundAssumption
<1>2. IsFiniteSet(Sockets) /\ Cardinality(Sockets) = MaxSockets
  BY <1>1, FS_Interval DEF Sockets
<1>3. IsFiniteSet(S) /\ Cardinality(S) <= Cardinality(Sockets)
  BY <1>2, FS_Subset
<1>4. Cardinality(S) \in Nat
  BY <1>3, FS_CardinalityType
<1> QED
  BY <1>1, <1>2, <1>3, <1>4

LEMMA CloseType ==
  ASSUME Parts, NEW S
  PROVE  Close(S) \in [Sockets -> SocketStates]
  BY DEF Close, Parts, SocketStates

LEMMA OnlineType ==
  ASSUME Parts, NEW e \in Epochs
  PROVE  Online(e) \in RowStates
  BY DEF Online, Parts, RowStates

LEMMA OfflineType ==
  ASSUME Parts, NEW e \in Epochs
  PROVE  Offline(e) \in RowStates
  BY DEF Offline, Parts, RowStates

LEMMA FailsType ==
  ASSUME Parts, Fails
  PROVE  failures' \in 0..MaxFailures
  BY BoundAssumption DEF Fails, Parts

LEMMA RotationType ==
  ASSUME Parts, NEW r \in Requests, Rotation(r)
  PROVE  /\ credential' \in [Epochs -> {"none", "current", "revoked"}]
         /\ row' \in RowStates
         /\ \A e \in Epochs : credential[e] # "none" => credential'[e] # "none"
         /\ credential'[r] = "current"
         /\ \A e \in Epochs : e # r => credential'[e] # "current"
  BY DEF Rotation, Parts, RowStates, Epochs
-----------------------------------------------------------------------------
(* Types of every step.                                                    *)

LEMMA ActivationType ==
  ASSUME Parts, NEW r \in Requests, Activation(r)
  PROVE  Parts'
<1>1. ASSUME NEW t \in Tokens, Claim(r, t) PROVE Parts'
  BY <1>1 DEF Claim, Parts, RequestStates
<1>2. CASE GivesUp(r)
  <2>1. failures' \in 0..MaxFailures
    BY <1>2, FailsType DEF GivesUp
  <2>2. request' \in [Requests -> RequestStates]
    BY <1>2 DEF GivesUp, Parts, RequestStates
  <2>3. token' \in [Tokens -> {"pending", "revoked"}]
    BY <1>2 DEF GivesUp, Parts
  <2> QED
    BY <1>2, <2>1, <2>2, <2>3 DEF GivesUp, Parts
<1>3. CASE ReadPrior(r)
  BY <1>3 DEF ReadPrior, Parts, RequestStates
<1>4. CASE Commit(r)
  <2>1. request' \in [Requests -> RequestStates]
    BY <1>4 DEF Commit, Parts, RequestStates
  <2> QED
    BY <1>4, <2>1, RotationType DEF Commit, Parts
<1>5. CASE BatchFails(r)
  <2>1. failures' \in 0..MaxFailures
    BY <1>5, FailsType DEF BatchFails
  <2>2. request' \in [Requests -> RequestStates]
    BY <1>5 DEF BatchFails, Parts, RequestStates
  <2>3. row' \in RowStates /\ credential' \in [Epochs -> {"none", "current", "revoked"}]
    BY <1>5, RotationType DEF BatchFails, Parts
  <2> QED
    BY <1>5, <2>1, <2>2, <2>3 DEF BatchFails, Parts
<1>6. CASE Answered(r)
  BY <1>6 DEF Answered, Parts, RequestStates
<1>7. ASSUME NEW e \in Epochs, ForceClose(r, e) PROVE Parts'
  <2>1. request' \in [Requests -> RequestStates]
    BY <1>7 DEF ForceClose, Parts, RequestStates
  <2>2. socket' \in [Sockets -> SocketStates]
    BY <1>7, CloseType DEF ForceClose
  <2>3. node' \in [Epochs -> NodeStates]
    BY <1>7, ForgetType DEF ForceClose, Parts
  <2> QED
    BY <1>7, <2>1, <2>2, <2>3 DEF ForceClose, Parts
<1> QED
  BY <1>1, <1>2, <1>3, <1>4, <1>5, <1>6, <1>7 DEF Activation

LEMMA SocketType ==
  ASSUME Parts, NEW s \in Sockets, Socket(s)
  PROVE  Parts'
<1> DEFINE e == socket[s].epoch
<1>e. e \in Epochs /\ node[e] \in NodeStates
  BY DEF Parts, SocketStates
<1> HIDE DEF e
<1>s. socket[s] \in SocketStates
  BY DEF Parts
<1>1. ASSUME NEW x \in Epochs, LookUp(s, x) PROVE Parts'
  <2>1. [[[socket[s] EXCEPT !.phase = "found"] EXCEPT !.epoch = x] EXCEPT !.peer = TRUE]
           \in SocketStates
    BY <1>s DEF SocketStates
  <2>2. socket' \in [Sockets -> SocketStates]
    BY <1>1, <2>1 DEF LookUp, Parts
  <2> QED
    BY <1>1, <2>2 DEF LookUp, Parts
<1>2. CASE Accept(s)
  <2>1. socket' \in [Sockets -> SocketStates]
    BY <1>2 DEF Accept, Parts, SocketStates
  <2>2. node' \in [Epochs -> NodeStates]
    BY <1>2, <1>e DEF Accept, Parts, NodeStates, e
  <2> QED
    BY <1>2, <2>1, <2>2 DEF Accept, Parts
<1>3. CASE Vanishes(s)
  BY <1>3 DEF Vanishes, Parts, SocketStates
<1>4. CASE Ready(s)
  <2>1. [[socket[s] EXCEPT !.ready = "asked"] EXCEPT !.leased = TRUE] \in SocketStates
    BY <1>s DEF SocketStates
  <2>2. socket' \in [Sockets -> SocketStates]
    BY <1>4, <2>1 DEF Ready, Parts
  <2> QED
    BY <1>4, <2>2 DEF Ready, Parts
<1>5. CASE Acknowledges(s)
  BY <1>5 DEF Acknowledges, Parts, SocketStates
<1>6. CASE LeaseAges(s)
  BY <1>6 DEF LeaseAges, Parts, SocketStates
<1>7. CASE Closes(s)
  <2>g. [[[socket[s] EXCEPT !.phase = "gone"] EXCEPT !.peer = FALSE] EXCEPT !.leased = FALSE]
           \in SocketStates
    BY <1>s DEF SocketStates
  <2> DEFINE gone == [[[socket[s] EXCEPT !.phase = "gone"] EXCEPT !.peer = FALSE]
                        EXCEPT !.leased = FALSE]
  <2>c. /\ [gone EXCEPT !.close = "asked"] \in SocketStates
        /\ [gone EXCEPT !.close = "idle"] \in SocketStates
    BY <2>g DEF SocketStates
  <2>1. socket' \in [Sockets -> SocketStates]
    BY <1>7, <2>c DEF Closes, Parts
  <2>2. Schedule(node[e], Listed(e) \ {s}) \in NodeStates
    BY <1>e, ScheduleType
  <2>3. node' \in [Epochs -> NodeStates]
    BY <1>7, <2>2 DEF Closes, Parts, e
  <2> QED
    BY <1>7, <2>1, <2>3 DEF Closes, Parts
<1>8. CASE ReadyWrites(s)
  <2>w. [socket[s] EXCEPT !.ready = "written"] \in SocketStates
    BY <1>s DEF SocketStates
  <2>c. [[socket[s] EXCEPT !.ready = "over"] EXCEPT
            !.phase = IF @ = "open" THEN "closing" ELSE @] \in SocketStates
    BY <1>s DEF SocketStates
  <2>1. socket' \in [Sockets -> SocketStates]
    BY <1>8, <2>w, <2>c DEF ReadyWrites, Parts
  <2>2. row' \in RowStates
    BY <1>8, <1>e, OnlineType DEF ReadyWrites, e
  <2> QED
    BY <1>8, <2>1, <2>2 DEF ReadyWrites, Parts
<1>9. CASE ReadyFails(s)
  <2>1. socket' \in [Sockets -> SocketStates]
    BY <1>9 DEF ReadyFails, Parts, SocketStates
  <2>2. row' \in RowStates
    BY <1>9, <1>e, OnlineType DEF ReadyFails, Parts, e
  <2>3. failures' \in 0..MaxFailures
    BY <1>9, FailsType DEF ReadyFails
  <2> QED
    BY <1>9, <2>1, <2>2, <2>3 DEF ReadyFails, Parts
<1>10. CASE ReadyDone(s)
  <2>1. socket' \in [Sockets -> SocketStates]
    BY <1>10 DEF ReadyDone, Parts, SocketStates
  <2>2. [node[e] EXCEPT !.handle = TRUE] \in NodeStates
    BY <1>e DEF NodeStates
  <2>3. Schedule([node[e] EXCEPT !.handle = TRUE], Listed(e)) \in NodeStates
    BY <2>2, ScheduleType
  <2>4. node' \in [Epochs -> NodeStates]
    BY <1>10, <2>3 DEF ReadyDone, Parts, e
  <2> QED
    BY <1>10, <2>1, <2>4 DEF ReadyDone, Parts
<1>11. CASE CloseWrites(s)
  <2>1. socket' \in [Sockets -> SocketStates]
    BY <1>11 DEF CloseWrites, Parts, SocketStates
  <2>2. row' \in RowStates
    BY <1>11, <1>e, OfflineType DEF CloseWrites, e
  <2> QED
    BY <1>11, <2>1, <2>2 DEF CloseWrites, Parts
<1>12. CASE CloseFails(s)
  <2>1. socket' \in [Sockets -> SocketStates]
    BY <1>12 DEF CloseFails, Parts, SocketStates
  <2>2. row' \in RowStates
    BY <1>12, <1>e, OfflineType DEF CloseFails, Parts, e
  <2>3. failures' \in 0..MaxFailures
    BY <1>12, FailsType DEF CloseFails
  <2>4. [node[e] EXCEPT !.alarm = TRUE] \in NodeStates
    BY <1>e DEF NodeStates
  <2>5. Schedule([node[e] EXCEPT !.alarm = TRUE], Listed(e)) \in NodeStates
    BY <2>4, ScheduleType
  <2>6. node' \in [Epochs -> NodeStates]
    BY <1>12, <2>5 DEF CloseFails, Parts, e
  <2> QED
    BY <1>12, <2>1, <2>2, <2>3, <2>6 DEF CloseFails, Parts
<1>13. CASE CloseDone(s)
  <2>1. socket' \in [Sockets -> SocketStates]
    BY <1>13 DEF CloseDone, Parts, SocketStates
  <2>2. Forget(node[e]) \in NodeStates /\ Schedule(Forget(node[e]), Listed(e)) \in NodeStates
    BY <1>e, ForgetType, ScheduleType
  <2>3. node' \in [Epochs -> NodeStates]
    BY <1>13, <2>2 DEF CloseDone, Parts, e
  <2> QED
    BY <1>13, <2>1, <2>3 DEF CloseDone, Parts
<1> QED
  BY <1>1, <1>2, <1>3, <1>4, <1>5, <1>6, <1>7, <1>8, <1>9, <1>10, <1>11, <1>12, <1>13
     DEF Socket, ReadyAnswered, CloseAnswered

LEMMA AlarmType ==
  ASSUME Parts, NEW e \in Epochs, AlarmFires(e) \/ AlarmAnswered(e)
  PROVE  Parts'
<1>e. node[e] \in NodeStates
  BY DEF Parts
<1>i. [node[e] EXCEPT !.task = "idle"] \in NodeStates
  BY <1>e DEF NodeStates
<1>1. CASE AlarmFires(e)
  <2> DEFINE lapsed == {s \in Listed(e) : ~socket[s].leased}
             live == Listed(e) \ lapsed
             n == [node[e] EXCEPT !.alarm = FALSE]
  <2>c. Cardinality(live) \in 0..MaxSockets
    <3>1. live \in SUBSET Sockets
      BY DEF Listed
    <3> HIDE DEF live
    <3> QED
      BY <3>1, LiveCount
  <2>1. n \in NodeStates
    BY <1>e DEF NodeStates
  <2>r. ASSUME NEW c \in 0..MaxSockets PROVE [n EXCEPT !.task = "renewing", !.left = c] \in NodeStates
    <3> HIDE DEF n
    <3>1. [n EXCEPT !.task = "renewing"] \in NodeStates
      BY <2>1 DEF NodeStates
    <3>2. [[n EXCEPT !.task = "renewing"] EXCEPT !.left = c] \in NodeStates
      BY <2>1, <3>1 DEF NodeStates
    <3> QED
      BY <3>2
  <2>2. Tail(n, Listed(e), lapsed # {}) \in NodeStates
    BY <2>1, TailType
  <2>i. [n EXCEPT !.task = "renewing", !.left = Cardinality(live)] \in NodeStates
    BY <2>c, <2>r
  <2>3. node' \in [Epochs -> NodeStates]
    BY <1>1, <2>i, <2>2 DEF AlarmFires, Parts
  <2>4. socket' \in [Sockets -> SocketStates]
    BY <1>1, CloseType DEF AlarmFires
  <2> QED
    BY <1>1, <2>3, <2>4 DEF AlarmFires, Parts
<1>2. CASE Renews(e)
  <2>1. row' \in RowStates
    BY <1>2, OnlineType DEF Renews
  <2>2. socket' \in [Sockets -> SocketStates]
    BY <1>2, CloseType DEF Renews, Parts
  <2>3. Renewed(node[e], Listed(e), Fenced(e)) \in NodeStates
    BY <1>e, RenewedType DEF Fenced
  <2>4. node' \in [Epochs -> NodeStates]
    BY <1>2, <2>3 DEF Renews, Parts
  <2> QED
    BY <1>2, <2>1, <2>2, <2>4 DEF Renews, Parts
<1>3. CASE RenewalFails(e)
  <2>1. row' \in RowStates
    BY <1>3, OnlineType DEF RenewalFails, Parts
  <2>2. failures' \in 0..MaxFailures
    BY <1>3, FailsType DEF RenewalFails
  <2>3. Renewed(node[e], Listed(e), TRUE) \in NodeStates
    BY <1>e, RenewedType
  <2>4. node' \in [Epochs -> NodeStates]
    BY <1>3, <2>3 DEF RenewalFails, Parts
  <2> QED
    BY <1>3, <2>1, <2>2, <2>4 DEF RenewalFails, Parts
<1>4. CASE ReadsRow(e)
  <2> DEFINE n == [node[e] EXCEPT !.task = "idle"]
  <2>1. /\ [n EXCEPT !.alarm = TRUE] \in NodeStates
        /\ [n EXCEPT !.task = "expiring"] \in NodeStates
        /\ [n EXCEPT !.handle = FALSE] \in NodeStates
    BY <1>i DEF NodeStates
  <2>2. Schedule([n EXCEPT !.handle = FALSE], Listed(e)) \in NodeStates
    BY <2>1, ScheduleType
  <2>3. node' \in [Epochs -> NodeStates]
    BY <1>4, <2>1, <2>2 DEF ReadsRow, Parts
  <2> QED
    BY <1>4, <2>3 DEF ReadsRow, Parts
<1>5. CASE AlarmFails(e)
  <2>1. row' \in RowStates
    BY <1>5, OfflineType DEF AlarmFails, Parts
  <2>2. failures' \in 0..MaxFailures
    BY <1>5, FailsType DEF AlarmFails
  <2>3. node' \in [Epochs -> NodeStates]
    BY <1>5 DEF AlarmFails, Parts, NodeStates
  <2> QED
    BY <1>5, <2>1, <2>2, <2>3 DEF AlarmFails, Parts
<1>6. CASE Expires(e)
  <2>1. row' \in RowStates
    BY <1>6, OfflineType DEF Expires
  <2>2. node' \in [Epochs -> NodeStates]
    BY <1>6 DEF Expires, Parts, NodeStates
  <2> QED
    BY <1>6, <2>1, <2>2 DEF Expires, Parts
<1>7. CASE ExpiryDone(e)
  <2>1. Forget([node[e] EXCEPT !.task = "idle"]) \in NodeStates
    BY <1>i, ForgetType
  <2>2. Schedule(Forget([node[e] EXCEPT !.task = "idle"]), Listed(e)) \in NodeStates
    BY <2>1, ScheduleType
  <2>3. node' \in [Epochs -> NodeStates]
    BY <1>7, <2>2 DEF ExpiryDone, Parts
  <2> QED
    BY <1>7, <2>3 DEF ExpiryDone, Parts
<1> QED
  BY <1>1, <1>2, <1>3, <1>4, <1>5, <1>6, <1>7 DEF AlarmAnswered

LEMMA PartsStep ==
  ASSUME Parts, [Next]_vars
  PROVE  Parts'
<1>1. CASE RowAges
  BY <1>1 DEF RowAges, Parts, RowStates
<1>2. CASE UNCHANGED vars
  BY <1>2 DEF vars, Parts
<1> QED
  BY <1>1, <1>2, ActivationType, SocketType, AlarmType DEF Next
-----------------------------------------------------------------------------
(* What a step does to the row, the credentials, the activations.          *)

\* A credential that was not minted belongs to an activation before its batch, or to
\* one that failed.
Unminted == \A r \in Requests : request[r].pc \in {"idle", "claimed", "batch"} => credential[r] = "none"

\* An activation r installs its credential in this step.
Installs(r) == request[r].pc = "batch" /\ Rotation(r) /\ (Commit(r) \/ BatchFails(r))

\* The row stays as it is for all that matters ...
Keeps == row'.status = row.status /\ row'.by = row.by /\ credential' = credential

\* ... or is written for an epoch that is current.
Writes(e) == Fenced(e) /\ row'.by = e /\ credential' = credential

LEMMA OnlineWrites ==
  ASSUME Parts, NEW e \in Epochs, row' \in {row, Online(e)}, credential' = credential
  PROVE  Keeps \/ Writes(e)
  BY DEF Online, Keeps, Writes

LEMMA OfflineWrites ==
  ASSUME Parts, NEW e \in Epochs, row' \in {row, Offline(e)}, credential' = credential
  PROVE  Keeps \/ Writes(e)
  BY DEF Offline, Flips, Keeps, Writes

LEMMA ActivationWrites ==
  ASSUME Parts, NEW r \in Requests, Activation(r)
  PROVE  Keeps \/ Installs(r)
<1>1. CASE Commit(r) \/ BatchFails(r)
  BY <1>1 DEF Commit, BatchFails, Keeps, Installs
<1> QED
  BY <1>1 DEF Activation, Claim, GivesUp, ReadPrior, Answered, ForceClose, Keeps

LEMMA SocketWrites ==
  ASSUME Parts, NEW s \in Sockets, Socket(s)
  PROVE  Keeps \/ \E e \in Epochs : Writes(e)
<1> DEFINE e == socket[s].epoch
<1>e. e \in Epochs
  BY DEF Parts, SocketStates
<1>1. CASE ReadyWrites(s) \/ ReadyFails(s)
  <2>1. row' \in {row, Online(e)} /\ credential' = credential
    BY <1>1 DEF ReadyWrites, ReadyFails
  <2> QED
    BY <1>e, <2>1, OnlineWrites
<1>2. CASE CloseWrites(s) \/ CloseFails(s)
  <2>1. row' \in {row, Offline(e)} /\ credential' = credential
    BY <1>2 DEF CloseWrites, CloseFails
  <2> QED
    BY <1>e, <2>1, OfflineWrites
<1>3. CASE UNCHANGED <<row, credential>>
  BY <1>3 DEF Keeps
<1>4. ReadyDone(s) \/ CloseDone(s) => UNCHANGED <<row, credential>>
  BY DEF ReadyDone, CloseDone
<1>5. (\E x \in Epochs : LookUp(s, x)) \/ Accept(s) \/ Vanishes(s) \/ Ready(s) => UNCHANGED <<row, credential>>
  BY DEF LookUp, Accept, Vanishes, Ready
<1>6. Acknowledges(s) \/ LeaseAges(s) \/ Closes(s) => UNCHANGED <<row, credential>>
  BY DEF Acknowledges, LeaseAges, Closes
<1> QED
  BY <1>1, <1>2, <1>3, <1>4, <1>5, <1>6 DEF Socket, ReadyAnswered, CloseAnswered

LEMMA AlarmWrites ==
  ASSUME Parts, NEW e \in Epochs, AlarmFires(e) \/ AlarmAnswered(e)
  PROVE  Keeps \/ Writes(e)
<1>1. CASE Renews(e) \/ RenewalFails(e)
  <2>1. row' \in {row, Online(e)} /\ credential' = credential
    BY <1>1 DEF Renews, RenewalFails
  <2> QED
    BY <2>1, OnlineWrites
<1>2. CASE Expires(e) \/ AlarmFails(e)
  <2>1. row' \in {row, Offline(e)} /\ credential' = credential
    BY <1>2 DEF Expires, AlarmFails
  <2> QED
    BY <2>1, OfflineWrites
<1>3. AlarmFires(e) \/ ReadsRow(e) \/ ExpiryDone(e) => UNCHANGED <<row, credential>>
  BY DEF AlarmFires, ReadsRow, ExpiryDone
<1> QED
  BY <1>1, <1>2, <1>3 DEF AlarmAnswered, Keeps

\* Every step keeps the row, writes it for the current epoch, or installs a credential.
LEMMA RowWrites ==
  ASSUME Parts, [Next]_vars
  PROVE  \/ Keeps
         \/ \E e \in Epochs : Writes(e)
         \/ \E r \in Requests : Installs(r)
<1>1. CASE RowAges
  BY <1>1 DEF RowAges, Keeps, Parts, RowStates
<1>2. CASE UNCHANGED vars
  BY <1>2 DEF vars, Keeps
<1> QED
  BY <1>1, <1>2, ActivationWrites, SocketWrites, AlarmWrites DEF Next

\* Only an activation touches tokens and activations.
LEMMA Elsewhere ==
  ASSUME [Next]_vars, ~ \E r \in Requests : Activation(r)
  PROVE  UNCHANGED <<token, request, credential>>
<1>1. ASSUME NEW s \in Sockets, Socket(s) PROVE UNCHANGED <<token, request, credential>>
  <2>1. ReadyAnswered(s) => UNCHANGED <<token, request, credential>>
    BY DEF ReadyAnswered, ReadyWrites, ReadyFails, ReadyDone
  <2>2. CloseAnswered(s) => UNCHANGED <<token, request, credential>>
    BY DEF CloseAnswered, CloseWrites, CloseFails, CloseDone
  <2> QED
    BY <1>1, <2>1, <2>2 DEF Socket, LookUp, Accept, Vanishes, Ready, Acknowledges, LeaseAges, Closes
<1>2. ASSUME NEW e \in Epochs, AlarmFires(e) \/ AlarmAnswered(e)
      PROVE  UNCHANGED <<token, request, credential>>
  BY <1>2 DEF AlarmAnswered, AlarmFires, Renews, RenewalFails, ReadsRow, AlarmFails, Expires, ExpiryDone
<1> QED
  BY <1>1, <1>2 DEF Next, RowAges, vars
-----------------------------------------------------------------------------
(* Invariants of the activations.                                          *)

\* An activation that holds a token: it has claimed it, or it minted with it.
Spender(r) == request[r].pc \in {"claimed", "batch"} \/ credential[r] # "none"

Spent == \A r \in Requests : Spender(r) =>
            request[r].token \in Tokens /\ token[request[r].token] = "revoked"

Apart == \A r1, r2 \in Requests :
            r1 # r2 /\ Spender(r1) /\ Spender(r2) => request[r1].token # request[r2].token

\* One credential is current.
Single == \E x \in Epochs : {e \in Epochs : credential[e] = "current"} = {x}

Activations == Parts /\ Installed /\ Unminted /\ Spent /\ Apart /\ Single

LEMMA MintedStep ==
  ASSUME Parts, Unminted, Installed, [Next]_vars
  PROVE  Unminted' /\ Installed'
<1>1. ASSUME NEW r \in Requests, Activation(r) PROVE Unminted' /\ Installed'
  <2>1. CASE \E t \in Tokens : Claim(r, t)
    BY <1>1, <2>1 DEF Claim, Parts, RequestStates, Unminted, Installed
  <2>2. CASE GivesUp(r)
    BY <1>1, <2>2 DEF GivesUp, Parts, RequestStates, Unminted, Installed
  <2>3. CASE ReadPrior(r)
    <3>1. \A q \in Requests : request'[q].pc = IF q = r THEN "batch" ELSE request[q].pc
      BY <2>3 DEF ReadPrior, Parts, RequestStates
    <3>2. request[r].pc = "claimed" /\ credential' = credential
      BY <2>3 DEF ReadPrior
    <3> QED
      BY <3>1, <3>2 DEF Unminted, Installed
  <2>4. CASE Commit(r)
    <3>1. \A q \in Requests : request'[q].pc = IF q = r THEN "committed" ELSE request[q].pc
      BY <2>4 DEF Commit, Parts, RequestStates
    <3>2. /\ \A e \in Epochs : credential[e] # "none" => credential'[e] # "none"
          /\ credential'[r] = "current"
      BY <1>1, <2>4, RotationType DEF Commit
    <3>3. \A q \in Requests : q # r /\ credential[q] = "none" => credential'[q] = "none"
      BY <2>4 DEF Commit, Rotation, Epochs, Parts
    <3> QED
      BY <3>1, <3>2, <3>3 DEF Unminted, Installed, Epochs
  <2>5. CASE BatchFails(r)
    <3>1. \A q \in Requests : request'[q].pc = IF q = r THEN "failed" ELSE request[q].pc
      BY <2>5 DEF BatchFails, Parts, RequestStates
    <3>2. \A e \in Epochs : credential[e] # "none" => credential'[e] # "none"
      BY <1>1, <2>5, RotationType DEF BatchFails
    <3>3. \A q \in Requests : q # r /\ credential[q] = "none" => credential'[q] = "none"
      BY <2>5 DEF BatchFails, Rotation, Epochs, Parts
    <3> QED
      BY <3>1, <3>2, <3>3 DEF Unminted, Installed, Epochs
  <2>6. CASE Answered(r)
    BY <1>1, <2>6 DEF Answered, Parts, RequestStates, Unminted, Installed
  <2>7. CASE \E e \in Epochs : ForceClose(r, e)
    <3>1. \A q \in Requests : request'[q].pc = request[q].pc
      BY <2>7 DEF ForceClose, Parts, RequestStates
    <3>2. credential' = credential
      BY <2>7 DEF ForceClose
    <3> QED
      BY <3>1, <3>2 DEF Unminted, Installed
  <2> QED
    BY <1>1, <2>1, <2>2, <2>3, <2>4, <2>5, <2>6, <2>7 DEF Activation
<1>2. CASE ~ \E r \in Requests : Activation(r)
  <2>1. UNCHANGED <<token, request, credential>>
    BY <1>2, Elsewhere
  <2> QED
    BY <2>1 DEF Unminted, Installed
<1> QED
  BY <1>1, <1>2

\* A step that changes no token, and makes no activation a spender, spends nothing.
LEMMA NothingSpent ==
  ASSUME Spent, Apart,
         \A t \in Tokens : token'[t] = token[t],
         \A q \in Requests : request'[q].token = request[q].token /\ (Spender(q)' => Spender(q))
  PROVE  Spent' /\ Apart'
  BY DEF Spent, Apart

LEMMA SpentStep ==
  ASSUME Parts, Unminted, Spent, Apart, [Next]_vars
  PROVE  Spent' /\ Apart'
<1>1. ASSUME NEW r \in Requests, Activation(r) PROVE Spent' /\ Apart'
  <2>1. ASSUME NEW t \in Tokens, Claim(r, t) PROVE Spent' /\ Apart'
    <3>1. /\ \A q \in Requests : q # r => request'[q] = request[q]
          /\ request'[r].pc = "claimed" /\ request'[r].token = t
          /\ credential' = credential
      BY <2>1 DEF Claim, Parts, RequestStates
    <3>2. /\ token[t] = "pending" /\ token'[t] = "revoked"
          /\ \A u \in Tokens : u # t => token'[u] = token[u]
      BY <2>1 DEF Claim, Parts
    <3>3. \A q \in Requests : q # r /\ Spender(q)' => Spender(q)
      BY <3>1 DEF Spender
    <3>4. \A q \in Requests : q # r /\ Spender(q) => request[q].token # t
      BY <3>2 DEF Spent
    <3>5. Spent'
      BY <3>1, <3>2, <3>3 DEF Spent
    <3>6. Apart'
      BY <3>1, <3>3, <3>4 DEF Apart
    <3> QED
      BY <3>5, <3>6
  <2>2. CASE GivesUp(r)
    <3>1. /\ \A q \in Requests : q # r => request'[q] = request[q]
          /\ request'[r].pc = "failed" /\ request'[r].token = request[r].token
          /\ request[r].pc = "claimed" /\ credential' = credential
      BY <2>2 DEF GivesUp, Parts, RequestStates
    <3>2. \A u \in Tokens : u # request[r].token => token'[u] = token[u]
      BY <2>2 DEF GivesUp, Parts
    <3>3. \A q \in Requests : Spender(q)' => Spender(q) /\ q # r
      BY <3>1 DEF Spender, Unminted
    <3>4. Spender(r)
      BY <3>1 DEF Spender
    <3>5. \A q \in Requests : q # r /\ Spender(q) => request[q].token # request[r].token
      BY <3>4 DEF Apart
    <3>6. Spent'
      BY <3>1, <3>2, <3>3, <3>5 DEF Spent
    <3>7. Apart'
      BY <3>1, <3>3 DEF Apart
    <3> QED
      BY <3>6, <3>7
  <2>3. CASE Commit(r) \/ BatchFails(r)
    <3>1. \A q \in Requests : request'[q].token = request[q].token
      BY <2>3 DEF Commit, BatchFails, Parts, RequestStates
    <3>2. /\ request[r].pc = "batch" /\ token' = token
          /\ \A q \in Requests : q # r => request'[q] = request[q]
      BY <2>3 DEF Commit, BatchFails, Parts
    <3>3. \A q \in Requests : q # r /\ credential[q] = "none" => credential'[q] = "none"
      BY <2>3 DEF Commit, BatchFails, Rotation, Epochs, Parts
    <3>4. \A q \in Requests : Spender(q)' => Spender(q)
      BY <3>2, <3>3 DEF Spender
    <3> QED
      BY <3>1, <3>2, <3>4, NothingSpent
  <2>4. CASE ReadPrior(r) \/ Answered(r) \/ \E e \in Epochs : ForceClose(r, e)
    <3>1. /\ \A q \in Requests : request'[q].token = request[q].token
          /\ token' = token /\ credential' = credential
      BY <2>4 DEF ReadPrior, Answered, ForceClose, Parts, RequestStates
    <3>2. \A q \in Requests : request'[q].pc \in {"claimed", "batch"} =>
                              request[q].pc \in {"claimed", "batch"}
      BY <2>4 DEF ReadPrior, Answered, ForceClose, Parts, RequestStates
    <3>3. \A q \in Requests : Spender(q)' => Spender(q)
      BY <3>1, <3>2 DEF Spender
    <3> QED
      BY <3>1, <3>3, NothingSpent
  <2> QED
    BY <1>1, <2>1, <2>2, <2>3, <2>4 DEF Activation
<1>2. CASE ~ \E r \in Requests : Activation(r)
  <2>1. UNCHANGED <<token, request, credential>>
    BY <1>2, Elsewhere
  <2> QED
    BY <2>1 DEF Spent, Apart, Spender
<1> QED
  BY <1>1, <1>2

LEMMA SingleStep ==
  ASSUME Parts, Single, [Next]_vars
  PROVE  Single'
<1>1. CASE credential' = credential
  BY <1>1 DEF Single
<1>2. ASSUME NEW r \in Requests, Installs(r) PROVE Single'
  <2>1. {e \in Epochs : credential'[e] = "current"} = {r} /\ r \in Epochs
    BY <1>2, RotationType DEF Installs, Epochs
  <2> QED
    BY <2>1 DEF Single
<1> QED
  BY <1>1, <1>2, RowWrites DEF Keeps, Writes

LEMMA InitActivations == Init => Activations
<1> SUFFICES ASSUME Init PROVE Activations
  OBVIOUS
<1>1. Parts
  BY BoundAssumption DEF Init, Parts, RequestStates, RowStates, NodeStates, SocketStates,
     NoRequest, NewSocket, Epochs
<1>2. \A r \in Requests : request[r].pc = "idle" /\ credential[r] = "none"
  BY EpochAssumption DEF Init, NoRequest, Epochs
<1>3. {e \in Epochs : credential[e] = "current"} = {First} /\ First \in Epochs
  BY DEF Init, Epochs
<1> QED
  BY <1>1, <1>2, <1>3 DEF Activations, Installed, Unminted, Spent, Apart, Spender, Single

THEOREM Inductive == Spec => []Activations
<1>1. Activations /\ [Next]_vars => Activations'
  BY PartsStep, MintedStep, SpentStep, SingleStep DEF Activations
<1> QED
  BY <1>1, InitActivations, PTL DEF Spec

\* The types of every reachable state; a daemon was only told of a credential that had
\* been installed (activate/route.ts answers after the commit).
THEOREM TypeCorrect == Spec => []TypeOK
<1>1. Activations => TypeOK
  BY TypeIsParts DEF Activations
<1> QED
  BY <1>1, Inductive, PTL

\* However many activations overlap and fail, one credential is current: the batch of
\* rotateMachineSessionEpoch revokes what is current when it runs.
THEOREM OneCredentialRemains == Spec => []OneCredential
<1>1. Single => OneCredential
  <2> SUFFICES ASSUME NEW x \in Epochs, {e \in Epochs : credential[e] = "current"} = {x}
               PROVE  OneCredential
    BY DEF Single
  <2> QED
    BY FS_Singleton DEF OneCredential
<1>2. Activations => OneCredential
  BY <1>1 DEF Activations
<1> QED
  BY <1>2, Inductive, PTL

\* A token is spent by one activation at most (the claim of the token, and its return
\* only before the batch).
THEOREM TokensAreSpentOnce == Spec => []TokenSpentOnce
<1>1. Apart => TokenSpentOnce
  BY DEF Apart, Spender, TokenSpentOnce
<1>2. Activations => TokenSpentOnce
  BY <1>1 DEF Activations
<1> QED
  BY <1>2, Inductive, PTL

\* The row says online only for the current credential: every lease write is fenced, and
\* the rotation sets the row offline.
THEOREM OnlyCurrentIsOnline == Spec => []OnlineIsCurrent
<1>1. Init => OnlineIsCurrent
  BY DEF Init, OnlineIsCurrent
<1>2. Activations /\ OnlineIsCurrent /\ [Next]_vars => OnlineIsCurrent'
  <2> SUFFICES ASSUME Activations, OnlineIsCurrent, [Next]_vars PROVE OnlineIsCurrent'
    OBVIOUS
  <2>1. CASE Keeps
    BY <2>1 DEF Keeps, OnlineIsCurrent
  <2>2. ASSUME NEW e \in Epochs, Writes(e) PROVE OnlineIsCurrent'
    BY <2>2 DEF Writes, Fenced, OnlineIsCurrent
  <2>3. ASSUME NEW r \in Requests, Installs(r) PROVE OnlineIsCurrent'
    BY <2>3 DEF Installs, Rotation, OnlineIsCurrent
  <2> QED
    BY <2>1, <2>2, <2>3, RowWrites DEF Activations
<1> QED
  BY <1>1, <1>2, Inductive, PTL DEF Spec

\* A revoked epoch never writes the status of the machine, although its requests may be
\* under way when it is revoked.
THEOREM RevokedNeverWrites == Spec => EpochFences
<1> DEFINE Fences == row'.by # row.by \/ row'.status # row.status =>
                        credential[row'.by] \in {"current", "none"}
<1>1. Activations /\ [Next]_vars => Fences
  <2> SUFFICES ASSUME Activations, [Next]_vars PROVE Fences
    OBVIOUS
  <2>1. CASE Keeps
    BY <2>1 DEF Keeps
  <2>2. ASSUME NEW e \in Epochs, Writes(e) PROVE Fences
    BY <2>2 DEF Writes, Fenced
  <2>3. ASSUME NEW r \in Requests, Installs(r) PROVE Fences
    <3>1. row'.by = r
      BY <2>3 DEF Installs, Rotation
    <3>2. credential[r] = "none"
      BY <2>3 DEF Installs, Activations, Unminted
    <3> QED
      BY <3>1, <3>2
  <2> QED
    BY <2>1, <2>2, <2>3, RowWrites DEF Activations
<1>2. Activations /\ [Next]_vars => [Fences]_vars
  BY <1>1
<1> QED
  BY <1>2, Inductive, PTL DEF Spec, EpochFences
-----------------------------------------------------------------------------
(* Every object that keeps something is watched by its alarm.              *)

\* The object, in state n and with the sockets L, is looked at again if it keeps something.
Attended(n, L) == L # {} \/ n.identity \/ n.handle => n.alarm \/ n.task # "idle"

LEMMA ScheduleAttends ==
  ASSUME NEW n \in NodeStates, NEW L
  PROVE  Attended(Schedule(n, L), L)
  BY DEF Schedule, Attended, NodeStates

LEMMA TailAttends ==
  ASSUME NEW n \in NodeStates, NEW L, NEW expired \in BOOLEAN
  PROVE  Attended(Tail(n, L, expired), L)
<1>1. /\ [n EXCEPT !.task = "expiring"].task # "idle"
      /\ [n EXCEPT !.task = IF n.identity THEN "reading" ELSE "looking"].task # "idle"
  BY DEF NodeStates
<1>2. [n EXCEPT !.task = "idle"] \in NodeStates
  BY DEF NodeStates
<1>3. Attended(Schedule([n EXCEPT !.task = "idle"], L), L)
  BY <1>2, ScheduleAttends
<1> QED
  BY <1>1, <1>3 DEF Tail, Attended

LEMMA RenewedAttends ==
  ASSUME NEW n \in NodeStates, n.task = "renewing", NEW L, NEW kept \in BOOLEAN
  PROVE  Attended(Renewed(n, L, kept), L)
<1>1. ASSUME NEW k \in BOOLEAN, n.left > 1 PROVE Attended(Remaining(n, k), L)
  BY <1>1, RemainingType DEF Attended
<1>2. Attended(Schedule([Through(n) EXCEPT !.task = "idle"], L), L)
  BY ThroughType, ScheduleAttends
<1>3. Attended(Tail(Through(n), L, TRUE), L)
  BY ThroughType, TailAttends
<1> QED
  BY <1>1, <1>2, <1>3, RenewedIs

\* An object that forgets the machine needs no more attention than before.
LEMMA ForgetAttends ==
  ASSUME NEW n \in NodeStates, NEW L, Attended(n, L)
  PROVE  Attended(Forget(n), L)
  BY DEF Forget, Attended, NodeStates

\* No socket is added to a list: only Accept does that.
NoneAdded == \A x \in Epochs : Listed(x)' \subseteq Listed(x)

LEMMA ListedStays ==
  ASSUME \A s \in Sockets : socket'[s].phase \in {"open", "closing"} =>
            socket[s].phase \in {"open", "closing"} /\ socket'[s].epoch = socket[s].epoch
  PROVE  NoneAdded
  BY DEF NoneAdded, Listed

LEMMA CloseLists ==
  ASSUME Parts, NEW S, \A s \in S : socket[s].phase \in {"open", "closing"}, socket' = Close(S)
  PROVE  NoneAdded
<1>1. \A s \in Sockets : /\ socket'[s].epoch = socket[s].epoch
                          /\ socket'[s].phase = IF s \in S THEN "closing" ELSE socket[s].phase
  BY DEF Close, Parts, SocketStates
<1> QED
  BY <1>1, ListedStays

AllAttended == \A x \in Epochs : Attended(node[x], Listed(x))

\* An action of the object of e that adds no socket.
LEMMA OneAttends ==
  ASSUME Parts, AllAttended, NoneAdded, NEW e \in Epochs, NEW n,
         node' = [node EXCEPT ![e] = n], Attended(n, Listed(e))
  PROVE  AllAttended'
<1>1. \A x \in Epochs : node'[x] = IF x = e THEN n ELSE node[x]
  BY DEF Parts
<1>2. \A x \in Epochs : Attended(node'[x], Listed(x))
  BY <1>1 DEF AllAttended
<1>3. \A x \in Epochs : Attended(node'[x], Listed(x)')
  BY <1>2 DEF NoneAdded, Attended
<1> QED
  BY <1>3 DEF AllAttended

LEMMA NobodyAttends ==
  ASSUME AllAttended, NoneAdded, node' = node
  PROVE  AllAttended'
  BY DEF AllAttended, NoneAdded, Attended

LEMMA ActivationAttends ==
  ASSUME Parts, AllAttended, NEW r \in Requests, Activation(r)
  PROVE  AllAttended'
<1>1. ASSUME NEW e \in Epochs, ForceClose(r, e) PROVE AllAttended'
  <2>1. NoneAdded
    BY <1>1, CloseLists DEF ForceClose, Listed
  <2>2. Attended(Forget(node[e]), Listed(e))
    BY ForgetAttends DEF AllAttended, Parts
  <2>3. node' = [node EXCEPT ![e] = Forget(node[e])]
    BY <1>1 DEF ForceClose
  <2> QED
    BY <2>1, <2>2, <2>3, OneAttends
<1>2. CASE UNCHANGED <<node, socket>>
  <2>1. NoneAdded
    BY <1>2 DEF NoneAdded, Listed
  <2> QED
    BY <1>2, <2>1, NobodyAttends
<1> QED
  BY <1>1, <1>2 DEF Activation, Claim, GivesUp, ReadPrior, Commit, BatchFails, Answered

LEMMA SocketAttends ==
  ASSUME Parts, AllAttended, NEW s \in Sockets, Socket(s)
  PROVE  AllAttended'
<1>p. PICK e \in Epochs : e = socket[s].epoch
  BY DEF Parts, SocketStates
<1>e. node[e] \in NodeStates /\ Attended(node[e], Listed(e))
  BY DEF Parts, AllAttended
<1>1. ASSUME NEW x \in Epochs, LookUp(s, x) PROVE AllAttended'
  <2>1. NoneAdded
    BY <1>1, ListedStays DEF LookUp, Parts, SocketStates
  <2> QED
    BY <1>1, <2>1, NobodyAttends DEF LookUp
<1>2. CASE Accept(s)
  <2>1. \A x \in Epochs : x # e => node'[x] = node[x]
    BY <1>p, <1>2 DEF Accept, Parts
  <2>2. node'[e].alarm = TRUE
    BY <1>p, <1>2, <1>e DEF Accept, Parts, NodeStates
  <2>3. \A x \in Epochs : x # e => Listed(x)' \subseteq Listed(x)
    BY <1>p, <1>2 DEF Accept, Parts, SocketStates, Listed
  <2> QED
    BY <2>1, <2>2, <2>3 DEF AllAttended, Attended
<1>3. CASE Vanishes(s) \/ Ready(s) \/ Acknowledges(s) \/ LeaseAges(s)
  <2>1. /\ \A i \in Sockets : /\ socket'[i].phase = socket[i].phase
                              /\ socket'[i].epoch = socket[i].epoch
        /\ node' = node
    BY <1>3 DEF Vanishes, Ready, Acknowledges, LeaseAges, Parts, SocketStates
  <2>2. NoneAdded
    BY <2>1, ListedStays
  <2> QED
    BY <2>1, <2>2, NobodyAttends
<1>4. CASE ReadyWrites(s)
  <2>1. /\ \A i \in Sockets : /\ \/ socket'[i].phase = socket[i].phase
                                 \/ socket'[i].phase = "closing" /\ socket[i].phase = "open"
                              /\ socket'[i].epoch = socket[i].epoch
        /\ node' = node
    BY <1>4 DEF ReadyWrites, Parts, SocketStates
  <2>2. NoneAdded
    BY <2>1, ListedStays
  <2> QED
    BY <2>1, <2>2, NobodyAttends
<1>5. CASE ReadyFails(s) \/ CloseWrites(s)
  <2>1. /\ \A i \in Sockets : /\ socket'[i].phase = socket[i].phase
                              /\ socket'[i].epoch = socket[i].epoch
        /\ node' = node
    <3>1. /\ socket' = [socket EXCEPT ![s].ready = "over"]
             \/ \E c \in {"flipped", "kept"} : socket' = [socket EXCEPT ![s].close = c]
          /\ node' = node
      BY <1>5 DEF ReadyFails, CloseWrites
    <3> QED
      BY <3>1 DEF Parts, SocketStates
  <2>2. NoneAdded
    BY <2>1, ListedStays
  <2> QED
    BY <2>1, <2>2, NobodyAttends
<1>6. ASSUME ReadyDone(s) \/ CloseFails(s) \/ CloseDone(s) PROVE NoneAdded
  <2>1. \A i \in Sockets : /\ socket'[i].phase = socket[i].phase
                           /\ socket'[i].epoch = socket[i].epoch
    BY <1>6 DEF ReadyDone, CloseFails, CloseDone, Parts, SocketStates
  <2> QED
    BY <2>1, ListedStays
<1>7. CASE ReadyDone(s)
  <2> DEFINE n == [node[e] EXCEPT !.handle = TRUE]
  <2>1. n \in NodeStates
    BY <1>e DEF NodeStates
  <2>2. Attended(Schedule(n, Listed(e)), Listed(e))
    BY <2>1, ScheduleAttends
  <2>3. node' = [node EXCEPT ![e] = Schedule(n, Listed(e))]
    BY <1>p, <1>7 DEF ReadyDone
  <2> QED
    BY <1>e, <1>6, <1>7, <2>2, <2>3, OneAttends
<1>8. CASE CloseFails(s)
  <2> DEFINE n == [node[e] EXCEPT !.alarm = TRUE]
  <2>1. n \in NodeStates
    BY <1>e DEF NodeStates
  <2>2. Attended(Schedule(n, Listed(e)), Listed(e))
    BY <2>1, ScheduleAttends
  <2>3. node' = [node EXCEPT ![e] = Schedule(n, Listed(e))]
    BY <1>p, <1>8 DEF CloseFails
  <2> QED
    BY <1>e, <1>6, <1>8, <2>2, <2>3, OneAttends
<1>9. CASE CloseDone(s)
  <2> DEFINE n == IF socket[s].close = "flipped" THEN Schedule(Forget(node[e]), Listed(e))
                  ELSE Forget(node[e])
  <2>1. Attended(Forget(node[e]), Listed(e))
    BY <1>e, ForgetAttends
  <2>2. Attended(Schedule(Forget(node[e]), Listed(e)), Listed(e))
    BY <1>e, ForgetType, ScheduleAttends
  <2>3. Attended(n, Listed(e))
    BY <2>1, <2>2
  <2>4. node' = [node EXCEPT ![e] = n]
    BY <1>p, <1>9 DEF CloseDone
  <2> QED
    BY <1>e, <1>6, <1>9, <2>3, <2>4, OneAttends
<1>10. CASE Closes(s)
  <2>1. /\ socket' \in [Sockets -> SocketStates]
        /\ socket'[s].phase = "gone"
        /\ \A i \in Sockets : i # s => socket'[i] = socket[i]
    <3>1. PICK u : socket' = [socket EXCEPT ![s] = u] /\ u.phase = "gone"
      <4>1. /\ socket[s] \in SocketStates
            /\ socket' = [socket EXCEPT ![s] = socket'[s]]
            /\ socket'[s].phase = "gone"
        BY <1>10 DEF Closes, Parts, SocketStates
      <4> QED
        BY <4>1
    <3>2. socket' \in [Sockets -> SocketStates]
      BY SocketType DEF Parts
    <3> QED
      BY <3>1, <3>2 DEF Parts
  <2>2. NoneAdded
    BY <2>1, ListedStays
  <2>3. CASE node[e].identity
    <3>1. node' = node
      BY <1>p, <1>10, <2>3 DEF Closes
    <3> QED
      BY <2>2, <3>1, NobodyAttends
  <2>4. CASE ~node[e].identity
    <3>1. node' = [node EXCEPT ![e] = Schedule(node[e], Listed(e) \ {s})]
      BY <1>p, <1>10, <2>4 DEF Closes
    <3>2. Listed(e)' \subseteq Listed(e) \ {s}
      BY <2>1 DEF Listed
    <3>3. Attended(Schedule(node[e], Listed(e) \ {s}), Listed(e) \ {s})
      BY <1>e, ScheduleAttends
    <3>4. Attended(Schedule(node[e], Listed(e) \ {s}), Listed(e)')
      BY <3>2, <3>3 DEF Attended
    <3>5. \A x \in Epochs : node'[x] = IF x = e THEN Schedule(node[e], Listed(e) \ {s}) ELSE node[x]
      BY <3>1 DEF Parts
    <3> QED
      BY <1>e, <2>2, <3>4, <3>5 DEF AllAttended, NoneAdded, Attended
  <2> QED
    BY <2>3, <2>4
<1> QED
  BY <1>1, <1>2, <1>3, <1>4, <1>5, <1>7, <1>8, <1>9, <1>10 DEF Socket, ReadyAnswered, CloseAnswered

LEMMA AlarmAttends ==
  ASSUME Parts, AllAttended, NEW e \in Epochs, AlarmFires(e) \/ AlarmAnswered(e)
  PROVE  AllAttended'
<1>e. node[e] \in NodeStates /\ Attended(node[e], Listed(e))
  BY DEF Parts, AllAttended
<1>i. [node[e] EXCEPT !.task = "idle"] \in NodeStates
  BY <1>e DEF NodeStates
<1>u. ASSUME socket' = socket PROVE NoneAdded
  BY <1>u DEF NoneAdded, Listed
<1>1. CASE AlarmFires(e)
  <2> DEFINE lapsed == {s \in Listed(e) : ~socket[s].leased}
             live == Listed(e) \ lapsed
             n == [node[e] EXCEPT !.alarm = FALSE]
             w == [n EXCEPT !.task = "renewing", !.left = Cardinality(live)]
             u == IF live # {} /\ n.identity THEN w ELSE Tail(n, Listed(e), lapsed # {})
  <2>1. n \in NodeStates
    BY <1>e DEF NodeStates
  <2>r. w.task = "renewing"
    <3> HIDE DEF n, live
    <3> QED
      BY <2>1 DEF NodeStates
  <2>2. Attended(Tail(n, Listed(e), lapsed # {}), Listed(e))
    BY <2>1, TailAttends
  <2>w. Attended(w, Listed(e))
    <3> HIDE DEF w
    <3> QED
      BY <2>r DEF Attended
  <2>3. Attended(u, Listed(e))
    BY <2>w, <2>2
  <2>4. NoneAdded
    BY <1>1, CloseLists DEF AlarmFires, Listed
  <2>5. node' = [node EXCEPT ![e] = u]
    BY <1>1 DEF AlarmFires
  <2> QED
    BY <2>3, <2>4, <2>5, OneAttends
<1>2. CASE Renews(e)
  <2>1. node[e].task = "renewing" /\ Fenced(e) \in BOOLEAN
    BY <1>2 DEF Renews, Fenced
  <2>2. Attended(Renewed(node[e], Listed(e), Fenced(e)), Listed(e))
    BY <1>e, <2>1, RenewedAttends
  <2>3. NoneAdded
    <3>1. CASE Fenced(e)
      BY <1>2, <3>1, <1>u DEF Renews
    <3>2. CASE ~Fenced(e)
      BY <1>2, <3>2, CloseLists DEF Renews, Listed
    <3> QED
      BY <3>1, <3>2
  <2>4. node' = [node EXCEPT ![e] = Renewed(node[e], Listed(e), Fenced(e))]
    BY <1>2 DEF Renews
  <2> QED
    BY <2>2, <2>3, <2>4, OneAttends
<1>3. CASE RenewalFails(e)
  <2>1. Attended(Renewed(node[e], Listed(e), TRUE), Listed(e))
    BY <1>3, <1>e, RenewedAttends DEF RenewalFails
  <2>2. node' = [node EXCEPT ![e] = Renewed(node[e], Listed(e), TRUE)]
    BY <1>3 DEF RenewalFails
  <2>3. NoneAdded
    BY <1>3, <1>u DEF RenewalFails
  <2> QED
    BY <2>1, <2>2, <2>3, OneAttends
<1>4. CASE ReadsRow(e)
  <2> DEFINE n == [node[e] EXCEPT !.task = "idle"]
             u == IF row.fresh THEN [n EXCEPT !.alarm = TRUE]
                  ELSE IF node[e].task = "reading" THEN [n EXCEPT !.task = "expiring"]
                  ELSE Schedule([n EXCEPT !.handle = FALSE], Listed(e))
  <2>1. /\ [n EXCEPT !.alarm = TRUE].alarm = TRUE
        /\ [n EXCEPT !.task = "expiring"].task = "expiring"
        /\ [n EXCEPT !.handle = FALSE] \in NodeStates
    BY <1>i DEF NodeStates
  <2>2. Attended(Schedule([n EXCEPT !.handle = FALSE], Listed(e)), Listed(e))
    BY <2>1, ScheduleAttends
  <2>3. Attended(u, Listed(e))
    BY <2>1, <2>2 DEF Attended
  <2>4. node' = [node EXCEPT ![e] = u]
    BY <1>4 DEF ReadsRow
  <2>5. NoneAdded
    BY <1>4, <1>u DEF ReadsRow
  <2> QED
    BY <2>3, <2>4, <2>5, OneAttends
<1>5. CASE AlarmFails(e)
  <2>1. NoneAdded
    BY <1>5, <1>u DEF AlarmFails
  <2>2. node'[e].alarm = TRUE /\ \A x \in Epochs : x # e => node'[x] = node[x]
    BY <1>5 DEF AlarmFails, Parts, NodeStates
  <2> QED
    BY <2>1, <2>2 DEF AllAttended, NoneAdded, Attended
<1>6. CASE Expires(e)
  <2>1. NoneAdded
    BY <1>6, <1>u DEF Expires
  <2>2. node'[e].task = "expired" /\ \A x \in Epochs : x # e => node'[x] = node[x]
    BY <1>6 DEF Expires, Parts, NodeStates
  <2> QED
    BY <2>1, <2>2 DEF AllAttended, NoneAdded, Attended
<1>7. CASE ExpiryDone(e)
  <2> DEFINE n == Forget([node[e] EXCEPT !.task = "idle"])
  <2>1. n \in NodeStates
    BY <1>i, ForgetType
  <2>2. Attended(Schedule(n, Listed(e)), Listed(e))
    BY <2>1, ScheduleAttends
  <2>3. node' = [node EXCEPT ![e] = Schedule(n, Listed(e))]
    BY <1>7 DEF ExpiryDone
  <2>4. NoneAdded
    BY <1>7, <1>u DEF ExpiryDone
  <2> QED
    BY <2>2, <2>3, <2>4, OneAttends
<1> QED
  BY <1>1, <1>2, <1>3, <1>4, <1>5, <1>6, <1>7 DEF AlarmAnswered

\* An object that keeps a socket, an identity or a handle has its alarm armed or its alarm
\* handler under way: each early return and each failure in machine-lifecycle.ts arms it.
THEOREM AlwaysWatched == Spec => []StaysWatched
<1>1. Init => AllAttended
  BY DEF Init, AllAttended, Attended, Listed, NewSocket
<1>2. Parts /\ AllAttended /\ [Next]_vars => AllAttended'
  <2> SUFFICES ASSUME Parts, AllAttended, [Next]_vars PROVE AllAttended'
    OBVIOUS
  <2>1. CASE RowAges \/ UNCHANGED vars
    <3>1. NoneAdded /\ node' = node
      BY <2>1 DEF RowAges, vars, NoneAdded, Listed
    <3> QED
      BY <3>1, NobodyAttends
  <2> QED
    BY <2>1, ActivationAttends, SocketAttends, AlarmAttends DEF Next
<1>3. AllAttended => StaysWatched
  BY DEF AllAttended, Attended, StaysWatched
<1>4. Activations => Parts
  BY DEF Activations
<1> QED
  BY <1>1, <1>2, <1>3, <1>4, Inductive, PTL DEF Spec
=============================================================================
