--------------------------- MODULE MachineSession ---------------------------
(***************************************************************************)
(* The server side session of ONE machine that is already paired:          *)
(*   shared/src/db/queries/community/machine-session-epoch.ts  D1          *)
(*   ws-do/src/ws-durable/machine-lifecycle.ts, machine-ready.ts,          *)
(*   machine-control.ts                     one durable object (DO) per    *)
(*                                          credential                     *)
(*   web/src/app/api/community/daemon/activate/route.ts                    *)
(*                                                                         *)
(* An activation spends a token, revokes the credential of the machine and *)
(* mints the next one: an epoch.  Daemons hold web sockets to the DO of    *)
(* the epoch they know.  D1 requests of one DO may be under way together;  *)
(* its storage operations are never interleaved.                           *)
(*                                                                         *)
(* Time is left out: a lease or a last-seen time gets old when it likes,   *)
(* an armed alarm fires when it likes.  Also left out: the limit of online *)
(* machines, removal of the machine, the first pairing, expiry of tokens   *)
(* (each only refuses), daemons without heartbeats (a socket that never    *)
(* said ready is treated like theirs), the browser's events.               *)
(***************************************************************************)
EXTENDS Integers, FiniteSets

CONSTANTS
    Requests,       \* activations; the credential one mints goes by its name
    First,          \* the credential of the first pairing
    Tokens,         \* reconnect tokens: the two statements of createPairingToken can
                    \* leave several pending; one revoked by a newer one is never claimed
    MaxSockets,     \* bound: web sockets, used in order and each once
    MaxFailures     \* bound: D1 requests that fail

ASSUME EpochAssumption == First \notin Requests
ASSUME BoundAssumption == {MaxSockets, MaxFailures} \subseteq Nat

Sockets == 1..MaxSockets
Epochs  == Requests \cup {First}
Nothing == "nothing"

VARIABLES
    token,      \* community_machine_token.status; a claimed one is "revoked"
    request,    \* the activations: where they are, their token, the DOs they will close
    credential, \* none, current or revoked
    row,        \* community_machine: status, last seen; `by` (ghost) the epoch that wrote it
    node,       \* per epoch the DO: stored identity and handle, alarm, alarm handler (task)
                \* with the renewals it has left and whether one was kept
    socket,     \* phase, epoch, is the daemon there, its lease, its ready and close handlers
    failures    \* D1 requests that failed

vars == <<token, request, credential, row, node, socket, failures>>

Listed(e) == {s \in Sockets : socket[s].epoch = e /\ socket[s].phase \in {"open", "closing"}}

\* The epoch is that of an un-revoked credential: the condition of every lease write.
Fenced_Bug(e) == credential[e] # "none"
Fenced(e) == credential[e] = "current"

Fails == failures < MaxFailures /\ failures' = failures + 1
-----------------------------------------------------------------------------
(* transitionLiveLease: the writes of the DO of e to the row.              *)

\* ready and renew
Online(e) == IF Fenced(e) THEN [status |-> "online", fresh |-> TRUE, by |-> e] ELSE row

\* close and expire
Flips(e)   == Fenced(e) /\ row.status = "online"
Offline_Bug(e) == IF row.status = "online" THEN [status |-> "offline", fresh |-> TRUE, by |-> e] ELSE row
Offline(e) == IF Flips(e) THEN [status |-> "offline", fresh |-> TRUE, by |-> e] ELSE row

\* scheduleHeartbeatAlarm, for DO n that lists the sockets L
Schedule(n, L) == [n EXCEPT !.alarm = n.identity \/ n.handle \/ L # {}]

Forget(n) == [n EXCEPT !.identity = FALSE, !.handle = FALSE]

Close(S) == [s \in Sockets |-> IF s \in S THEN [socket[s] EXCEPT !.phase = "closing"] ELSE socket[s]]

\* handleMachineAlarm without (or no longer with) a lease that is current
Tail(n, L, expired) ==
    IF expired /\ n.identity THEN [n EXCEPT !.task = "expiring"]
    ELSE IF n.handle THEN [n EXCEPT !.task = IF n.identity THEN "reading" ELSE "looking"]
    ELSE Schedule([n EXCEPT !.task = "idle"], L)

\* One of its renewals is answered.  After the last one the handler ends if any of them
\* was kept, that is not refused as stale, and goes on to its tail otherwise.
Renewed(n, L, kept) ==
    LET k == n.kept \/ kept
        o == [n EXCEPT !.left = 0, !.kept = FALSE]
    IN  IF n.left > 1 THEN [n EXCEPT !.left = @ - 1, !.kept = k]
        ELSE IF k THEN Schedule([o EXCEPT !.task = "idle"], L)
        ELSE Tail(o, L, TRUE)
-----------------------------------------------------------------------------
NoRequest == [pc |-> "idle", token |-> Nothing, closes |-> {}]
NewSocket == [phase |-> "new", epoch |-> First, peer |-> FALSE, leased |-> FALSE,
              ready |-> "unsent", close |-> "idle"]

Init ==
    /\ token = [t \in Tokens |-> "pending"]
    /\ request = [r \in Requests |-> NoRequest]
    /\ credential = [e \in Epochs |-> IF e = First THEN "current" ELSE "none"]
    /\ row = [status |-> "offline", fresh |-> FALSE, by |-> First]
    /\ node = [e \in Epochs |->
                 [identity |-> FALSE, handle |-> FALSE, alarm |-> FALSE, task |-> "idle",
                  left |-> 0, kept |-> FALSE]]
    /\ socket = [s \in Sockets |-> NewSocket]
    /\ failures = 0

(* Activation: rotateMachineSessionEpoch, then the route.                  *)

\* The token is claimed; a request that finds it taken is refused.
Claim(r, t) ==
    /\ request[r].pc = "idle" /\ token[t] = "pending"
    /\ token' = [token EXCEPT ![t] = "revoked"]
    /\ request' = [request EXCEPT ![r].pc = "claimed", ![r].token = t]
    /\ UNCHANGED <<credential, row, node, socket, failures>>

\* What comes before the batch fails: restoreClaimedToken, which may fail as well.
GivesUp(r) ==
    /\ request[r].pc = "claimed" /\ Fails
    /\ request' = [request EXCEPT ![r].pc = "failed"]
    /\ \/ token' = [token EXCEPT ![request[r].token] = "pending"]
       \/ UNCHANGED token
    /\ UNCHANGED <<credential, row, node, socket>>

\* The DOs to close are read before the batch.
ReadPrior(r) ==
    /\ request[r].pc = "claimed"
    /\ request' = [request EXCEPT ![r].pc = "batch",
                                  ![r].closes = {e \in Epochs : credential[e] = "current"}]
    /\ UNCHANGED <<token, credential, row, node, socket, failures>>

\* What the batch writes.
Rotation_Bug(r) ==
    /\ credential' = [e \in Epochs |-> IF e = r THEN "current"
                                       ELSE IF e \in request[r].closes THEN "revoked" ELSE credential[e]]
    /\ row' = [status |-> "offline", fresh |-> FALSE, by |-> r]
Rotation(r) ==
    /\ credential' = [e \in Epochs |-> IF e = r THEN "current"
                                       ELSE IF credential[e] = "current" THEN "revoked" ELSE credential[e]]
    /\ row' = [status |-> "offline", fresh |-> FALSE, by |-> r]

Commit(r) ==
    /\ request[r].pc = "batch"
    /\ Rotation(r)
    /\ request' = [request EXCEPT ![r].pc = "committed"]
    /\ UNCHANGED <<token, node, socket, failures>>

\* The batch is rejected, or its answer is lost: the token stays spent.
BatchFails_Bug(r) ==
    /\ request[r].pc = "batch" /\ Fails
    /\ request' = [request EXCEPT ![r].pc = "failed"]
    /\ token' = [token EXCEPT ![request[r].token] = "pending"]
    /\ \/ Rotation(r) \/ UNCHANGED <<credential, row>>
    /\ UNCHANGED <<node, socket>>
BatchFails(r) ==
    /\ request[r].pc = "batch" /\ Fails
    /\ request' = [request EXCEPT ![r].pc = "failed"]
    /\ \/ Rotation(r) \/ UNCHANGED <<credential, row>>
    /\ UNCHANGED <<token, node, socket>>

\* The daemon gets the credential.
Answered_Bug(r) ==
    /\ request[r].pc \in {"batch", "committed"}
    /\ request' = [request EXCEPT ![r].pc = "answered"]
    /\ UNCHANGED <<token, credential, row, node, socket, failures>>
Answered(r) ==
    /\ request[r].pc = "committed"
    /\ request' = [request EXCEPT ![r].pc = "answered"]
    /\ UNCHANGED <<token, credential, row, node, socket, failures>>

\* forceCloseCommunityMachine, work after the commit that may never be done
ForceClose(r, e) ==
    /\ request[r].pc \in {"committed", "answered"} /\ e \in request[r].closes
    /\ request' = [request EXCEPT ![r].closes = @ \ {e}]
    /\ socket' = Close(Listed(e))
    /\ node' = [node EXCEPT ![e] = Forget(@)]
    /\ UNCHANGED <<token, credential, row, failures>>
-----------------------------------------------------------------------------
(* Sockets.                                                                *)

Knows(e) == e = First \/ (e \in Requests /\ request[e].pc = "answered")

\* acceptCommunityMachineWebSocket: the credential is looked up ...
LookUp(s, e) ==
    /\ socket[s].phase = "new" /\ Knows(e) /\ Fenced(e)
    /\ \A i \in Sockets : i < s => socket[i].phase # "new"
    /\ socket' = [socket EXCEPT ![s].phase = "found", ![s].epoch = e, ![s].peer = TRUE]
    /\ UNCHANGED <<token, request, credential, row, node, failures>>

\* ... and the socket accepted, whatever has become of the credential since.
Accept(s) ==
    LET e == socket[s].epoch IN
    /\ socket[s].phase = "found"
    /\ socket' = [socket EXCEPT ![s].phase = "open"]
    /\ node' = [node EXCEPT ![e].identity = TRUE, ![e].handle = TRUE, ![e].alarm = TRUE]
    /\ UNCHANGED <<token, request, credential, row, failures>>

\* The daemon or the network is gone, noticed or not.
Vanishes(s) ==
    /\ socket[s].phase = "open" /\ socket[s].peer
    /\ socket' = [socket EXCEPT ![s].peer = FALSE]
    /\ UNCHANGED <<token, request, credential, row, node, failures>>

\* handleReadyFrame: without an identity the frame is dropped.  A daemon says ready again
\* when what it reports has changed; here, when it was answered.
Ready(s) ==
    /\ socket[s].phase = "open" /\ socket[s].peer /\ socket[s].ready \in {"unsent", "over"}
    /\ node[socket[s].epoch].identity
    /\ socket' = [socket EXCEPT ![s].ready = "asked", ![s].leased = TRUE]
    /\ UNCHANGED <<token, request, credential, row, node, failures>>

ReadyWrites(s) ==
    LET e == socket[s].epoch IN
    /\ socket[s].ready = "asked"
    /\ row' = Online(e)
    /\ socket' = IF Fenced(e) THEN [socket EXCEPT ![s].ready = "written"]
                 ELSE [socket EXCEPT ![s].ready = "over",
                                     ![s].phase = IF @ = "open" THEN "closing" ELSE @]
    /\ UNCHANGED <<token, request, credential, node, failures>>

\* A failure after or before the write is swallowed.
ReadyFails(s) ==
    /\ socket[s].ready \in {"asked", "written"} /\ Fails
    /\ row' \in {row, IF socket[s].ready = "asked" THEN Online(socket[s].epoch) ELSE row}
    /\ socket' = [socket EXCEPT ![s].ready = "over"]
    /\ UNCHANGED <<token, request, credential, node>>

ReadyDone(s) ==
    LET e == socket[s].epoch IN
    /\ socket[s].ready = "written"
    /\ socket' = [socket EXCEPT ![s].ready = "over"]
    /\ node' = [node EXCEPT ![e] = Schedule([@ EXCEPT !.handle = TRUE], Listed(e))]
    /\ UNCHANGED <<token, request, credential, row, failures>>

\* handleMachineHeartbeatAck, which needs the identity as well
Acknowledges(s) ==
    /\ socket[s].phase = "open" /\ socket[s].peer /\ ~socket[s].leased /\ socket[s].ready # "unsent"
    /\ node[socket[s].epoch].identity
    /\ socket' = [socket EXCEPT ![s].leased = TRUE]
    /\ UNCHANGED <<token, request, credential, row, node, failures>>

\* COMMUNITY_MACHINE_OFFLINE_THRESHOLD_MS have passed since the last acknowledgement.
LeaseAges(s) ==
    /\ s \in Listed(socket[s].epoch) /\ socket[s].leased
    /\ socket' = [socket EXCEPT ![s].leased = FALSE]
    /\ UNCHANGED <<token, request, credential, row, node, failures>>

RowAges ==
    /\ row.fresh
    /\ row' = [row EXCEPT !.fresh = FALSE]
    /\ UNCHANGED <<token, request, credential, node, socket, failures>>

\* handleCommunityMachineClose: the event of a socket that is gone
Closes_Bug(s) ==
    LET e == socket[s].epoch
        L == Listed(e) \ {s}
    IN  /\ socket[s].phase = "closing" \/ (socket[s].phase = "open" /\ ~socket[s].peer)
        /\ socket' = [socket EXCEPT ![s].phase = "gone", ![s].peer = FALSE, ![s].leased = FALSE]
        /\ node' = [node EXCEPT ![e] = Schedule(Forget(@), L)]
        /\ UNCHANGED <<token, request, credential, row, failures>>
Closes(s) ==
    LET e == socket[s].epoch
        L == Listed(e) \ {s}
        marks == node[e].identity /\ L = {}
    IN  /\ socket[s].phase = "closing" \/ (socket[s].phase = "open" /\ ~socket[s].peer)
        /\ socket' = [socket EXCEPT ![s].phase = "gone", ![s].peer = FALSE, ![s].leased = FALSE,
                                    ![s].close = IF marks THEN "asked" ELSE "idle"]
        /\ node' = IF node[e].identity THEN node ELSE [node EXCEPT ![e] = Schedule(@, L)]
        /\ UNCHANGED <<token, request, credential, row, failures>>

\* markIdentityOffline is answered at once, its local part waits for the notifications.
CloseWrites(s) ==
    LET e == socket[s].epoch IN
    /\ socket[s].close = "asked"
    /\ row' = Offline(e)
    /\ socket' = [socket EXCEPT ![s].close = IF Flips(e) THEN "flipped" ELSE "kept"]
    /\ UNCHANGED <<token, request, credential, node, failures>>

CloseFails(s) ==
    LET e == socket[s].epoch IN
    /\ socket[s].close = "asked" /\ Fails
    /\ row' \in {row, Offline(e)}
    /\ socket' = [socket EXCEPT ![s].close = "idle"]
    /\ node' = [node EXCEPT ![e] = Schedule([@ EXCEPT !.alarm = TRUE], Listed(e))]
    /\ UNCHANGED <<token, request, credential>>

CloseDone(s) ==
    LET e == socket[s].epoch IN
    /\ socket[s].close \in {"flipped", "kept"}
    /\ socket' = [socket EXCEPT ![s].close = "idle"]
    /\ node' = [node EXCEPT ![e] = IF socket[s].close = "flipped" THEN Schedule(Forget(@), Listed(e))
                                   ELSE Forget(@)]
    /\ UNCHANGED <<token, request, credential, row, failures>>
-----------------------------------------------------------------------------
(* handleMachineAlarm                                                      *)

\* Sockets whose lease is over are closed; each live one has its lease renewed in D1.
AlarmFires(e) ==
    LET lapsed == {s \in Listed(e) : ~socket[s].leased}
        live   == Listed(e) \ lapsed
        n      == [node[e] EXCEPT !.alarm = FALSE]
    IN  /\ node[e].alarm /\ node[e].task = "idle"
        /\ socket' = Close(lapsed)
        /\ node' = [node EXCEPT ![e] = IF live # {} /\ n.identity
                                       THEN [n EXCEPT !.task = "renewing", !.left = Cardinality(live)]
                                       ELSE Tail(n, Listed(e), lapsed # {})]
        /\ UNCHANGED <<token, request, credential, row, failures>>

\* A renewal: a stale epoch ends the sockets and then the DO's own record.
Renews_Bug(e) ==
    /\ node[e].task = "renewing"
    /\ row' = Online(e)
    /\ node' = [node EXCEPT ![e] = Renewed(@, Listed(e), TRUE)]
    /\ UNCHANGED <<token, request, credential, socket, failures>>
Renews(e) ==
    /\ node[e].task = "renewing"
    /\ row' = Online(e)
    /\ socket' = IF Fenced(e) THEN socket ELSE Close(Listed(e))
    /\ node' = [node EXCEPT ![e] = Renewed(@, Listed(e), Fenced(e))]
    /\ UNCHANGED <<token, request, credential, failures>>

RenewalFails(e) ==
    /\ node[e].task = "renewing" /\ Fails
    /\ row' \in {row, Online(e)}
    /\ node' = [node EXCEPT ![e] = Renewed(@, Listed(e), TRUE)]
    /\ UNCHANGED <<token, request, credential, socket>>

\* The row, of whichever epoch, is read: an old one is given up, a fresh one watched on.
\* Whether there is an identity was read before (the task says so).
ReadsRow(e) ==
    LET n == [node[e] EXCEPT !.task = "idle"] IN
    /\ node[e].task \in {"reading", "looking"}
    /\ node' = [node EXCEPT ![e] =
                  IF row.fresh THEN [n EXCEPT !.alarm = TRUE]
                  ELSE IF node[e].task = "reading" THEN [n EXCEPT !.task = "expiring"]
                  ELSE Schedule([n EXCEPT !.handle = FALSE], Listed(e))]
    /\ UNCHANGED <<token, request, credential, row, socket, failures>>

\* The alarm handler throws, or sets the alarm again itself.
AlarmFails_Bug(e) ==
    /\ node[e].task \in {"reading", "looking", "expiring"} /\ Fails
    /\ row' \in {row, IF node[e].task = "expiring" THEN Offline(e) ELSE row}
    /\ node' = [node EXCEPT ![e].task = "idle"]
    /\ UNCHANGED <<token, request, credential, socket>>
AlarmFails(e) ==
    /\ node[e].task \in {"reading", "looking", "expiring"} /\ Fails
    /\ row' \in {row, IF node[e].task = "expiring" THEN Offline(e) ELSE row}
    /\ node' = [node EXCEPT ![e].alarm = TRUE, ![e].task = "idle"]
    /\ UNCHANGED <<token, request, credential, socket>>

Expires(e) ==
    /\ node[e].task = "expiring"
    /\ row' = Offline(e)
    /\ node' = [node EXCEPT ![e].task = "expired"]
    /\ UNCHANGED <<token, request, credential, socket, failures>>

\* Flipped or not, the DO forgets the machine.
ExpiryDone(e) ==
    /\ node[e].task = "expired"
    /\ node' = [node EXCEPT ![e] = Schedule(Forget([@ EXCEPT !.task = "idle"]), Listed(e))]
    /\ UNCHANGED <<token, request, credential, row, socket, failures>>
-----------------------------------------------------------------------------
Activation(r) ==
    \/ \E t \in Tokens : Claim(r, t)
    \/ GivesUp(r) \/ ReadPrior(r) \/ Commit(r) \/ BatchFails(r) \/ Answered(r)
    \/ \E e \in Epochs : ForceClose(r, e)

ReadyAnswered(s) == ReadyWrites(s) \/ ReadyFails(s) \/ ReadyDone(s)
CloseAnswered(s) == CloseWrites(s) \/ CloseFails(s) \/ CloseDone(s)
AlarmAnswered(e) == Renews(e) \/ RenewalFails(e) \/ ReadsRow(e) \/ AlarmFails(e)
                    \/ Expires(e) \/ ExpiryDone(e)

Socket(s) ==
    \/ \E e \in Epochs : LookUp(s, e)
    \/ Accept(s) \/ Vanishes(s) \/ Ready(s) \/ Acknowledges(s) \/ LeaseAges(s) \/ Closes(s)
    \/ ReadyAnswered(s) \/ CloseAnswered(s)

Next ==
    \/ \E r \in Requests : Activation(r)
    \/ \E s \in Sockets : Socket(s)
    \/ \E e \in Epochs : AlarmFires(e) \/ AlarmAnswered(e)
    \/ RowAges

Spec == Init /\ [][Next]_vars

\* D1 answers each socket's handlers, an armed alarm fires and its handler goes on, and
\* time passes: a last-seen time gets old, and so does the lease of a socket whose
\* acknowledgements do not count.  Nothing else is fair: no daemon needs to do anything,
\* no close event and no clean-up needs to come.
Unanswered(s) == ~socket[s].peer \/ ~node[socket[s].epoch].identity
Fairness ==
    /\ \A s \in Sockets : /\ WF_vars(ReadyAnswered(s) \/ CloseAnswered(s))
                          /\ WF_vars(Unanswered(s) /\ LeaseAges(s))
    /\ \A e \in Epochs : WF_vars(AlarmFires(e) \/ AlarmAnswered(e))
    /\ WF_vars(RowAges)

FairSpec == Spec /\ Fairness
-----------------------------------------------------------------------------
(* Properties.                                                             *)

\* The types; a daemon was only told of a credential that had been installed.
TypeOK ==
    /\ token \in [Tokens -> {"pending", "revoked"}]
    /\ request \in [Requests -> [pc : {"idle", "claimed", "batch", "committed", "answered", "failed"},
                                 token : Tokens \cup {Nothing}, closes : SUBSET Epochs]]
    /\ credential \in [Epochs -> {"none", "current", "revoked"}]
    /\ row \in [status : {"online", "offline"}, fresh : BOOLEAN, by : Epochs]
    /\ node \in [Epochs -> [identity : BOOLEAN, handle : BOOLEAN, alarm : BOOLEAN,
                            task : {"idle", "renewing", "reading", "looking", "expiring", "expired"},
                            left : 0..MaxSockets, kept : BOOLEAN]]
    /\ socket \in [Sockets -> [phase : {"new", "found", "open", "closing", "gone"}, epoch : Epochs,
                               peer : BOOLEAN, leased : BOOLEAN,
                               ready : {"unsent", "asked", "written", "over"},
                               close : {"idle", "asked", "flipped", "kept"}]]
    /\ \A r \in Requests : request[r].pc \in {"committed", "answered"} => credential[r] # "none"
    /\ failures \in 0..MaxFailures

\* However activations overlap and fail, one credential is current, and it is the last
\* one committed.
OneCredential == Cardinality({e \in Epochs : credential[e] = "current"}) = 1

\* A token is spent by one activation at most, although one that fails early makes it
\* pending again and the outcome of a late failure is unknown.
TokenSpentOnce ==
    \A r1, r2 \in Requests :
        r1 # r2 /\ request[r1].token = request[r2].token /\ request[r1].token # Nothing =>
            credential[r1] = "none" \/ credential[r2] = "none"

\* A machine that is online is so by its current credential: what a revoked DO still
\* had under way does not count.
OnlineIsCurrent == row.status = "online" => credential[row.by] = "current"

\* The row is written by an epoch that is current, or by the batch that installs one.
EpochFences == [][row'.by # row.by \/ row'.status # row.status =>
                     credential[row'.by] \in {"current", "none"}]_vars

\* What a DO keeps (a socket, an identity, a handle) is looked at again: the alarm is the
\* only thing that renews, expires and closes.
StaysWatched ==
    \A e \in Epochs : Listed(e) # {} \/ node[e].identity \/ node[e].handle =>
        node[e].alarm \/ node[e].task # "idle"

\* A DO is about to forget the machine as offline while it is reported online once more
\* (by a renewal, a ready frame or a socket accepted meanwhile), which the code does not
\* check again.
TakesOffline(e) == \/ node[e].task \in {"expiring", "expired"}
                   \/ \E s \in Sockets : socket[s].epoch = e /\ socket[s].close # "idle"
TakesOnline(e)  == \/ node[e].task = "renewing"
                   \/ \E s \in Sockets : /\ socket[s].epoch = e
                                         /\ socket[s].phase = "open" \/ socket[s].ready \in {"asked", "written"}
Raced == \E e \in Epochs : TakesOffline(e) /\ TakesOnline(e)

Connected == \E s \in Sockets : socket[s].phase \in {"found", "open"} /\ socket[s].peer

\* A machine nobody is connected for is offline in the end, whether or not the close
\* was noticed and the writes failed ...
AbandonedGoesOffline ==
    []~Raced => ((row.status = "online" /\ ~Connected) ~> (row.status = "offline" \/ Connected))

\* ... and without the exception: "no-live-WS + stale row: markMachineOffline flips".
NoLiveSocketFlips == (row.status = "online" /\ ~Connected) ~> (row.status = "offline" \/ Connected)

\* A socket of a revoked credential is closed in the end even when the clean-up after
\* the activation is lost and the daemon at its other end is well.
Superseded == \E s \in Sockets : socket[s].phase = "open" /\ credential[socket[s].epoch] = "revoked"
SupersededCloses == Superseded ~> ~Superseded
=============================================================================
