------------------------------ MODULE WakeLane ------------------------------
(***************************************************************************)
(* What the wake coordinator promises, without launches, acks, retries or  *)
(* asynchronous dispatch (daemon/src/manager/wakeCoordinator.ts:41-45):    *)
(* "One outstanding unread-notification admission per agent.  Channels     *)
(* carry desired and model-seen watermarks; they never become independent  *)
(* steer lanes."                                                           *)
(***************************************************************************)
EXTENDS Integers

CONSTANT Channels

VARIABLES
    desired,    \* per channel, the watermark wakes have asked for
    seen,       \* per channel, the watermark the model has acknowledged
    promised    \* per channel, what the outstanding delivery covers; 0: nothing

lane == <<desired, seen, promised>>

Nothing == [c \in Channels |-> 0]

\* A delivery promises every channel that is behind, never some of them.
Everything(want, have) == [c \in Channels |-> IF want[c] > have[c] THEN want[c] ELSE 0]

Init == desired = Nothing /\ seen = Nothing /\ promised = Nothing

\* A wake raises one channel's watermark; if nothing is outstanding it may be
\* delivered at once.
Want ==
    /\ \E c \in Channels :
        /\ desired'[c] > desired[c]
        /\ desired' = [desired EXCEPT ![c] = desired'[c]]
    /\ \/ promised' = promised
       \/ promised = Nothing /\ promised' = Everything(desired', seen)
    /\ UNCHANGED seen

\* A delivery is made: the first, or the next one as the last one settles.
Deliver ==
    /\ promised' = Everything(desired, seen)
    /\ UNCHANGED <<desired, seen>>

\* The outstanding delivery is finished, failed or given up.
Settle ==
    /\ promised' = Nothing
    /\ UNCHANGED <<desired, seen>>

\* The model acknowledges messages: watermarks only grow, and the delivery may
\* settle by it.
See ==
    /\ \A c \in Channels : seen'[c] >= seen[c]
    /\ seen' = [c \in Channels |-> seen'[c]]
    /\ promised' \in {promised, Nothing, Everything(desired, seen')}
    /\ UNCHANGED desired

\* A lifecycle command forgets what is wanted, and perhaps what was seen.
Reset ==
    /\ seen' \in {seen, Nothing}
    /\ desired' = seen'
    /\ promised' = Nothing

Next == Want \/ Deliver \/ Settle \/ See \/ Reset

Spec == Init /\ [][Next]_lane
=============================================================================
