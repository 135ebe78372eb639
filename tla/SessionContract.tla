-------------------------- MODULE SessionContract --------------------------
(***************************************************************************)
(* What a logical session promises its client about the commands it is     *)
(* given, as far as the client can see it in the session's events.  An     *)
(* admitted command is settled once, accepted or failed; commands that     *)
(* were queued are accepted in the order of the queue; an accepted command *)
(* may be given back, and only then be tried again; and a session does not *)
(* close before it has settled every command.                              *)
(***************************************************************************)
EXTENDS SequencesExt

CONSTANT Commands

VARIABLES
    status,    \* what the client knows of each command
    line,      \* the queued commands, in their order
    open       \* FALSE once session_closed was emitted

contract == <<status, line, open>>

Unsettled == {c \in Commands : status[c] \in {"pending", "queued"}}

Init ==
    /\ status = [c \in Commands |-> "new"]
    /\ line = <<>>
    /\ open = TRUE

\* A command, or another attempt at one that was given back, is refused, taken
\* on, or queued.
Admit(c) ==
    /\ status[c] \in {"new", "returned"}
    /\ \/ /\ status' = [status EXCEPT ![c] = "rejected"]
          /\ UNCHANGED line
       \/ /\ open
          /\ status' = [status EXCEPT ![c] = "pending"]
          /\ UNCHANGED line
       \/ /\ open
          /\ status' = [status EXCEPT ![c] = "queued"]
          /\ line' = Append(line, c)
    /\ UNCHANGED open

\* The backend was busy: the command waits after those that wait already.
Enqueue(c) ==
    /\ open /\ status[c] = "pending"
    /\ status' = [status EXCEPT ![c] = "queued"]
    /\ line' = Append(line, c)
    /\ UNCHANGED open

\* At most one command is accepted, and perhaps given back at once; others fail.
\* Of the queued commands only the first can be accepted, and no other is settled
\* before it but with the whole line.
Settle(A, to, F) ==
    /\ open
    /\ A \subseteq Unsettled /\ F \subseteq Unsettled \ A
    /\ \A c \in A : A = {c} /\ (status[c] = "queued" => c = Head(line))
    /\ status' = [c \in Commands |-> IF c \in A THEN to
                                     ELSE IF c \in F THEN "failed"
                                     ELSE status[c]]
    /\ \/ line' = line
       \/ line # <<>> /\ line' = Tail(line)
       \/ line' = <<>>
    /\ ToSet(line') = ToSet(line) \ (A \cup F)
    /\ UNCHANGED open

Return(c) ==
    /\ open /\ status[c] = "accepted"
    /\ status' = [status EXCEPT ![c] = "returned"]
    /\ UNCHANGED <<line, open>>

Close ==
    /\ open /\ Unsettled = {}
    /\ open' = FALSE
    /\ UNCHANGED <<status, line>>

Next ==
    \/ \E c \in Commands : Admit(c) \/ Enqueue(c) \/ Return(c)
    \/ \E A, F \in SUBSET Commands, to \in {"accepted", "returned"} : Settle(A, to, F)
    \/ Close

Spec == Init /\ [][Next]_contract
=============================================================================
