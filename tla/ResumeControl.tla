---------------------------- MODULE ResumeControl ----------------------------
(***************************************************************************)
(* Which backend session an agent's next launch resumes, over stalls,      *)
(* resets and crashes of the daemon:                                       *)
(*   daemon/src/timeline/timeline.ts        rows and the control file      *)
(*   daemon/src/timeline/recorder.ts        the transitions                *)
(*   daemon/src/manager/managerRuntime.ts   doSpawn, stalls, resets        *)
(*                                                                         *)
(* Two records are on disk.  The control file is written whole (temporary  *)
(* file, fsync, rename) under a lock; the rows of the timeline are only    *)
(* appended, and an append that fails is not tried again.  A transition    *)
(* writes the control file first.                                          *)
(*                                                                         *)
(* Left out: the provider (one), rows older than the seven days that are   *)
(* read, a corrupt control file, rows updated in place (they keep their    *)
(* session), how a session is stopped (AgentManager), and the rows that     *)
(* mark a stall: with a control file they are skipped.                      *)
(***************************************************************************)
EXTENDS Integers, SequencesExt

CONSTANTS
    MaxSessions,    \* bound: backend sessions are 1..MaxSessions, in order of creation
    MaxRows         \* bound: rows of the timeline

ASSUME BoundsAssumption == {MaxSessions, MaxRows} \subseteq Nat \ {0}

None     == 0
Sessions == 1..MaxSessions

VARIABLES
    control,    \* .resume-control.json: the session whose stall was noted, the one
                \* fenced, and whether a full barrier stands
    rows,       \* the turns and barriers of the timeline: [kind, id]
    known,      \* the reducer's sessionId of the agent
    stalled,    \* the reducer's stalledSessionId
    owner,      \* the launched session
    created,    \* the number of backend sessions there have been
    forgotten,  \* ghost: sessions given up by a reset or a second stall
    fencedRow,  \* ghost: those of them whose barrier row reached the timeline
    streak      \* ghost: the last session there was, and its stalls since a turn of it
                \* ended well

vars == <<control, rows, known, stalled, owner, created, forgotten, fencedRow, streak>>

NoOwner == [phase |-> "none", asked |-> None, id |-> None, before |-> None, turn |-> FALSE,
            discard |-> FALSE]

Barriers == {"reset", "stall_recovery"}
-----------------------------------------------------------------------------
(* Reading.                                                                *)

Recent_Bug ==
    LET turns == SelectSeq(rows, LAMBDA r : r.kind = "turn")
    IN  IF turns = <<>> THEN [kind |-> "none", id |-> None] ELSE Last(turns)

\* resolveResumableSession: the last row decides, a turn names the session and a
\* barrier says that there is none.
Recent == IF rows = <<>> THEN [kind |-> "none", id |-> None] ELSE Last(rows)

\* resolveForAgent.  Until the control file exists the rows alone count; after that
\* they are read with it.
Resolution ==
    LET answer(kind, s, mark) == [kind |-> kind, id |-> s, mark |-> mark]
        marked == control.attempted
    IN  CASE control.full                 -> answer("reset", None, None)
          [] ~control.full /\ Recent.kind = "turn" ->
                 answer("turn", Recent.id, IF marked = Recent.id THEN marked ELSE None)
          [] /\ ~control.full
             /\ \/ Recent.kind = "reset"
                \/ Recent.kind = "stall_recovery" /\ Recent.id = control.fenced ->
                 answer(Recent.kind, Recent.id, None)
          [] OTHER -> answer("none", None, marked)

\* doSpawn: the session to resume, None for a fresh one.
Resumed ==
    LET r == Resolution
        candidate == IF known # None THEN known ELSE IF r.kind = "turn" THEN r.id ELSE None
        blocked == \/ r.kind = "reset"
                   \/ r.kind = "stall_recovery" /\ r.id \in {None, candidate}
                   \/ candidate # None /\ candidate = control.fenced
    IN  IF blocked THEN None ELSE candidate
-----------------------------------------------------------------------------
(* Writing.  `saved` says that the control file could be replaced, `kept`  *)
(* that the row of a barrier reached the timeline.                         *)

Row(kind, s) == [kind |-> kind, id |-> s]

\* The bound leaves room for the rows of barriers.
Record(row, kept) ==
    /\ Len(rows) < MaxRows
    /\ rows' = IF kept THEN Append(rows, row) ELSE rows

Init ==
    /\ control = [attempted |-> None, fenced |-> None, full |-> FALSE]
    /\ \/ rows = <<>> /\ created = 0
       \/ rows = <<Row("turn", 1)>> /\ created = 1      \* from before there was a control file
    /\ known = None /\ stalled = None /\ owner = NoOwner
    /\ forgotten = {} /\ fencedRow = {}
    /\ streak = [id |-> None, n |-> 0]

Launch_Bug ==
    /\ owner.phase = "none"
    /\ owner' = [NoOwner EXCEPT !.phase = "launched", !.asked = Resumed]
    /\ UNCHANGED <<control, rows, known, stalled, created, forgotten, fencedRow, streak>>

Launch ==
    /\ owner.phase = "none"
    /\ owner' = [NoOwner EXCEPT
                    !.phase = "launched", !.asked = Resumed,
                    !.before = IF Resolution.kind \in {"turn", "none"} /\ Resumed # None
                                  /\ Resolution.mark = Resumed THEN Resumed ELSE None]
    /\ UNCHANGED <<control, rows, known, stalled, created, forgotten, fencedRow, streak>>

Started_Barred(s, saved) ==
    /\ owner.phase = "launched" /\ saved
    /\ s \in {owner.asked, created + 1} \cap Sessions
    /\ created' = IF s > created THEN s ELSE created
    /\ control' = [control EXCEPT !.attempted = IF @ = s THEN s ELSE None]
    /\ known' = s
    /\ stalled' = IF owner.before = s THEN s ELSE IF stalled = s THEN s ELSE None
    /\ owner' = [owner EXCEPT !.phase = "up", !.id = s]
    /\ streak' = [id |-> s, n |-> 0]
    /\ UNCHANGED <<rows, forgotten, fencedRow>>

\* session_started: setSession, then backend_session.  The backend may open a
\* session of its own instead of the one it was asked for.  A session whose control
\* state cannot be saved is rejected.
SessionStarted(s, saved) ==
    /\ owner.phase = "launched" /\ ~owner.discard
    /\ s \in {owner.asked, created + 1} \cap Sessions
    /\ created' = IF s > created THEN s ELSE created
    /\ IF saved
       THEN /\ control' = [control EXCEPT !.full = FALSE,
                                          !.attempted = IF @ = s THEN s ELSE None]
            /\ known' = s
            /\ stalled' = IF owner.before = s THEN s ELSE IF stalled = s THEN s ELSE None
            /\ owner' = [owner EXCEPT !.phase = "up", !.id = s]
            /\ streak' = IF s = streak.id THEN streak ELSE [id |-> s, n |-> 0]
       ELSE /\ owner' = [owner EXCEPT !.phase = "stopping", !.discard = TRUE]
            /\ UNCHANGED <<control, known, stalled, streak>>
    /\ UNCHANGED <<rows, forgotten, fencedRow>>

TurnStarts ==
    /\ owner.phase = "up" /\ ~owner.turn
    /\ owner' = [owner EXCEPT !.turn = TRUE]
    /\ UNCHANGED <<control, rows, known, stalled, created, forgotten, fencedRow, streak>>

\* recordInboxPull, or finalizeTurn for a turn that pulled nothing
TurnRecorded ==
    /\ owner.turn
    /\ rows # <<>> => Last(rows) # Row("turn", owner.id)
    /\ Record(Row("turn", owner.id), TRUE)
    /\ UNCHANGED <<control, known, stalled, owner, created, forgotten, fencedRow, streak>>

\* turn_completed without an error: clear_stall_recovery, if there is one to clear.
\* When that cannot be saved, the session stays marked.
TurnCompletes(saved) ==
    /\ owner.turn
    /\ owner' = [owner EXCEPT !.turn = FALSE]
    /\ streak' = [streak EXCEPT !.n = 0]
    /\ IF saved /\ stalled # None
       THEN /\ control' = [control EXCEPT !.attempted = None, !.full = FALSE]
            /\ stalled' = None
       ELSE UNCHANGED <<control, stalled>>
    /\ UNCHANGED <<rows, known, created, forgotten, fencedRow>>

\* A turn that ends in an error
TurnFails ==
    /\ owner.turn
    /\ owner' = [owner EXCEPT !.turn = FALSE]
    /\ UNCHANGED <<control, rows, known, stalled, created, forgotten, fencedRow, streak>>

\* terminate_stalled, of a session that had not stalled before: recordSessionStall.
\* When that cannot be saved the termination is put off.
FirstStall(saved) ==
    /\ owner.turn /\ stalled # known
    /\ IF saved
       THEN /\ control' = [control EXCEPT !.attempted = known, !.full = FALSE]
            /\ stalled' = known
            /\ owner' = [owner EXCEPT !.phase = "stopping", !.turn = FALSE]
            /\ streak' = [streak EXCEPT !.n = @ + 1]
       ELSE /\ stalled' = None
            /\ UNCHANGED <<control, owner, streak>>
    /\ UNCHANGED <<rows, known, created, forgotten, fencedRow>>

\* ... and of one that had: forgetSession(stall_recovery).  When that cannot be saved
\* nothing changes.
SecondStall(kept) ==
    /\ owner.turn /\ stalled = known
    /\ control' = [control EXCEPT !.fenced = known, !.full = FALSE,
                                  !.attempted = IF @ = known THEN None ELSE @]
    /\ Record(Row("stall_recovery", known), kept)
    /\ known' = None /\ stalled' = None
    /\ owner' = [owner EXCEPT !.phase = "stopping", !.turn = FALSE, !.discard = TRUE]
    /\ streak' = [streak EXCEPT !.n = @ + 1]
    /\ forgotten' = forgotten \cup {known}
    /\ fencedRow' = IF kept THEN fencedRow \cup {known} ELSE fencedRow
    /\ UNCHANGED created

\* resetSession and naps.  Every session there has been is given up.
Reset(kept) ==
    /\ control' = [attempted |-> None, fenced |-> None, full |-> TRUE]
    /\ Record(Row("reset", None), kept)
    /\ known' = None /\ stalled' = None
    /\ owner' = IF owner.phase = "none" THEN owner
                ELSE [owner EXCEPT !.phase = "stopping", !.turn = FALSE, !.discard = TRUE]
    /\ forgotten' = forgotten \cup 1..created
    /\ fencedRow' = IF kept THEN fencedRow \cup 1..created ELSE fencedRow
    /\ UNCHANGED <<created, streak>>

\* The session ends: stopped, idle for too long, or crashed.
Exit ==
    /\ owner.phase # "none"
    /\ owner' = NoOwner
    /\ UNCHANGED <<control, rows, known, stalled, created, forgotten, fencedRow, streak>>

\* The daemon ends and is started again.  A crash between the two writes of a
\* transition is one whose row is not kept.
Restart ==
    /\ <<known, stalled, owner>> # <<None, None, NoOwner>>
    /\ known' = None /\ stalled' = None /\ owner' = NoOwner
    /\ UNCHANGED <<control, rows, created, forgotten, fencedRow, streak>>

Next ==
    \/ Launch \/ TurnStarts \/ TurnRecorded \/ TurnFails \/ Exit \/ Restart
    \/ \E s \in Sessions, saved \in BOOLEAN : SessionStarted(s, saved)
    \/ \E saved \in BOOLEAN : TurnCompletes(saved) \/ FirstStall(saved)
    \/ \E kept \in BOOLEAN : SecondStall(kept) \/ Reset(kept)

Spec == Init /\ [][Next]_vars
-----------------------------------------------------------------------------
(* Properties.                                                             *)

\* The types; a session that is up is the one the reducer knows.
TypeOK ==
    /\ control \in [attempted : Sessions \cup {None}, fenced : Sessions \cup {None},
                    full : BOOLEAN]
    /\ Len(rows) <= MaxRows
    /\ \A i \in DOMAIN rows : rows[i].kind \in Barriers \cup {"turn"}
    /\ {known, stalled} \subseteq Sessions \cup {None}
    /\ owner.phase = "up" => known = owner.id /\ stalled \in {None, known}
    /\ created \in Sessions \cup {None}
    /\ fencedRow \subseteq forgotten /\ forgotten \subseteq 1..created

\* A session that was given up is never resumed, by this daemon or a later one, if
\* the row of the barrier was written; the row is needed, because the control file
\* says no more once the next session has started.
ForgottenForGood == owner.phase = "launched" => owner.asked \notin fencedRow

\* ... and without the condition: the recorder calls the control file authoritative
\* and the row best-effort and forensic.  It does not hold (README, Divergences).
ControlIsEnough == owner.phase = "launched" => owner.asked \notin forgotten

\* A session that stalled twice without a turn that ended well, and without another
\* session in between, is not asked to go on: over restarts of the backend and of the
\* daemon, and whatever could not be saved.
NoThirdChance ==
    owner.phase = "launched" /\ owner.asked = streak.id => streak.n < 2

\* Nothing is forgotten by mistake: a launch resumes the session of the last turn,
\* unless that or a later one was given up.
Continues ==
    [][Launch /\ Recent.kind = "turn" /\ known = None /\ Recent.id \notin forgotten
       => owner'.asked = Recent.id]_vars
=============================================================================
