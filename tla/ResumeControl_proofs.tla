------------------------- MODULE ResumeControl_proofs -------------------------
(***************************************************************************)
(* Proofs about ResumeControl, for any number of backend sessions and      *)
(* rows of the timeline.                                                   *)
(*                                                                         *)
(* Of the timeline only its last row counts (Recent).  A launch asks for   *)
(* the session in memory or for that of the last row, so the invariant     *)
(* says of these two, and of a launch under way, that they were not given  *)
(* up behind a barrier (Barred), and that a stall which was not yet made   *)
(* up for is known to whoever may continue the session: to the control     *)
(* file, and to the reducer or to the launch (Marked).                     *)
(***************************************************************************)
EXTENDS ResumeControl, SequenceTheorems, TLAPS

Known(n)  == 0..n
RowStates == [kind : Barriers \cup {"turn"}, id : Nat]

OwnerStates ==
    [phase : {"none", "launched", "up", "stopping"}, asked : Nat, id : Nat, before : Nat,
     turn : BOOLEAN, discard : BOOLEAN]

\* The types, without the bound on the rows.
Types ==
    /\ control \in [attempted : Nat, fenced : Nat, full : BOOLEAN]
    /\ rows \in Seq(RowStates)
    /\ Len(rows) <= MaxRows
    /\ known \in Nat /\ stalled \in Nat /\ created \in Sessions \cup {None}
    /\ owner \in OwnerStates
    /\ streak \in [id : Nat, n : Nat]

\* Every session that is named anywhere was created.
Exists ==
    /\ {control.attempted, control.fenced, known, stalled, streak.id} \subseteq Known(created)
    /\ {owner.asked, owner.id, owner.before} \subseteq Known(created)
    /\ Recent.id \in Known(created)
    /\ Recent.kind = "turn" => Recent.id # None
    /\ forgotten \subseteq 1..created
    /\ fencedRow \subseteq forgotten

\* The owner, the reducer and the ghost talk of one session.
Agrees ==
    /\ owner.phase = "none" => owner = NoOwner
    /\ owner.turn => owner.phase = "up"
    /\ owner.phase = "up" => known = owner.id /\ known # None
    /\ owner.phase = "up" => ~owner.discard
    /\ known # None => known = streak.id
    /\ stalled # None => stalled = known

\* While the full barrier stands nothing goes on, and the last turn was given up.
FullBars ==
    control.full =>
        /\ known = None /\ owner.phase # "up"
        /\ owner.phase = "launched" => owner.asked = None
        /\ Recent.kind = "turn" => Recent.id \in forgotten

\* What the row of a barrier gave up is not where a launch looks.
Barred ==
    /\ known \notin fencedRow
    /\ Recent.kind = "turn" => Recent.id \notin fencedRow
    /\ owner.phase = "launched" => owner.asked \notin fencedRow

\* What a second stall gave up stays fenced, and is in the record.
Fenced ==
    /\ control.fenced # None => control.fenced \in forgotten
    /\ owner.phase = "launched" /\ owner.asked # None => owner.asked # control.fenced
    /\ owner.phase = "up" => owner.id # control.fenced

\* A session that has stalled is given up, or marked where its next launch looks.
Marked ==
  streak.n > 0 =>
    /\ streak.id # None
    /\ \/ control.full
       \/ control.fenced = streak.id
       \/ /\ streak.n = 1 /\ control.attempted = streak.id
          /\ known # None => stalled = known
          /\ owner.phase = "launched" /\ owner.asked = streak.id =>
                streak.id \in {owner.before, stalled}

Remembers == Types /\ Exists /\ Agrees /\ FullBars /\ Barred /\ Fenced /\ Marked
-----------------------------------------------------------------------------
(* The timeline.                                                           *)

Recents == [kind : Barriers \cup {"turn", "none"}, id : Nat]

\* The last row, or a row of its own kind for an empty timeline.
LEMMA RecentType ==
  ASSUME rows \in Seq(RowStates)
  PROVE  Recent \in Recents
<1>1. CASE rows = <<>>
  BY <1>1 DEF Recent, Recents, None
<1>2. CASE rows # <<>>
  <2>1. Len(rows) \in DOMAIN rows
    BY <1>2
  <2>2. rows[Len(rows)] \in RowStates
    BY <2>1
  <2> QED BY <1>2, <2>2 DEF Recent, Recents, RowStates, Last
<1> QED BY <1>1, <1>2

\* What an append that may fail does to the rows and to the last of them.
LEMMA RecordRow ==
  ASSUME rows \in Seq(RowStates), NEW row \in RowStates, NEW kept \in BOOLEAN,
         Record(row, kept), BoundsAssumption
  PROVE  /\ rows' \in Seq(RowStates) /\ Len(rows') <= MaxRows
         /\ Recent' = IF kept THEN row ELSE Recent
<1> USE DEF Record
<1>1. CASE kept
  <2>1. rows' = Append(rows, row)
    BY <1>1
  <2>2. /\ rows' \in Seq(RowStates) /\ Len(rows') = Len(rows) + 1
        /\ rows'[Len(rows) + 1] = row
    BY <2>1, AppendProperties
  <2>3. rows' # <<>>
    BY <2>2
  <2>4. Recent' = row
    BY <2>2, <2>3 DEF Recent, Last
  <2> QED BY <1>1, <2>2, <2>4 DEF BoundsAssumption
<1>2. CASE ~kept
  <2>1. rows' = rows
    BY <1>2
  <2> QED BY <1>2, <2>1 DEF Recent, BoundsAssumption
<1> QED BY <1>1, <1>2

LEMMA SameRecent == rows' = rows => Recent' = Recent
  BY DEF Recent
-----------------------------------------------------------------------------
(* The answer of a launch.                                                 *)

\* A launch resumes what is known, or the last turn, and nothing that is fenced.
LEMMA ResumedWhat ==
  ASSUME Types, Exists
  PROVE  /\ Resumed \in Nat
         /\ Resumed # None => /\ ~control.full /\ Resumed # control.fenced
                             /\ IF known # None THEN Resumed = known
                                ELSE Recent.kind = "turn" /\ Resumed = Recent.id
<1>1. Recent \in Recents
  BY RecentType DEF Types
<1> QED BY <1>1 DEF Resumed, Resolution, Types, Exists, Recents, Barriers, None

\* A launch that resumes the last turn knows its mark.
LEMMA ResumedMark ==
  ASSUME Types, Exists, Resumed # None, known = None, control.attempted = Resumed
  PROVE  Resolution.kind = "turn" /\ Resolution.mark = Resumed
<1>1. Recent \in Recents
  BY RecentType DEF Types
<1>2. ~control.full /\ Recent.kind = "turn" /\ Resumed = Recent.id
  BY ResumedWhat
<1> QED BY <1>1, <1>2 DEF Resolution, Types, Recents, None

\* The session of the last turn is resumed by a daemon that remembers nothing, unless
\* a barrier or a fence stands in the way.
LEMMA ResumesTurn ==
  ASSUME Types, Exists, ~control.full, Recent.kind = "turn", known = None,
         Recent.id # control.fenced
  PROVE  Resumed = Recent.id
  BY DEF Resumed, Resolution, Exists, None
-----------------------------------------------------------------------------
(* Steps.                                                                  *)

LEMMA InitRemembers ==
  ASSUME Init
  PROVE  Remembers
<1>1. /\ known = None /\ stalled = None /\ owner = NoOwner /\ forgotten = {} /\ fencedRow = {}
      /\ control = [attempted |-> None, fenced |-> None, full |-> FALSE]
      /\ streak = [id |-> None, n |-> 0]
  BY DEF Init
<1>2. CASE rows = <<>> /\ created = 0
  <2>1. Recent = [kind |-> "none", id |-> None]
    BY <1>2 DEF Recent
  <2>2. Len(rows) = 0
    BY <1>2
  <2>3. rows \in Seq(RowStates)
    BY <1>2
  <2> QED
    BY <1>1, <1>2, <2>1, <2>2, <2>3, BoundsAssumption
    DEF Remembers, Types, Exists, Agrees, FullBars, Barred, Fenced, Marked, NoOwner,
        OwnerStates, Known, None, Sessions
<1>3. CASE rows = <<Row("turn", 1)>> /\ created = 1
  <2>1. rows # <<>> /\ Len(rows) = 1 /\ rows[1] = Row("turn", 1)
    BY <1>3
  <2>2. Recent = Row("turn", 1)
    BY <2>1 DEF Recent, Last
  <2>3. rows \in Seq(RowStates)
    BY <1>3 DEF Row, RowStates
  <2> QED
    BY <1>1, <1>3, <2>1, <2>2, <2>3, BoundsAssumption
    DEF Remembers, Types, Exists, Agrees, FullBars, Barred, Fenced, Marked, NoOwner,
        OwnerStates, Known, None, Sessions, Row
<1> QED BY <1>1, <1>2, <1>3 DEF Init

LEMMA LaunchRemembers ==
  ASSUME Remembers, Launch
  PROVE  Remembers'
<1>1. Types /\ Exists
  BY DEF Remembers
<1>2. Recent' = Recent
  BY SameRecent DEF Launch
<1>3. UNCHANGED <<control, rows, known, stalled, created, forgotten, fencedRow, streak>>
  BY DEF Launch
<1>4. /\ owner' \in OwnerStates
      /\ owner'.phase = "launched" /\ owner'.asked = Resumed /\ owner'.id = None
      /\ owner'.before \in {None, Resumed} /\ ~owner'.turn
  BY <1>1, ResumedWhat DEF Launch, NoOwner, OwnerStates, None
<1>5. Resumed # None /\ known = None /\ control.attempted = Resumed => owner'.before = Resumed
  BY <1>1, ResumedMark DEF Launch, NoOwner
<1>6. /\ Resumed \in Nat
      /\ Resumed # None => /\ ~control.full /\ Resumed # control.fenced
                          /\ IF known # None THEN Resumed = known
                             ELSE Recent.kind = "turn" /\ Resumed = Recent.id
  BY <1>1, ResumedWhat
<1> HIDE DEF Launch
<1>7. Types'
  BY <1>1, <1>3, <1>4 DEF Types
<1>8. Exists'
  BY <1>1, <1>2, <1>3, <1>4, <1>6 DEF Exists, Types, Known, Sessions, None
<1>9. Agrees'
  BY <1>3, <1>4 DEF Agrees, Remembers
<1>10. FullBars'
  BY <1>2, <1>3, <1>4, <1>6 DEF FullBars, Remembers
<1>11. Barred'
  BY <1>1, <1>2, <1>3, <1>4, <1>6 DEF Barred, Remembers, Exists, None
<1>12. Fenced'
  BY <1>3, <1>4, <1>6 DEF Fenced, Remembers
<1>13. Marked'
  BY <1>3, <1>4, <1>5, <1>6 DEF Marked, Remembers
<1> QED BY <1>7, <1>8, <1>9, <1>10, <1>11, <1>12, <1>13 DEF Remembers

\* The session that starts is the one asked for, or one there has not been.
LEMMA StartsRemembers ==
  ASSUME Remembers, NEW s \in Sessions, NEW saved \in BOOLEAN, SessionStarted(s, saved)
  PROVE  Remembers'
<1>1. Types /\ Exists
  BY DEF Remembers
<1>2. Recent' = Recent
  BY SameRecent DEF SessionStarted
<1>3. UNCHANGED <<rows, forgotten, fencedRow>>
  BY DEF SessionStarted
<1>4. /\ owner.phase = "launched" /\ ~owner.discard /\ ~owner.turn
      /\ s \in Nat /\ s # None /\ (s = owner.asked \/ s = created + 1)
      /\ created' = IF s > created THEN s ELSE created
      /\ created \in Nat /\ created' \in Sessions \cup {None} /\ created <= created' /\ s <= created'
  BY DEF SessionStarted, Remembers, Agrees, Types, Exists, Sessions, None
<1>5. s \notin fencedRow
  BY <1>1, <1>4 DEF Remembers, Barred, Exists
<1>6. /\ \A x : x \in Known(created) => x \in Known(created')
      /\ 1..created \subseteq 1..created'
  BY <1>4 DEF Known
<1>7. CASE ~saved
  <2>1. /\ owner' = [owner EXCEPT !.phase = "stopping", !.discard = TRUE]
        /\ UNCHANGED <<control, known, stalled, streak>>
    BY <1>7 DEF SessionStarted
  <2>2. /\ owner' \in OwnerStates /\ owner'.phase = "stopping" /\ ~owner'.turn
        /\ owner'.asked = owner.asked /\ owner'.id = owner.id /\ owner'.before = owner.before
    BY <1>1, <1>4, <2>1 DEF Types, OwnerStates
  <2>3. Types'
    BY <1>1, <1>3, <1>4, <2>1, <2>2 DEF Types
  <2>4. Exists'
    BY <1>1, <1>2, <1>3, <1>6, <2>1, <2>2 DEF Exists
  <2>5. Agrees' /\ FullBars' /\ Barred' /\ Fenced'
    BY <1>2, <1>3, <2>1, <2>2 DEF Remembers, Agrees, FullBars, Barred, Fenced
  <2>6. Marked'
    BY <2>1, <2>2 DEF Remembers, Marked
  <2> QED
    BY <2>3, <2>4, <2>5, <2>6 DEF Remembers
<1>8. CASE saved
  <2>1. /\ control' = [control EXCEPT !.full = FALSE,
                                     !.attempted = IF @ = s THEN s ELSE None]
        /\ known' = s
        /\ stalled' = IF owner.before = s THEN s ELSE IF stalled = s THEN s ELSE None
        /\ owner' = [owner EXCEPT !.phase = "up", !.id = s]
        /\ streak' = IF s = streak.id THEN streak ELSE [id |-> s, n |-> 0]
    BY <1>8 DEF SessionStarted
  <2>2. /\ owner' \in OwnerStates /\ owner'.phase = "up" /\ ~owner'.turn /\ ~owner'.discard
        /\ owner'.asked = owner.asked /\ owner'.id = s /\ owner'.before = owner.before
    BY <1>1, <1>4, <2>1 DEF Types, OwnerStates
  <2>3. /\ control' \in [attempted : Nat, fenced : Nat, full : BOOLEAN]
        /\ ~control'.full /\ control'.fenced = control.fenced
        /\ control'.attempted = IF control.attempted = s THEN s ELSE None
    BY <1>1, <1>4, <2>1 DEF Types, None
  <2>4. streak' \in [id : Nat, n : Nat] /\ streak'.id = s /\ (streak'.n = 0 \/ streak' = streak)
    BY <1>1, <1>4, <2>1 DEF Types
  <2>5. Types'
    BY <1>1, <1>3, <1>4, <2>1, <2>2, <2>3, <2>4 DEF Types, None
  <2>6. Exists'
    <3>1. s \in Known(created') /\ None \in Known(created')
      BY <1>4 DEF Known, None, Sessions
    <3>2. stalled' \in Known(created')
      BY <2>1, <3>1
    <3> QED
      BY <1>1, <1>2, <1>3, <1>6, <2>1, <2>2, <2>3, <2>4, <3>1, <3>2 DEF Exists
  <2>7. Agrees'
    BY <1>4, <2>1, <2>2, <2>4 DEF Agrees, None
  <2>8. FullBars'
    BY <2>3 DEF FullBars
  <2>9. Barred'
    BY <1>2, <1>3, <1>5, <2>1, <2>2 DEF Remembers, Barred
  <2>10. s # control.fenced
    BY <1>1, <1>4 DEF Remembers, Fenced, Exists, Known, Types
  <2>11. Fenced'
    BY <1>3, <2>2, <2>3, <2>10 DEF Remembers, Fenced
  <2>12. Marked'
    <3>1. CASE streak'.n = 0
      BY <3>1 DEF Marked
    <3>2. CASE streak' = streak /\ streak.n > 0
      <4>1. streak.id = s /\ s = owner.asked
        BY <1>1, <1>4, <2>4, <3>2 DEF Exists, Known, Types
      <4>2. ~control.full
        BY <1>4, <4>1 DEF Remembers, FullBars
      <4>3. /\ streak.n = 1 /\ control.attempted = s
            /\ s \in {owner.before, stalled}
        BY <1>4, <2>10, <3>2, <4>1, <4>2 DEF Remembers, Marked
      <4> QED
        BY <1>4, <2>1, <2>2, <2>3, <3>2, <4>1, <4>3 DEF Marked
    <3> QED BY <1>1, <2>4, <3>1, <3>2 DEF Types
  <2> QED BY <2>5, <2>6, <2>7, <2>8, <2>9, <2>11, <2>12 DEF Remembers
<1> QED BY <1>7, <1>8

\* A turn that starts, fails, or completes without a stall to clear.
LEMMA TurnRemembers ==
  ASSUME Remembers, NEW b \in BOOLEAN, owner.phase = "up",
         owner' = [owner EXCEPT !.turn = b],
         UNCHANGED <<control, rows, known, stalled, created, forgotten, fencedRow>>,
         streak' = streak \/ streak' = [streak EXCEPT !.n = 0]
  PROVE  Remembers'
<1>1. Recent' = Recent
  BY SameRecent
<1>2. /\ owner' \in OwnerStates /\ owner'.phase = "up" /\ owner'.turn = b
      /\ owner'.asked = owner.asked /\ owner'.id = owner.id /\ owner'.before = owner.before
      /\ owner'.discard = owner.discard
  BY DEF Remembers, Types, OwnerStates
<1>3. /\ streak' \in [id : Nat, n : Nat] /\ streak'.id = streak.id
      /\ streak'.n = 0 \/ streak'.n = streak.n
  BY DEF Remembers, Types
<1>4. Types'
  BY <1>2, <1>3 DEF Remembers, Types
<1>5. Exists'
  BY <1>1, <1>2, <1>3 DEF Remembers, Exists
<1>6. Agrees' /\ FullBars' /\ Barred' /\ Fenced'
  BY <1>1, <1>2, <1>3 DEF Remembers, Agrees, FullBars, Barred, Fenced
<1>7. Marked'
  BY <1>2, <1>3 DEF Remembers, Marked
<1> QED BY <1>4, <1>5, <1>6, <1>7 DEF Remembers

\* The row of a turn names a session that nobody gave up.
LEMMA RecordedRemembers ==
  ASSUME Remembers, TurnRecorded
  PROVE  Remembers'
<1>1. Types /\ Exists /\ owner.phase = "up" /\ owner.turn
  BY DEF Remembers, Agrees, TurnRecorded
<1>2. owner.id = known /\ known # None
  BY <1>1 DEF Remembers, Agrees
<1>3. Row("turn", owner.id) \in RowStates
  BY <1>1 DEF Types, OwnerStates, Row, RowStates
<1>4. /\ rows' \in Seq(RowStates) /\ Len(rows') <= MaxRows
      /\ Recent' = Row("turn", owner.id)
  BY <1>1, <1>3, RecordRow, BoundsAssumption DEF TurnRecorded, Types
<1>5. Recent'.kind = "turn" /\ Recent'.id = known
  BY <1>2, <1>4 DEF Row
<1>6. UNCHANGED <<control, known, stalled, owner, created, forgotten, fencedRow, streak>>
  BY DEF TurnRecorded
<1>7. Types'
  BY <1>1, <1>4, <1>6 DEF Types
<1>8. Exists'
  BY <1>1, <1>2, <1>5, <1>6 DEF Exists
<1>9. Agrees' /\ FullBars' /\ Barred' /\ Fenced'
  BY <1>1, <1>2, <1>5, <1>6 DEF Remembers, Agrees, FullBars, Barred, Fenced
<1>10. Marked'
  BY <1>6 DEF Remembers, Marked
<1> QED BY <1>7, <1>8, <1>9, <1>10 DEF Remembers

\* A turn that ends well makes up for a stall.
LEMMA CompletesRemembers ==
  ASSUME Remembers, NEW saved \in BOOLEAN, TurnCompletes(saved)
  PROVE  Remembers'
<1>1. Types /\ Exists /\ owner.phase = "up"
  BY DEF Remembers, Agrees, TurnCompletes
<1>2. CASE ~(saved /\ stalled # None)
  BY <1>1, <1>2, TurnRemembers DEF TurnCompletes
<1>3. CASE saved /\ stalled # None
  <2>1. Recent' = Recent
    BY SameRecent DEF TurnCompletes
  <2>2. /\ UNCHANGED <<rows, known, created, forgotten, fencedRow>>
        /\ stalled' = None
        /\ streak' = [streak EXCEPT !.n = 0]
        /\ control' = [control EXCEPT !.attempted = None, !.full = FALSE]
        /\ owner' = [owner EXCEPT !.turn = FALSE]
    BY <1>3 DEF TurnCompletes
  <2>3. /\ owner' \in OwnerStates /\ owner'.phase = "up" /\ ~owner'.turn
        /\ owner'.asked = owner.asked /\ owner'.id = owner.id /\ owner'.before = owner.before
        /\ owner'.discard = owner.discard
    BY <1>1, <2>2 DEF Types, OwnerStates
  <2>4. /\ control' \in [attempted : Nat, fenced : Nat, full : BOOLEAN]
        /\ ~control'.full /\ control'.attempted = None /\ control'.fenced = control.fenced
    BY <1>1, <2>2 DEF Types, None
  <2>5. streak' \in [id : Nat, n : Nat] /\ streak'.n = 0 /\ streak'.id = streak.id
    BY <1>1, <2>2 DEF Types
  <2>6. Types'
    BY <1>1, <2>2, <2>3, <2>4, <2>5 DEF Types, None
  <2>7. None \in Known(created)
    BY <1>1 DEF Types, Known, None, Sessions
  <2>8. Exists'
    BY <1>1, <2>1, <2>2, <2>3, <2>4, <2>5, <2>7 DEF Exists
  <2>9. Agrees' /\ FullBars' /\ Barred' /\ Fenced'
    BY <1>1, <2>1, <2>2, <2>3, <2>4, <2>5
    DEF Remembers, Agrees, FullBars, Barred, Fenced
  <2>10. Marked'
    BY <2>5 DEF Marked
  <2> QED BY <2>6, <2>8, <2>9, <2>10 DEF Remembers
<1> QED BY <1>2, <1>3

\* A first stall is marked before the session is stopped, or puts it off.
LEMMA FirstStallRemembers ==
  ASSUME Remembers, NEW saved \in BOOLEAN, FirstStall(saved)
  PROVE  Remembers'
<1>1. Types /\ Exists /\ owner.phase = "up" /\ owner.turn /\ stalled # known
  BY DEF Remembers, Agrees, FirstStall
<1>2. known = owner.id /\ known = streak.id /\ known # None
  BY <1>1 DEF Remembers, Agrees
<1>3. Recent' = Recent
  BY SameRecent DEF FirstStall
<1>4. UNCHANGED <<rows, known, created, forgotten, fencedRow>>
  BY DEF FirstStall
<1>5. stalled = None /\ ~control.full /\ streak.n = 0
  BY <1>1, <1>2 DEF Remembers, Agrees, FullBars, Fenced, Marked, Types
<1>6. None \in Known(created)
  BY <1>1 DEF Types, Known, None, Sessions
<1>7. CASE ~saved
  <2>1. stalled' = None /\ UNCHANGED <<control, owner, streak>>
    BY <1>7 DEF FirstStall
  <2>2. stalled' = stalled
    BY <1>5, <2>1
  <2> QED
    BY <1>3, <1>4, <2>1, <2>2
    DEF Remembers, Types, Exists, Agrees, FullBars, Barred, Fenced, Marked
<1>8. CASE saved
  <2>1. /\ control' = [control EXCEPT !.attempted = known, !.full = FALSE]
        /\ stalled' = known
        /\ owner' = [owner EXCEPT !.phase = "stopping", !.turn = FALSE]
        /\ streak' = [streak EXCEPT !.n = @ + 1]
    BY <1>8 DEF FirstStall
  <2>2. /\ owner' \in OwnerStates /\ owner'.phase = "stopping" /\ ~owner'.turn
        /\ owner'.asked = owner.asked /\ owner'.id = owner.id /\ owner'.before = owner.before
    BY <1>1, <2>1 DEF Types, OwnerStates
  <2>3. /\ control' \in [attempted : Nat, fenced : Nat, full : BOOLEAN]
        /\ ~control'.full /\ control'.attempted = known /\ control'.fenced = control.fenced
    BY <1>1, <2>1 DEF Types
  <2>4. streak' \in [id : Nat, n : Nat] /\ streak'.n = 1 /\ streak'.id = streak.id
    BY <1>1, <1>5, <2>1 DEF Types
  <2>5. Types'
    BY <1>1, <1>4, <2>1, <2>2, <2>3, <2>4 DEF Types
  <2>6. Exists'
    BY <1>1, <1>3, <1>4, <2>1, <2>2, <2>3, <2>4 DEF Exists
  <2>7. Agrees' /\ FullBars' /\ Barred' /\ Fenced'
    BY <1>2, <1>3, <1>4, <2>1, <2>2, <2>3, <2>4
    DEF Remembers, Agrees, FullBars, Barred, Fenced
  <2>8. Marked'
    BY <1>2, <1>4, <2>1, <2>2, <2>3, <2>4 DEF Marked
  <2> QED BY <2>5, <2>6, <2>7, <2>8 DEF Remembers
<1> QED BY <1>7, <1>8

\* A second stall fences the session.
LEMMA SecondStallRemembers ==
  ASSUME Remembers, NEW kept \in BOOLEAN, SecondStall(kept)
  PROVE  Remembers'
<1>1. Types /\ Exists /\ owner.phase = "up" /\ owner.turn /\ stalled = known
  BY DEF Remembers, Agrees, SecondStall
<1>2. known = owner.id /\ known = streak.id /\ known # None /\ ~control.full
  BY <1>1 DEF Remembers, Agrees, FullBars
<1>3. /\ control' = [control EXCEPT !.fenced = known, !.full = FALSE,
                                   !.attempted = IF @ = known THEN None ELSE @]
      /\ Record(Row("stall_recovery", known), kept)
      /\ known' = None /\ stalled' = None
      /\ owner' = [owner EXCEPT !.phase = "stopping", !.turn = FALSE, !.discard = TRUE]
      /\ streak' = [streak EXCEPT !.n = @ + 1]
      /\ forgotten' = forgotten \cup {known}
      /\ fencedRow' = IF kept THEN fencedRow \cup {known} ELSE fencedRow
      /\ created' = created
  BY DEF SecondStall
<1>4. Row("stall_recovery", known) \in RowStates
  BY <1>1 DEF Types, Row, RowStates, Barriers
<1>5. /\ rows' \in Seq(RowStates) /\ Len(rows') <= MaxRows
      /\ Recent' = IF kept THEN Row("stall_recovery", known) ELSE Recent
  BY <1>1, <1>3, <1>4, RecordRow, BoundsAssumption DEF Types
<1>6. /\ kept => Recent'.kind # "turn" /\ Recent'.id = known
      /\ ~kept => Recent' = Recent
  BY <1>5 DEF Row
<1>7. /\ owner' \in OwnerStates /\ owner'.phase = "stopping" /\ ~owner'.turn
      /\ owner'.asked = owner.asked /\ owner'.id = owner.id /\ owner'.before = owner.before
  BY <1>1, <1>3 DEF Types, OwnerStates
<1>8. /\ control' \in [attempted : Nat, fenced : Nat, full : BOOLEAN]
      /\ ~control'.full /\ control'.fenced = known
      /\ control'.attempted \in {None, control.attempted}
  BY <1>1, <1>3 DEF Types, None
<1>9. streak' \in [id : Nat, n : Nat] /\ streak'.id = known
  BY <1>1, <1>2, <1>3 DEF Types
<1>10. None \in Known(created) /\ known \in 1..created /\ None \notin 1..created
  BY <1>1, <1>2 DEF Types, Exists, Known, None, Sessions
<1>11. Types'
  BY <1>1, <1>3, <1>5, <1>7, <1>8, <1>9 DEF Types, None
<1>12. Exists'
  <2>1. forgotten' \subseteq 1..created' /\ fencedRow' \subseteq forgotten'
    BY <1>1, <1>3, <1>10 DEF Exists
  <2> QED
    BY <1>1, <1>3, <1>6, <1>7, <1>8, <1>9, <1>10, <2>1 DEF Exists
<1>13. Agrees' /\ FullBars'
  BY <1>3, <1>7, <1>8 DEF Agrees, FullBars
<1>14. Barred'
  <2>1. None \notin fencedRow'
    BY <1>1, <1>3, <1>10 DEF Exists
  <2>2. Recent'.kind = "turn" => Recent'.id \notin fencedRow'
    BY <1>3, <1>6 DEF Remembers, Barred
  <2> QED BY <1>3, <1>7, <2>1, <2>2 DEF Barred
<1>15. Fenced'
  BY <1>3, <1>7, <1>8 DEF Fenced
<1>16. Marked'
  BY <1>2, <1>8, <1>9 DEF Marked
<1> QED BY <1>11, <1>12, <1>13, <1>14, <1>15, <1>16 DEF Remembers

\* A reset gives up every session, and bars the way until another one starts.
LEMMA ResetRemembers ==
  ASSUME Remembers, NEW kept \in BOOLEAN, Reset(kept)
  PROVE  Remembers'
<1>1. Types /\ Exists
  BY DEF Remembers
<1>2. /\ control' = [attempted |-> None, fenced |-> None, full |-> TRUE]
      /\ Record(Row("reset", None), kept)
      /\ known' = None /\ stalled' = None
      /\ owner' = IF owner.phase = "none" THEN owner
                  ELSE [owner EXCEPT !.phase = "stopping", !.turn = FALSE, !.discard = TRUE]
      /\ forgotten' = forgotten \cup 1..created
      /\ fencedRow' = IF kept THEN fencedRow \cup 1..created ELSE fencedRow
      /\ UNCHANGED <<created, streak>>
  BY DEF Reset
<1>3. Row("reset", None) \in RowStates
  BY DEF Row, RowStates, Barriers, None
<1>4. /\ rows' \in Seq(RowStates) /\ Len(rows') <= MaxRows
      /\ Recent' = IF kept THEN Row("reset", None) ELSE Recent
  BY <1>1, <1>2, <1>3, RecordRow, BoundsAssumption DEF Types
<1>5. /\ kept => Recent'.kind # "turn" /\ Recent'.id = None
      /\ ~kept => Recent' = Recent
  BY <1>4 DEF Row
<1>6. /\ owner' \in OwnerStates /\ owner'.phase \in {"none", "stopping"} /\ ~owner'.turn
      /\ owner'.asked = owner.asked /\ owner'.id = owner.id /\ owner'.before = owner.before
      /\ owner'.phase = "none" => owner' = NoOwner
  <2>1. CASE owner.phase = "none"
    <3>1. owner' = owner /\ owner = NoOwner
      BY <1>2, <2>1 DEF Remembers, Agrees
    <3> QED BY <1>1, <2>1, <3>1 DEF Types, NoOwner
  <2>2. CASE owner.phase # "none"
    BY <1>1, <1>2, <2>2 DEF Types, OwnerStates
  <2> QED BY <2>1, <2>2
<1>7. None \in Known(created) /\ None \notin 1..created
  BY <1>1 DEF Types, Known, None, Sessions
<1>8. Recent'.kind = "turn" => ~kept /\ Recent'.id \in 1..created
  BY <1>1, <1>5 DEF Exists, Known, None, Types, Sessions
<1>9. Types'
  BY <1>1, <1>2, <1>4, <1>6 DEF Types, None
<1>10. Exists'
  <2>1. forgotten' \subseteq 1..created' /\ fencedRow' \subseteq forgotten'
    BY <1>1, <1>2 DEF Exists
  <2> QED
    BY <1>1, <1>2, <1>5, <1>6, <1>7, <1>8, <2>1 DEF Exists
<1>11. Agrees' /\ FullBars' /\ Fenced'
  BY <1>2, <1>6, <1>8 DEF Agrees, FullBars, Fenced
<1>12. Barred'
  <2>1. None \notin fencedRow'
    BY <1>1, <1>2, <1>7 DEF Exists
  <2>2. Recent'.kind = "turn" => Recent'.id \notin fencedRow'
    BY <1>2, <1>5 DEF Remembers, Barred
  <2> QED BY <1>2, <1>6, <2>1, <2>2 DEF Barred
<1>13. Marked'
  BY <1>2 DEF Remembers, Marked
<1> QED BY <1>9, <1>10, <1>11, <1>12, <1>13 DEF Remembers

\* Nothing the next launch reads is changed by the end of a session or of the daemon.
LEMMA EndRemembers ==
  ASSUME Remembers, Exit \/ Restart
  PROVE  Remembers'
<1>1. Types /\ Exists
  BY DEF Remembers
<1>2. /\ UNCHANGED <<control, rows, created, forgotten, fencedRow, streak>>
      /\ owner' = NoOwner
      /\ \/ known' = known /\ stalled' = stalled
         \/ known' = None /\ stalled' = None
  BY DEF Exit, Restart
<1>3. Recent' = Recent
  BY <1>2, SameRecent
<1>4. /\ owner' \in OwnerStates /\ owner'.phase = "none" /\ ~owner'.turn
      /\ {owner'.asked, owner'.id, owner'.before} = {None}
  BY <1>2 DEF NoOwner, OwnerStates, None
<1>5. None \in Known(created) /\ None \notin 1..created
  BY <1>1 DEF Types, Known, None, Sessions
<1>6. Types'
  BY <1>1, <1>2, <1>4 DEF Types, None
<1>7. Exists'
  BY <1>1, <1>2, <1>3, <1>4, <1>5 DEF Exists
<1>8. Agrees' /\ FullBars' /\ Barred' /\ Fenced'
  BY <1>1, <1>2, <1>3, <1>4, <1>5
  DEF Remembers, Exists, Agrees, FullBars, Barred, Fenced
<1>9. Marked'
  BY <1>2, <1>4 DEF Remembers, Marked
<1> QED BY <1>6, <1>7, <1>8, <1>9 DEF Remembers

LEMMA NextRemembers ==
  ASSUME Remembers, [Next]_vars
  PROVE  Remembers'
<1>1. CASE TurnStarts \/ TurnFails
  <2>1. owner.phase = "up"
    BY <1>1 DEF TurnStarts, TurnFails, Remembers, Agrees
  <2> QED BY <1>1, <2>1, TurnRemembers DEF TurnStarts, TurnFails
<1>2. ASSUME NEW s \in Sessions, NEW saved \in BOOLEAN, SessionStarted(s, saved)
      PROVE  Remembers'
  BY <1>2, StartsRemembers
<1>3. ASSUME NEW saved \in BOOLEAN, TurnCompletes(saved) \/ FirstStall(saved)
      PROVE  Remembers'
  BY <1>3, CompletesRemembers, FirstStallRemembers
<1>4. ASSUME NEW kept \in BOOLEAN, SecondStall(kept) \/ Reset(kept)
      PROVE  Remembers'
  BY <1>4, SecondStallRemembers, ResetRemembers
<1>5. CASE UNCHANGED vars
  <2>1. Recent' = Recent
    BY <1>5, SameRecent DEF vars
  <2> QED
    BY <1>5, <2>1
    DEF vars, Remembers, Types, Exists, Agrees, FullBars, Barred, Fenced, Marked
<1>6. CASE Launch
  BY <1>6, LaunchRemembers
<1>7. CASE TurnRecorded
  BY <1>7, RecordedRemembers
<1>8. CASE Exit \/ Restart
  BY <1>8, EndRemembers
<1> QED
  BY <1>1, <1>2, <1>3, <1>4, <1>5, <1>6, <1>7, <1>8 DEF Next
-----------------------------------------------------------------------------
(* The properties.                                                         *)

\* The inductive invariant of the resume control.
THEOREM Inductive == Spec => []Remembers
<1>1. Init => Remembers
  BY InitRemembers
<1>2. Remembers /\ [Next]_vars => Remembers'
  BY NextRemembers
<1> QED BY <1>1, <1>2, PTL DEF Spec

\* Every reachable state has its type; a session that is up is the one the reducer knows
\* (reduceManager, doSpawn).
THEOREM TypeCorrect == Spec => []TypeOK
<1>1. Remembers => TypeOK
  <2> SUFFICES ASSUME Remembers PROVE TypeOK
    OBVIOUS
  <2>1. Known(created) = {None} \cup 1..created /\ 1..created \subseteq Sessions
    <3>1. created \in Nat /\ MaxSessions \in Nat /\ created <= MaxSessions
      BY BoundsAssumption DEF Remembers, Types, None, Sessions
    <3> QED BY <3>1 DEF Known, None, Sessions
  <2>2. control \in [attempted : Sessions \cup {None}, fenced : Sessions \cup {None},
                     full : BOOLEAN]
    BY <2>1 DEF Remembers, Types, Exists
  <2>3. {known, stalled} \subseteq Sessions \cup {None}
    BY <2>1 DEF Remembers, Exists
  <2>4. \A i \in DOMAIN rows : rows[i].kind \in Barriers \cup {"turn"}
    <3>1. rows \in Seq(RowStates)
      BY DEF Remembers, Types
    <3> TAKE i \in DOMAIN rows
    <3>2. rows[i] \in RowStates
      BY <3>1
    <3> QED BY <3>2 DEF RowStates
  <2>5. owner.phase = "up" => known = owner.id /\ stalled \in {None, known}
    BY DEF Remembers, Agrees
  <2>6. /\ Len(rows) <= MaxRows /\ created \in Sessions \cup {None}
        /\ fencedRow \subseteq forgotten /\ forgotten \subseteq 1..created
    BY DEF Remembers, Types, Exists
  <2> QED
    BY <2>2, <2>3, <2>4, <2>5, <2>6 DEF TypeOK
<1> QED BY <1>1, Inductive, PTL

\* What a reset or a second stall gave up is never resumed, by this daemon or a later
\* one, if the row of the barrier was written (doSpawn, resolveForAgent).
THEOREM StaysForgotten == Spec => []ForgottenForGood
<1>1. Remembers => ForgottenForGood
  BY DEF Remembers, Barred, ForgottenForGood
<1> QED BY <1>1, Inductive, PTL

\* A session is asked to go on after one stall, and never after a second, whatever was
\* restarted in between and could not be saved (doSpawn, setSession, forgetSession).
THEOREM TwoStallsAtMost == Spec => []NoThirdChance
<1>1. Remembers => NoThirdChance
  <2> SUFFICES ASSUME Remembers, owner.phase = "launched", owner.asked = streak.id,
                      streak.n > 0
               PROVE  streak.n < 2
    BY DEF Remembers, Types, NoThirdChance
  <2>1. streak.id # None /\ ~control.full /\ control.fenced # streak.id
    BY DEF Remembers, FullBars, Fenced, Marked
  <2> QED BY <2>1 DEF Remembers, Marked
<1> QED BY <1>1, Inductive, PTL

\* A launch by a daemon that remembers nothing resumes the session of the last turn,
\* unless that was given up (resolveForAgent, resolveResumableSession).
THEOREM NothingIsLost == Spec => Continues
<1>1. Remembers /\ [Next]_vars
      => [Launch /\ Recent.kind = "turn" /\ known = None /\ Recent.id \notin forgotten
            => owner'.asked = Recent.id]_vars
  <2> SUFFICES ASSUME Remembers, Launch, Recent.kind = "turn", known = None,
                      Recent.id \notin forgotten
               PROVE  owner'.asked = Recent.id
    OBVIOUS
  <2>1. ~control.full /\ Recent.id # control.fenced
    BY DEF Remembers, FullBars, Fenced, Exists
  <2>2. Resumed = Recent.id
    BY <2>1, ResumesTurn DEF Remembers
  <2> QED BY <2>2 DEF Launch, NoOwner
<1> QED BY <1>1, Inductive, PTL DEF Spec, Continues
=============================================================================
