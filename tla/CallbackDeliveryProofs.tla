----------------------- MODULE CallbackDeliveryProofs -----------------------
(***************************************************************************)
(* Proofs about CallbackDelivery, for any number of rows and callbackers,  *)
(* any maxima and any number of faults.                                    *)
(***************************************************************************)
EXTENDS CallbackDelivery, FiniteSets, FiniteSetTheorems, TLAPS

-----------------------------------------------------------------------------
(* The inductive invariant of the safety properties of single rows.         *)

\* A callbacker that is not idle works on a row, and has an outcome once the
\* exchange is over.
Assigned ==
    \A c \in Callbackers :
        /\ caller[c].pc # "idle" => caller[c].row \in Rows
        /\ caller[c].pc = "posted" => caller[c].outcome # "none"

\* A callbacker believes in a delivery only if the receiver accepted the event.
Believed ==
    \A c \in Callbackers :
        caller[c].pc = "posted" /\ caller[c].outcome = "delivered" =>
            accepted[caller[c].row]

Sound == TypeOK /\ Assigned /\ Believed /\ UnsettledHasBudget /\ DeliveredWasAccepted

\* What a result leaves of a leased row that had attempts left.
LEMMA RecordedRow ==
    ASSUME NEW c, NEW d \in Row, d.status = "leased", d.attempts < d.max,
           settings[c] \in Settings,
           NEW o \in {"delivered", "failed", "skipped"}
    PROVE  LET e == Recorded(c, d, o)
           IN  /\ e \in Row
               /\ e.token = NoHolder
               /\ e.status \in {"delivered", "skipped", "dead_letter", "retrying"}
               /\ e.status = "delivered" <=> o = "delivered"
               /\ e.status = "retrying" => e.attempts < e.max
               /\ e.attempts = IF o = "skipped" THEN d.attempts ELSE d.attempts + 1
<1>1. d.max \in Settings /\ d.attempts \in Nat /\ d.max \in Nat /\ d.max <= SettingsMax
    BY CallbackAssumption DEF Row, Settings
<1>2. Counted(d, o) \in 0..SettingsMax
    BY <1>1, CallbackAssumption DEF Counted
<1>3. Counted(d, o) = IF o = "skipped" THEN d.attempts ELSE d.attempts + 1
    BY DEF Counted
<1>4. ~Exhausted(c, d, Counted(d, o)) => Counted(d, o) < d.max
    BY <1>1, <1>2 DEF Exhausted, Settings
<1>. DEFINE s == IF o # "failed" THEN o
                 ELSE IF Exhausted(c, d, Counted(d, o)) THEN "dead_letter" ELSE "retrying"
<1>5. Recorded(c, d, o) = [status |-> s, token |-> NoHolder, over |-> FALSE,
                           due |-> s # "retrying", attempts |-> Counted(d, o), max |-> d.max]
    BY DEF Recorded
<1>6. s \in {"delivered", "skipped", "dead_letter", "retrying"}
    OBVIOUS
<1>7. s = "retrying" => ~Exhausted(c, d, Counted(d, o))
    OBVIOUS
<1>8. s = "delivered" <=> o = "delivered"
    OBVIOUS
<1>. HIDE DEF s
<1>. QED BY <1>1, <1>2, <1>3, <1>4, <1>5, <1>6, <1>7, <1>8 DEF Row, Unsettled, Final

LEMMA SoundInit == Init => Sound
<1>. SUFFICES ASSUME Init PROVE Sound
    OBVIOUS
<1>1. NoEvent \in Row /\ Idle \in Caller
    BY CallbackAssumption DEF NoEvent, Row, Settings, Idle, Caller
<1>2. TypeOK
    BY <1>1, CallbackAssumption DEF Init, TypeOK, NoEvent
<1>3. Assigned /\ Believed
    BY DEF Init, Assigned, Believed, Idle
<1>4. UnsettledHasBudget /\ DeliveredWasAccepted
    BY DEF Init, UnsettledHasBudget, DeliveredWasAccepted, NoEvent, Unsettled
<1>. QED BY <1>2, <1>3, <1>4 DEF Sound

\* A step that leaves the callbackers alone and changes one row, which keeps or
\* gets a fitting lease and has attempts left unless it settles.
LEMMA RowStep ==
    ASSUME Sound, NEW r \in Rows, NEW d \in Row,
           row' = [row EXCEPT ![r] = d],
           d.token = NoHolder <=> d.status # "leased",
           d.status \in Unsettled => d.attempts < d.max,
           d.status = "delivered" => accepted[r],
           UNCHANGED <<caller, settings, posts, accepted>>,
           faults' \in 0..MaxFaults
    PROVE  Sound'
<1>1. TypeOK'
    BY DEF Sound, TypeOK
<1>2. (Assigned /\ Believed)'
    BY DEF Sound, Assigned, Believed
<1>3. (UnsettledHasBudget /\ DeliveredWasAccepted)'
    BY DEF Sound, TypeOK, UnsettledHasBudget, DeliveredWasAccepted
<1>. QED BY <1>1, <1>2, <1>3 DEF Sound

\* A step that leaves the rows alone and moves one callbacker.
LEMMA CallerMove ==
    ASSUME Sound, NEW c \in Callbackers, NEW d \in Caller,
           caller' = [caller EXCEPT ![c] = d],
           d.pc # "idle" => d.row \in Rows,
           d.pc = "posted" => d.outcome # "none",
           d.pc = "posted" /\ d.outcome = "delivered" => accepted'[d.row],
           \A r \in Rows : accepted[r] => accepted'[r],
           accepted' \in [Rows -> BOOLEAN],
           posts' \in [Rows -> Nat],
           UNCHANGED <<row, settings>>,
           faults' \in 0..MaxFaults
    PROVE  Sound'
<1>1. TypeOK'
    BY DEF Sound, TypeOK
<1>2. Assigned'
    BY DEF Sound, TypeOK, Assigned
<1>3. Believed'
    <2>. SUFFICES ASSUME NEW x \in Callbackers, caller'[x].pc = "posted", caller'[x].outcome = "delivered"
                  PROVE  accepted'[caller'[x].row]
        BY DEF Believed
    <2>1. CASE x = c
        BY <2>1 DEF Sound, TypeOK
    <2>2. CASE x # c
        <3>1. caller'[x] = caller[x]
            BY <2>2 DEF Sound, TypeOK
        <3>. QED BY <3>1 DEF Sound, Believed, Assigned
    <2>. QED BY <2>1, <2>2
<1>4. (UnsettledHasBudget /\ DeliveredWasAccepted)'
    BY DEF Sound, UnsettledHasBudget, DeliveredWasAccepted
<1>. QED BY <1>1, <1>2, <1>3, <1>4 DEF Sound

LEMMA SoundStep == Sound /\ [Next]_vars => Sound'
<1>. SUFFICES ASSUME Sound, [Next]_vars, TypeOK, Assigned, Believed,
                     UnsettledHasBudget, DeliveredWasAccepted
              PROVE  Sound'
    BY DEF Sound
<1>0. faults \in 0..MaxFaults /\ (Fault => faults' \in 0..MaxFaults)
    BY CallbackAssumption DEF TypeOK, Fault
<1>1. ASSUME NEW r \in Rows, Create(r) PROVE Sound'
    <2>1. PICK s \in {"pending", "skipped"}, m \in Settings :
              row' = [row EXCEPT ![r] = NewRow(s, m)]
        BY <1>1 DEF Create
    <2>2. NewRow(s, m) \in Row /\ NewRow(s, m).token = NoHolder
        BY CallbackAssumption DEF NewRow, Row, Unsettled, Final, Settings
    <2>3. NewRow(s, m).status = s /\ NewRow(s, m).attempts < NewRow(s, m).max
        BY CallbackAssumption DEF NewRow, Settings
    <2>. QED BY <1>0, <1>1, <2>1, <2>2, <2>3, RowStep DEF Create
<1>2. ASSUME NEW r \in Rows, Due(r) PROVE Sound'
    <2>. DEFINE d == [row[r] EXCEPT !.due = TRUE]
    <2>1. row[r] \in Row /\ row' = [row EXCEPT ![r] = d]
        BY <1>2 DEF Due, TypeOK
    <2>2. d \in Row /\ d.status = row[r].status /\ d.token = row[r].token
          /\ d.attempts = row[r].attempts /\ d.max = row[r].max
        BY <2>1 DEF Row
    <2>. HIDE DEF d
    <2>3. /\ d.token = NoHolder <=> d.status # "leased"
          /\ d.status \in Unsettled => d.attempts < d.max
          /\ d.status = "delivered" => accepted[r]
        BY <2>2 DEF TypeOK, UnsettledHasBudget, DeliveredWasAccepted
    <2>4. UNCHANGED <<caller, settings, posts, accepted>> /\ faults' \in 0..MaxFaults
        BY <1>0, <1>2 DEF Due
    <2>. QED BY <2>1, <2>2, <2>3, <2>4, RowStep
<1>3. ASSUME NEW r \in Rows, LeaseOver(r) PROVE Sound'
    <2>. DEFINE d == [row[r] EXCEPT !.over = TRUE]
    <2>1. row[r] \in Row /\ row' = [row EXCEPT ![r] = d]
        BY <1>3 DEF LeaseOver, TypeOK
    <2>2. d \in Row /\ d.status = row[r].status /\ d.token = row[r].token
          /\ d.attempts = row[r].attempts /\ d.max = row[r].max
        BY <2>1 DEF Row
    <2>. HIDE DEF d
    <2>3. /\ d.token = NoHolder <=> d.status # "leased"
          /\ d.status \in Unsettled => d.attempts < d.max
          /\ d.status = "delivered" => accepted[r]
        BY <2>2 DEF TypeOK, UnsettledHasBudget, DeliveredWasAccepted
    <2>4. UNCHANGED <<caller, settings, posts, accepted>> /\ faults' \in 0..MaxFaults
        BY <1>0, <1>3 DEF LeaseOver
    <2>. QED BY <2>1, <2>2, <2>3, <2>4, RowStep
<1>4. ASSUME NEW c \in Callbackers, NEW r \in Rows, Lease(c, r) PROVE Sound'
    <2>. DEFINE e == [row[r] EXCEPT !.status = "leased", !.token = c, !.over = FALSE]
                d == [pc |-> "posting", row |-> r, outcome |-> "none"]
    <2>1. row[r] \in Row /\ row' = [row EXCEPT ![r] = e] /\ caller' = [caller EXCEPT ![c] = d]
        BY <1>4 DEF Lease, TypeOK
    <2>2. e \in Row /\ e.status = "leased" /\ e.token = c
          /\ e.attempts = row[r].attempts /\ e.max = row[r].max
        BY <2>1 DEF Row, Unsettled
    <2>3. d \in Caller
        BY DEF Caller
    <2>4. row[r].attempts < row[r].max
        BY <1>4 DEF Lease, Selectable
    <2>. HIDE DEF e
    <2>5. TypeOK'
        <3>1. row' \in [Rows -> Row] /\ caller' \in [Callbackers -> Caller]
            BY <2>1, <2>2, <2>3 DEF TypeOK
        <3>2. \A x \in Rows : row'[x].token = NoHolder <=> row'[x].status # "leased"
            BY <2>1, <2>2, CallbackAssumption DEF TypeOK
        <3>. QED BY <1>4, <3>1, <3>2 DEF Lease, TypeOK
    <2>6. Assigned' /\ Believed'
        BY <1>4, <2>1 DEF Lease, TypeOK, Assigned, Believed
    <2>7. UnsettledHasBudget' /\ DeliveredWasAccepted'
        BY <1>4, <2>1, <2>2, <2>4 DEF Lease, TypeOK, UnsettledHasBudget, DeliveredWasAccepted
    <2>. QED BY <2>5, <2>6, <2>7 DEF Sound
<1>5. ASSUME NEW c \in Callbackers, NEW r \in Rows, Peek(c, r) PROVE Sound'
    <2>1. [pc |-> "peeking", row |-> r, outcome |-> "none"] \in Caller
        BY DEF Caller
    <2>. QED BY <1>0, <1>5, <2>1, CallerMove DEF Peek, TypeOK
<1>6. ASSUME NEW c \in Callbackers, Release(c) PROVE Sound'
    <2>1. Idle \in Caller /\ Idle.pc = "idle"
        BY DEF Idle, Caller
    <2>. QED BY <1>0, <1>6, <2>1, CallerMove DEF Release, TypeOK
<1>7. ASSUME NEW c \in Callbackers, Crash(c) PROVE Sound'
    <2>1. Idle \in Caller /\ Idle.pc = "idle"
        BY DEF Idle, Caller
    <2>. QED BY <1>0, <1>7, <2>1, CallerMove DEF Crash, TypeOK
<1>8. ASSUME NEW c \in Callbackers, RefuseUrl(c) PROVE Sound'
    <2>. DEFINE d == [caller[c] EXCEPT !.pc = "posted", !.outcome = "skipped"]
    <2>1. caller[c] \in Caller /\ caller' = [caller EXCEPT ![c] = d]
        BY <1>8 DEF RefuseUrl, TypeOK
    <2>2. d \in Caller /\ d.pc = "posted" /\ d.outcome = "skipped" /\ d.row = caller[c].row
        BY <2>1 DEF Caller
    <2>3. caller[c].row \in Rows
        BY <1>8 DEF RefuseUrl, Assigned
    <2>. HIDE DEF d
    <2>. QED BY <1>0, <1>8, <2>1, <2>2, <2>3, CallerMove DEF RefuseUrl, TypeOK
<1>9. ASSUME NEW c \in Callbackers, Post(c) PROVE Sound'
    <2>1. PICK taken \in BOOLEAN, answered \in BOOLEAN :
            /\ accepted' = [accepted EXCEPT ![caller[c].row] = @ \/ taken]
            /\ caller' = [caller EXCEPT ![c].pc = "posted", ![c].outcome = Result(taken, answered)]
        BY <1>9 DEF Post
    <2>. DEFINE d == [caller[c] EXCEPT !.pc = "posted", !.outcome = Result(taken, answered)]
    <2>2. caller[c] \in Caller /\ caller' = [caller EXCEPT ![c] = d]
        BY <2>1 DEF TypeOK
    <2>3. caller[c].row \in Rows
        BY <1>9 DEF Post, Assigned
    <2>4. Result(taken, answered) \in {"delivered", "failed"}
          /\ (Result(taken, answered) = "delivered" => taken)
        BY DEF Result
    <2>5. /\ d \in Caller /\ d.pc = "posted" /\ d.row = caller[c].row
          /\ d.outcome # "none"
          /\ d.outcome = "delivered" => taken
        BY <2>2, <2>4 DEF Caller
    <2>. HIDE DEF d
    <2>6. /\ accepted' \in [Rows -> BOOLEAN]
          /\ \A r \in Rows : accepted[r] => accepted'[r]
          /\ taken => accepted'[d.row]
        BY <2>1, <2>3, <2>5 DEF TypeOK
    <2>7. posts' \in [Rows -> Nat]
        BY <1>9, <2>3 DEF Post, TypeOK
    <2>. QED BY <1>0, <1>9, <2>2, <2>3, <2>5, <2>6, <2>7, CallerMove DEF Post
<1>10. ASSUME NEW c \in Callbackers, Record(c) PROVE Sound'
    <2>. DEFINE r == caller[c].row
                o == caller[c].outcome
    <2>1. r \in Rows /\ caller[c] \in Caller /\ o \in {"delivered", "failed", "skipped"}
        BY <1>10 DEF Record, Assigned, TypeOK, Caller
    <2>2. Idle \in Caller /\ Idle.pc = "idle"
        BY DEF Idle, Caller
    <2>3. CASE Recordable(c) /\ ~Locked(r) /\ row' = [row EXCEPT ![r] = Recorded(c, @, o)]
               /\ UNCHANGED faults
        <3>. DEFINE e == Recorded(c, row[r], o)
        <3>1. row[r] \in Row /\ row[r].status = "leased" /\ row[r].attempts < row[r].max
            BY <2>1, <2>3 DEF Recordable, Holds, TypeOK, UnsettledHasBudget, Unsettled
        <3>2. settings[c] \in Settings
            BY DEF TypeOK
        <3>3. /\ e \in Row
              /\ e.token = NoHolder
              /\ e.status \in {"delivered", "skipped", "dead_letter", "retrying"}
              /\ e.status = "delivered" <=> o = "delivered"
              /\ e.status = "retrying" => e.attempts < e.max
            BY <2>1, <3>1, <3>2, RecordedRow
        <3>4. row' = [row EXCEPT ![r] = e]
            BY <2>3
        <3>5. o = "delivered" => accepted[r]
            BY <1>10 DEF Record, Believed
        <3>. HIDE DEF e
        <3>6. TypeOK'
            BY <1>10, <2>1, <2>2, <2>3, <3>3, <3>4 DEF Record, TypeOK
        <3>7. Assigned' /\ Believed'
            BY <1>10, <2>2 DEF Record, TypeOK, Assigned, Believed
        <3>8. UnsettledHasBudget'
            BY <2>1, <3>3, <3>4 DEF TypeOK, UnsettledHasBudget, Unsettled
        <3>9. DeliveredWasAccepted'
            BY <1>10, <2>1, <3>3, <3>4, <3>5 DEF Record, TypeOK, DeliveredWasAccepted
        <3>. QED BY <3>6, <3>7, <3>8, <3>9 DEF Sound
    <2>4. CASE UNCHANGED row /\ faults' \in 0..MaxFaults
        BY <1>10, <2>2, <2>4, CallerMove DEF Record, TypeOK
    <2>. QED BY <1>0, <1>10, <2>3, <2>4 DEF Record
<1>11. ASSUME NEW c \in Callbackers, Redeploy(c) PROVE Sound'
    BY <1>11 DEF Sound, Redeploy, TypeOK, Assigned, Believed, UnsettledHasBudget, DeliveredWasAccepted
<1>12. ASSUME UNCHANGED vars PROVE Sound'
    BY <1>12 DEF Sound, vars, TypeOK, Assigned, Believed, UnsettledHasBudget, DeliveredWasAccepted
<1>. QED BY <1>1, <1>2, <1>3, <1>4, <1>5, <1>6, <1>7, <1>8, <1>9, <1>10, <1>11, <1>12
     DEF Next, CallerStep

LEMMA SpecSound == Spec => []Sound
<1>. QED BY SoundInit, SoundStep, PTL DEF Spec

\* The types of the rows and callbackers, and the CHECK constraint that a row
\* carries a lease token exactly while it is leased.
THEOREM CallbackTypeCorrect == Spec => []TypeOK
<1>1. Sound => TypeOK
    BY DEF Sound
<1>. QED BY <1>1, SpecSound, PTL

\* A row recorded as delivered was accepted by the receiver, whichever of any
\* number of callbackers recorded it (mark_callback_result).
THEOREM DeliveredCorrect == Spec => []DeliveredWasAccepted
<1>1. Sound => DeliveredWasAccepted
    BY DEF Sound
<1>. QED BY <1>1, SpecSound, PTL

\* A row that is not settled has attempts left of its own maximum, whatever
\* the maxima of the releases that work on it.
THEOREM BudgetCorrect == Spec => []UnsettledHasBudget
<1>1. Sound => UnsettledHasBudget
    BY DEF Sound
<1>. QED BY <1>1, SpecSound, PTL

-----------------------------------------------------------------------------
(* A result is fenced, and a settled row stays as it is.                    *)

\* Only mark_callback_result takes a row out of "leased", for the callbacker
\* whose token the row carries.
LEMMA FenceStep ==
    ASSUME Sound, [Next]_vars, NEW r \in Rows,
           row[r].status = "leased", row'[r].status # "leased"
    PROVE  LET c == row[r].token
           IN  /\ caller[c].row = r /\ caller[c].pc = "posted"
               /\ caller'[c].pc = "idle"
               /\ caller[c].outcome = "delivered" <=> row'[r].status = "delivered"
<1>. DEFINE Goal == LET c == row[r].token
                    IN  /\ caller[c].row = r /\ caller[c].pc = "posted"
                        /\ caller'[c].pc = "idle"
                        /\ caller[c].outcome = "delivered" <=> row'[r].status = "delivered"
<1>1. row \in [Rows -> Row] /\ caller \in [Callbackers -> Caller] /\ settings \in [Callbackers -> Settings]
    BY DEF Sound, TypeOK
<1>2. ASSUME NEW x \in Rows, Create(x) \/ Due(x) \/ LeaseOver(x) PROVE FALSE
    <2>1. CASE Create(x)
        BY <1>1, <2>1 DEF Create
    <2>2. CASE Due(x)
        BY <1>1, <2>2 DEF Due
    <2>3. CASE LeaseOver(x)
        BY <1>1, <2>3 DEF LeaseOver
    <2>. QED BY <1>2, <2>1, <2>2, <2>3
<1>3. ASSUME NEW c \in Callbackers, NEW x \in Rows, Lease(c, x) \/ Peek(c, x) PROVE FALSE
    <2>1. CASE Lease(c, x)
        <3>1. x # r => row'[r] = row[r]
            BY <1>1, <2>1 DEF Lease
        <3>2. row'[x].status = "leased"
            BY <1>1, <2>1 DEF Lease
        <3>. QED BY <3>1, <3>2
    <2>2. CASE Peek(c, x)
        BY <2>2 DEF Peek
    <2>. QED BY <1>3, <2>1, <2>2
<1>4. ASSUME NEW c \in Callbackers,
             Post(c) \/ RefuseUrl(c) \/ Release(c) \/ Crash(c) \/ Redeploy(c)
      PROVE  FALSE
    BY <1>4 DEF Post, RefuseUrl, Release, Crash, Redeploy
<1>5. ASSUME NEW c \in Callbackers, Record(c) PROVE Goal
    <2>. DEFINE x == caller[c].row
                o == caller[c].outcome
                e == Recorded(c, row[x], o)
    <2>1. x \in Rows /\ o \in {"delivered", "failed", "skipped"}
        BY <1>1, <1>5 DEF Record, Sound, Assigned, Caller
    <2>2. Recordable(c) /\ row' = [row EXCEPT ![x] = e]
        BY <1>5 DEF Record
    <2>3. row[x] \in Row /\ row[x].status = "leased" /\ row[x].token = c
          /\ row[x].attempts < row[x].max /\ settings[c] \in Settings
        BY <1>1, <2>1, <2>2 DEF Recordable, Holds, Sound, UnsettledHasBudget, Unsettled
    <2>4. e.status = "delivered" <=> o = "delivered"
        BY <2>1, <2>3, RecordedRow
    <2>. HIDE DEF e
    <2>5. x = r
        BY <1>1, <2>1, <2>2
    <2>6. row'[r].status = e.status
        BY <1>1, <2>1, <2>2, <2>5
    <2>7. caller[c].pc = "posted" /\ caller'[c].pc = "idle"
        BY <1>1, <1>5 DEF Record, Idle
    <2>. QED BY <2>3, <2>4, <2>5, <2>6, <2>7
<1>6. CASE UNCHANGED vars
    BY <1>6 DEF vars
<1>. QED BY <1>2, <1>3, <1>4, <1>5, <1>6 DEF Next, CallerStep

\* A callbacker that outlived its lease changes nothing: a leased row leaves
\* "leased" only by the result of the callbacker whose token it carries.
THEOREM FencedCorrect == Spec => ResultFenced
<1>1. Sound /\ [Next]_vars =>
        \A r \in Rows :
          row[r].status = "leased" /\ row'[r].status # "leased" =>
              LET c == row[r].token
              IN  /\ caller[c].row = r /\ caller[c].pc = "posted"
                  /\ caller'[c].pc = "idle"
                  /\ caller[c].outcome = "delivered" <=> row'[r].status = "delivered"
    BY FenceStep
<1>. QED BY <1>1, SpecSound, PTL DEF Spec, ResultFenced

LEMMA FinalStep ==
    ASSUME Sound, [Next]_vars, NEW r \in Rows, row[r].status \in Final
    PROVE  row'[r] = row[r]
<1>1. row \in [Rows -> Row] /\ row[r].status \notin {"absent", "pending", "retrying", "leased"}
    BY DEF Sound, TypeOK, Final
<1>2. ASSUME NEW x \in Rows, Create(x) \/ Due(x) \/ LeaseOver(x) PROVE row'[r] = row[r]
    <2>1. x # r
        BY <1>1, <1>2 DEF Create, Due, LeaseOver
    <2>2. CASE Create(x)
        BY <1>1, <2>1, <2>2 DEF Create
    <2>3. CASE Due(x)
        BY <1>1, <2>1, <2>3 DEF Due
    <2>4. CASE LeaseOver(x)
        BY <1>1, <2>1, <2>4 DEF LeaseOver
    <2>. QED BY <1>2, <2>2, <2>3, <2>4
<1>3. ASSUME NEW c \in Callbackers, NEW x \in Rows, Lease(c, x) \/ Peek(c, x)
      PROVE  row'[r] = row[r]
    BY <1>1, <1>3 DEF Lease, Peek, Selectable, Unsettled
<1>4. ASSUME NEW c \in Callbackers,
             Post(c) \/ RefuseUrl(c) \/ Release(c) \/ Crash(c) \/ Redeploy(c)
      PROVE  row'[r] = row[r]
    BY <1>4 DEF Post, RefuseUrl, Release, Crash, Redeploy
<1>5. ASSUME NEW c \in Callbackers, Record(c) PROVE row'[r] = row[r]
    BY <1>1, <1>5 DEF Record, Recordable, Holds
<1>6. CASE UNCHANGED vars
    BY <1>6 DEF vars
<1>. QED BY <1>2, <1>3, <1>4, <1>5, <1>6 DEF Next, CallerStep

\* delivered, skipped and dead_letter are final for any number of callbackers.
THEOREM SettledCorrect == Spec => SettledFinal
<1>1. Sound /\ [Next]_vars =>
        \A r \in Rows : row[r].status \in Final => row'[r] = row[r]
    BY FinalStep
<1>. QED BY <1>1, SpecSound, PTL DEF Spec, SettledFinal

-----------------------------------------------------------------------------
(* Every POST that delivery_attempts does not count was paid for.           *)

\* Callbackers about to POST for a row whose lease is no longer theirs.
Strays(r) ==
    {c \in Callbackers : caller[c].pc = "posting" /\ caller[c].row = r /\ ~Holds(c)}

\* The holder of the row's token is at work on it.
HolderWorks(r) == \E c \in Callbackers : Working(c) /\ caller[c].row = r /\ Holds(c)

\* The lease of a callbacker at work is over, and nobody has taken the row yet.
Lapsed(r) == row[r].over /\ HolderWorks(r)

\* The holder has sent its request and not recorded it yet.
Sent(r) ==
    \E c \in Callbackers : /\ caller[c].pc = "posted" /\ caller[c].row = r /\ Holds(c)
                           /\ caller[c].outcome # "skipped"

One(b) == IF b THEN 1 ELSE 0

Paid(r) ==
    /\ row[r].status = "absent" => row[r].attempts = 0
    /\ IsFiniteSet(Strays(r))
    /\ posts[r] + Cardinality(Strays(r)) + One(Lapsed(r))
          <= row[r].attempts + faults + One(Sent(r))

AllPaid == \A r \in Rows : Paid(r)

LEMMA PaidInit == Init => AllPaid
<1>. SUFFICES ASSUME Init, NEW r \in Rows PROVE Paid(r)
    BY DEF AllPaid
<1>1. Strays(r) = {} /\ ~Lapsed(r) /\ ~Sent(r)
    BY DEF Init, Idle, Strays, Lapsed, HolderWorks, Working, Sent
<1>2. IsFiniteSet({}) /\ Cardinality({}) = 0
    BY FS_EmptySet
<1>3. row[r].attempts = 0 /\ posts[r] = 0 /\ faults = 0
    BY DEF Init, NoEvent
<1>. QED BY <1>1, <1>2, <1>3 DEF Paid, One

\* The account of a row only changes by the steps that concern it.
LEMMA PaidElsewhere ==
    ASSUME NEW r \in Rows, Paid(r), Sound, Sound',
           row'[r] = row[r], posts'[r] = posts[r],
           faults' = faults \/ faults' = faults + 1,
           \A c \in Callbackers :
               \/ caller'[c] = caller[c]
               \/ /\ ~(Working(c) /\ caller[c].row = r)
                  /\ ~(Working(c) /\ caller[c].row = r)'
    PROVE  Paid(r)'
<1>1. Strays(r)' = Strays(r)
    BY DEF Strays, Holds, Working
<1>2. Lapsed(r)' <=> Lapsed(r)
    BY DEF Lapsed, HolderWorks, Holds, Working
<1>3. Sent(r)' <=> Sent(r)
    BY DEF Sent, Holds, Working
<1>4. /\ posts[r] \in Nat /\ faults \in Nat /\ row[r].attempts \in Nat
      /\ IsFiniteSet(Strays(r)) => Cardinality(Strays(r)) \in Nat
    BY FS_CardinalityType DEF Sound, TypeOK, Row
<1>. QED BY <1>1, <1>2, <1>3, <1>4 DEF Paid, One

\* The terms of the account are numbers.
LEMMA Numbers ==
    ASSUME Sound, NEW r \in Rows, Paid(r)
    PROVE  /\ posts[r] \in Nat /\ faults \in Nat /\ row[r].attempts \in Nat
           /\ row[r] \in Row /\ IsFiniteSet(Strays(r)) /\ Cardinality(Strays(r)) \in Nat
           /\ One(Lapsed(r)) \in {0, 1} /\ One(Sent(r)) \in {0, 1}
BY FS_CardinalityType DEF Sound, TypeOK, Row, Paid, One

\* One callbacker at most holds a row.
LEMMA OneHolder ==
    ASSUME NEW c \in Callbackers, NEW d \in Callbackers,
           Holds(c), Holds(d), caller[c].row = caller[d].row
    PROVE  c = d
BY DEF Holds

\* A step on an unleased row that does not lease it.
LEMMA PaidUnleased ==
    ASSUME NEW r \in Rows, Paid(r), Sound, Sound',
           row[r].status # "leased", row'[r].status \notin {"leased", "absent"},
           row'[r].attempts = row[r].attempts,
           UNCHANGED <<caller, posts, faults>>
    PROVE  Paid(r)'
<1>1. Strays(r)' = Strays(r)
    BY DEF Strays, Holds
<1>2. ~Lapsed(r) /\ ~Lapsed(r)' /\ ~Sent(r) /\ ~Sent(r)'
    BY DEF Lapsed, HolderWorks, Sent, Holds
<1>. QED BY <1>1, <1>2, Numbers DEF Paid, One

LEMMA PaidLeaseOver ==
    ASSUME NEW r \in Rows, Paid(r), Sound, Sound', LeaseOver(r)
    PROVE  Paid(r)'
<1>1. row[r] \in Row /\ row' = [row EXCEPT ![r].over = TRUE] /\ row \in [Rows -> Row]
    BY DEF LeaseOver, Sound, TypeOK
<1>2. /\ row'[r].status = "leased" /\ row[r].status = "leased" /\ row'[r].over /\ ~row[r].over
      /\ row'[r].token = row[r].token /\ row'[r].attempts = row[r].attempts
    BY <1>1 DEF LeaseOver, Row
<1>3. caller' = caller /\ posts' = posts
    BY DEF LeaseOver
<1>4. Strays(r)' = Strays(r) /\ (Sent(r)' <=> Sent(r)) /\ (HolderWorks(r)' <=> HolderWorks(r))
    BY <1>2, <1>3 DEF Strays, Sent, HolderWorks, Working, Holds
<1>5. faults' = faults + 1 \/ (faults' = faults /\ ~HolderWorks(r))
    BY DEF LeaseOver, Fault, HolderWorks
<1>6. ~Lapsed(r) /\ (Lapsed(r)' <=> HolderWorks(r))
    BY <1>2, <1>4 DEF Lapsed
<1>. QED BY <1>2, <1>3, <1>4, <1>5, <1>6, Numbers DEF Paid, One

LEMMA PaidLease ==
    ASSUME NEW r \in Rows, NEW c \in Callbackers, Paid(r), Sound, Sound', Lease(c, r)
    PROVE  Paid(r)'
<1>1. row \in [Rows -> Row] /\ caller \in [Callbackers -> Caller]
    BY DEF Sound, TypeOK
<1>2. /\ row'[r].status = "leased" /\ row'[r].token = c /\ ~row'[r].over
      /\ row'[r].attempts = row[r].attempts
    BY <1>1 DEF Lease, Row
<1>3. /\ caller[c].pc = "idle" /\ caller'[c].pc = "posting" /\ caller'[c].row = r
      /\ \A x \in Callbackers : x # c => caller'[x] = caller[x]
    BY <1>1 DEF Lease
<1>4. ~Lapsed(r)' /\ ~Sent(r)'
    BY <1>2, <1>3 DEF Lapsed, Sent, Holds
<1>5. posts' = posts /\ faults' = faults
    BY DEF Lease
<1>6. row[r].status = "leased" => row[r].over
    BY DEF Lease, LiveLease
<1>7. CASE HolderWorks(r)
    <2>1. PICK t \in Callbackers : Working(t) /\ caller[t].row = r /\ Holds(t)
        BY <1>7 DEF HolderWorks
    <2>2. t # c /\ Lapsed(r)
        BY <1>3, <1>6, <1>7, <2>1 DEF Working, Lapsed, Holds
    <2>3. CASE caller[t].pc = "posting"
        <3>1. Strays(r)' = Strays(r) \cup {t} /\ t \notin Strays(r)
            BY <1>2, <1>3, <2>1, <2>2, <2>3 DEF Strays, Holds
        <3>2. ~Sent(r)
            BY <2>1, <2>3 DEF Sent, Holds
        <3>3. IsFiniteSet(Strays(r)') /\ Cardinality(Strays(r)') = Cardinality(Strays(r)) + 1
            BY <3>1, Numbers, FS_AddElement
        <3>. QED BY <1>2, <1>4, <1>5, <2>2, <3>2, <3>3, Numbers DEF Paid, One
    <2>4. CASE caller[t].pc = "posted"
        <3>1. Strays(r)' = Strays(r)
            BY <1>2, <1>3, <2>1, <2>2, <2>4 DEF Strays, Holds
        <3>. QED BY <1>2, <1>4, <1>5, <2>2, <3>1, Numbers DEF Paid, One
    <2>. QED BY <2>1, <2>3, <2>4 DEF Working
<1>8. CASE ~HolderWorks(r)
    <2>1. ~Lapsed(r) /\ ~Sent(r)
        BY <1>8 DEF Lapsed, HolderWorks, Sent, Working
    <2>2. Strays(r)' = Strays(r)
        BY <1>2, <1>3, <1>8 DEF Strays, HolderWorks, Working, Holds
    <2>. QED BY <1>2, <1>4, <1>5, <2>1, <2>2, Numbers DEF Paid, One
<1>. QED BY <1>7, <1>8

\* A callbacker ends its POST, or sends nothing: posts grows by n.
LEMMA PaidPosted ==
    ASSUME NEW c \in Callbackers, NEW r \in Rows, NEW n \in {0, 1},
           Paid(r), Sound, Sound', r = caller[c].row,
           caller[c].pc = "posting", caller'[c].pc = "posted", caller'[c].row = r,
           n = 1 => caller'[c].outcome # "skipped",
           \A x \in Callbackers : x # c => caller'[x] = caller[x],
           posts'[r] = posts[r] + n,
           UNCHANGED <<row, faults>>
    PROVE  Paid(r)'
<1>1. CASE Holds(c)
    <2>1. \A x \in Callbackers : Holds(x) /\ caller[x].row = r => x = c
        BY <1>1, OneHolder
    <2>2. ~Sent(r) /\ (n = 1 => Sent(r)')
        BY <1>1, <2>1 DEF Sent, Holds
    <2>3. Strays(r)' = Strays(r)
        BY <1>1 DEF Strays, Holds
    <2>4. Lapsed(r)' <=> Lapsed(r)
        BY <1>1, <2>1 DEF Lapsed, HolderWorks, Working, Holds
    <2>. QED BY <2>2, <2>3, <2>4, Numbers DEF Paid, One
<1>2. CASE ~Holds(c)
    <2>1. Strays(r)' = Strays(r) \ {c} /\ c \in Strays(r)
        BY <1>2 DEF Strays, Holds
    <2>2. IsFiniteSet(Strays(r)') /\ Cardinality(Strays(r)') = Cardinality(Strays(r)) - 1
        BY <2>1, Numbers, FS_RemoveElement
    <2>3. (Sent(r)' <=> Sent(r)) /\ (Lapsed(r)' <=> Lapsed(r))
        BY <1>2 DEF Sent, Lapsed, HolderWorks, Working, Holds
    <2>. QED BY <2>2, <2>3, Numbers DEF Paid, One
<1>. QED BY <1>1, <1>2

\* A callbacker gives up its work, and a fault pays for it.
LEMMA PaidLost ==
    ASSUME NEW c \in Callbackers, NEW r \in Rows, Paid(r), Sound, Sound',
           caller'[c].pc = "idle",
           \A x \in Callbackers : x # c => caller'[x] = caller[x],
           faults' = faults + 1,
           UNCHANGED <<row, posts>>
    PROVE  Paid(r)'
<1>1. Strays(r)' \in SUBSET Strays(r)
    BY DEF Strays, Holds
<1>2. IsFiniteSet(Strays(r)') /\ Cardinality(Strays(r)') <= Cardinality(Strays(r))
    BY <1>1, Numbers, FS_Subset
<1>3. Cardinality(Strays(r)') \in Nat
    BY <1>2, FS_CardinalityType
<1>4. Lapsed(r)' => Lapsed(r)
    BY DEF Lapsed, HolderWorks, Working, Holds
<1>. QED BY <1>2, <1>3, <1>4, Numbers DEF Paid, One

\* mark_callback_result counts what its callbacker sent.
LEMMA PaidRecorded ==
    ASSUME NEW c \in Callbackers, NEW r \in Rows, Paid(r), Sound, Sound',
           r = caller[c].row, caller[c].pc = "posted", Holds(c),
           row' = [row EXCEPT ![r] = Recorded(c, @, caller[c].outcome)],
           caller' = [caller EXCEPT ![c] = Idle],
           UNCHANGED <<posts, faults>>
    PROVE  Paid(r)'
<1>1. /\ row \in [Rows -> Row] /\ caller \in [Callbackers -> Caller]
      /\ settings[c] \in Settings
    BY DEF Sound, TypeOK
<1>. DEFINE o == caller[c].outcome
            e == Recorded(c, row[r], o)
<1>2. o \in {"delivered", "failed", "skipped"}
    BY <1>1 DEF Sound, Assigned, Caller
<1>3. row[r].status = "leased" /\ row[r].token = c /\ row[r].attempts < row[r].max
    BY DEF Holds, Sound, UnsettledHasBudget, Unsettled
<1>4. /\ e.status \in {"delivered", "skipped", "dead_letter", "retrying"}
      /\ e.attempts = IF o = "skipped" THEN row[r].attempts ELSE row[r].attempts + 1
    BY <1>1, <1>2, <1>3, RecordedRow
<1>5. row'[r] = e
    BY <1>1
<1>. HIDE DEF e
<1>6. ~Lapsed(r)' /\ ~Sent(r)'
    BY <1>4, <1>5 DEF Lapsed, HolderWorks, Sent, Holds
<1>7. Sent(r) => o # "skipped"
    BY <1>3 DEF Sent, Holds
<1>8. Strays(r)' = Strays(r)
    <2>1. \A x \in Callbackers : x # c => caller'[x] = caller[x]
        BY <1>1
    <2>2. caller'[c].pc = "idle"
        BY <1>1 DEF Idle
    <2>3. \A x \in Callbackers : x # c /\ caller[x].row = r => ~Holds(x)
        BY <1>3 DEF Holds
    <2>4. \A x \in Callbackers : caller'[x].row = r => ~Holds(x)'
        BY <1>4, <1>5 DEF Holds
    <2>. QED BY <2>1, <2>2, <2>3, <2>4 DEF Strays
<1>. QED BY <1>4, <1>5, <1>6, <1>7, <1>8, Numbers DEF Paid, One

\* A result that is not recordable leaves the account alone.
LEMMA PaidDropped ==
    ASSUME NEW c \in Callbackers, NEW r \in Rows, Paid(r), Sound, Sound',
           caller[c].pc = "posted", ~Holds(c), caller'[c].pc = "idle",
           \A x \in Callbackers : x # c => caller'[x] = caller[x],
           UNCHANGED <<row, posts, faults>>
    PROVE  Paid(r)'
<1>1. Strays(r)' = Strays(r)
    BY DEF Strays, Holds
<1>2. (Sent(r)' <=> Sent(r)) /\ (Lapsed(r)' <=> Lapsed(r))
    BY DEF Sent, Lapsed, HolderWorks, Working, Holds
<1>. QED BY <1>1, <1>2, Numbers DEF Paid, One

LEMMA PaidStep == Sound /\ AllPaid /\ [Next]_vars => AllPaid'
<1>. SUFFICES ASSUME Sound, AllPaid, [Next]_vars, NEW r \in Rows PROVE Paid(r)'
    BY DEF AllPaid
<1>0. Sound' /\ Paid(r)
    BY SoundStep DEF AllPaid
<1>1. /\ row \in [Rows -> Row] /\ caller \in [Callbackers -> Caller]
      /\ posts \in [Rows -> Nat]
    BY DEF Sound, TypeOK
<1>2. ASSUME NEW x \in Rows, Create(x) PROVE Paid(r)'
    <2>1. CASE x = r
        BY <1>0, <1>1, <1>2, <2>1, PaidUnleased DEF Create, NewRow, Paid
    <2>2. CASE x # r
        BY <1>0, <1>1, <1>2, <2>2, PaidElsewhere DEF Create
    <2>. QED BY <2>1, <2>2
<1>3. ASSUME NEW x \in Rows, Due(x) PROVE Paid(r)'
    <2>1. CASE x = r
        <3>1. row'[r].status = "retrying" /\ row[r].status = "retrying"
              /\ row'[r].attempts = row[r].attempts
            BY <1>1, <1>3, <2>1 DEF Due, Row
        <3>. QED BY <1>0, <1>3, <3>1, PaidUnleased DEF Due
    <2>2. CASE x # r
        BY <1>0, <1>1, <1>3, <2>2, PaidElsewhere DEF Due
    <2>. QED BY <2>1, <2>2
<1>4. ASSUME NEW x \in Rows, LeaseOver(x) PROVE Paid(r)'
    <2>1. CASE x = r
        BY <1>0, <1>4, <2>1, PaidLeaseOver
    <2>2. CASE x # r
        <3>1. row'[r] = row[r] /\ (faults' = faults \/ faults' = faults + 1)
            BY <1>1, <1>4, <2>2 DEF LeaseOver, Fault
        <3>. QED BY <1>0, <1>4, <3>1, PaidElsewhere DEF LeaseOver
    <2>. QED BY <2>1, <2>2
<1>5. ASSUME NEW c \in Callbackers, NEW x \in Rows, Lease(c, x) PROVE Paid(r)'
    <2>1. CASE x = r
        BY <1>0, <1>5, <2>1, PaidLease
    <2>2. CASE x # r
        <3>1. row'[r] = row[r] /\ posts' = posts /\ faults' = faults
            BY <1>1, <1>5, <2>2 DEF Lease
        <3>2. \A y \in Callbackers : y # c => caller'[y] = caller[y]
            BY <1>1, <1>5 DEF Lease
        <3>3. caller[c].pc = "idle" /\ caller'[c].row = x
            BY <1>1, <1>5 DEF Lease
        <3>. QED BY <1>0, <2>2, <3>1, <3>2, <3>3, PaidElsewhere DEF Working
    <2>. QED BY <2>1, <2>2
<1>6. ASSUME NEW c \in Callbackers, NEW x \in Rows, Peek(c, x) PROVE Paid(r)'
    <2>1. row' = row /\ posts' = posts /\ faults' = faults
        BY <1>6 DEF Peek
    <2>2. /\ \A y \in Callbackers : y # c => caller'[y] = caller[y]
          /\ caller[c].pc = "idle" /\ caller'[c].pc = "peeking"
        BY <1>1, <1>6 DEF Peek
    <2>. QED BY <1>0, <2>1, <2>2, PaidElsewhere DEF Working
<1>7. ASSUME NEW c \in Callbackers, Release(c) PROVE Paid(r)'
    <2>1. row' = row /\ posts' = posts /\ faults' = faults
        BY <1>7 DEF Release
    <2>2. /\ \A y \in Callbackers : y # c => caller'[y] = caller[y]
          /\ caller[c].pc = "peeking" /\ caller'[c].pc = "idle"
        BY <1>1, <1>7 DEF Release, Idle
    <2>. QED BY <1>0, <2>1, <2>2, PaidElsewhere DEF Working
<1>8. ASSUME NEW c \in Callbackers, Post(c) \/ RefuseUrl(c) PROVE Paid(r)'
    <2>. DEFINE x == caller[c].row
    <2>1. x \in Rows /\ caller[c] \in Caller /\ caller[c].pc = "posting"
        BY <1>1, <1>8 DEF Post, RefuseUrl, Sound, Assigned
    <2>2. row' = row /\ faults' = faults
        BY <1>8 DEF Post, RefuseUrl
    <2>3. /\ \A y \in Callbackers : y # c => caller'[y] = caller[y]
          /\ caller'[c].pc = "posted" /\ caller'[c].row = x
        <3>1. CASE Post(c)
            BY <1>1, <2>1, <3>1 DEF Post, Caller
        <3>2. CASE RefuseUrl(c)
            BY <1>1, <2>1, <3>2 DEF RefuseUrl, Caller
        <3>. QED BY <1>8, <3>1, <3>2
    <2>4. \/ posts' = [posts EXCEPT ![x] = @ + 1] /\ caller'[c].outcome # "skipped"
          \/ posts' = posts
        <3>1. CASE Post(c)
            BY <1>1, <2>1, <3>1 DEF Post, Caller, Result
        <3>2. CASE RefuseUrl(c)
            BY <3>2 DEF RefuseUrl
        <3>. QED BY <1>8, <3>1, <3>2
    <2>5. CASE x = r
        <3>1. CASE posts' = [posts EXCEPT ![x] = @ + 1] /\ caller'[c].outcome # "skipped"
            <4>1. posts'[r] = posts[r] + 1
                BY <1>1, <2>5, <3>1
            <4>. QED BY <1>0, <2>1, <2>2, <2>3, <2>5, <3>1, <4>1, PaidPosted
        <3>2. CASE posts' = posts
            <4>1. posts'[r] = posts[r] + 0
                BY <1>1, <3>2
            <4>. QED BY <1>0, <2>1, <2>2, <2>3, <2>5, <4>1, PaidPosted
        <3>. QED BY <2>4, <3>1, <3>2
    <2>6. CASE x # r
        <3>1. posts'[r] = posts[r]
            BY <1>1, <2>4, <2>6
        <3>. QED BY <1>0, <2>2, <2>3, <2>6, <3>1, PaidElsewhere
    <2>. QED BY <2>5, <2>6
<1>9. ASSUME NEW c \in Callbackers, Crash(c) PROVE Paid(r)'
    <2>1. row' = row /\ posts' = posts /\ faults' = faults + 1
        BY <1>9 DEF Crash, Fault
    <2>2. /\ \A y \in Callbackers : y # c => caller'[y] = caller[y]
          /\ caller'[c].pc = "idle"
        BY <1>1, <1>9 DEF Crash, Idle
    <2>. QED BY <1>0, <2>1, <2>2, PaidLost
<1>10. ASSUME NEW c \in Callbackers, Record(c) PROVE Paid(r)'
    <2>. DEFINE x == caller[c].row
    <2>1. x \in Rows /\ caller[c].pc = "posted"
        BY <1>10 DEF Record, Sound, Assigned
    <2>2. /\ \A y \in Callbackers : y # c => caller'[y] = caller[y]
          /\ caller'[c].pc = "idle" /\ posts' = posts
          /\ caller' = [caller EXCEPT ![c] = Idle]
        BY <1>1, <1>10 DEF Record, Idle
    <2>3. CASE Recordable(c) /\ ~Locked(x) /\ UNCHANGED faults
               /\ row' = [row EXCEPT ![x] = Recorded(c, @, caller[c].outcome)]
        <3>1. CASE x = r
            BY <1>0, <2>1, <2>2, <2>3, <3>1, PaidRecorded DEF Recordable
        <3>2. CASE x # r
            <4>1. row'[r] = row[r]
                BY <1>1, <2>3, <3>2
            <4>. QED BY <1>0, <2>2, <2>3, <3>2, <4>1, PaidElsewhere DEF Working
        <3>. QED BY <3>1, <3>2
    <2>4. CASE Fault /\ UNCHANGED row
        BY <1>0, <2>2, <2>4, PaidLost DEF Fault
    <2>5. CASE ~Recordable(c) /\ UNCHANGED <<row, faults>>
        BY <1>0, <2>1, <2>2, <2>5, PaidDropped DEF Recordable
    <2>. QED BY <1>10, <2>3, <2>4, <2>5 DEF Record
<1>11. ASSUME NEW c \in Callbackers, Redeploy(c) PROVE Paid(r)'
    BY <1>0, <1>11, PaidElsewhere DEF Redeploy
<1>12. CASE UNCHANGED vars
    BY <1>0, <1>12, PaidElsewhere DEF vars
<1>. QED BY <1>2, <1>3, <1>4, <1>5, <1>6, <1>7, <1>8, <1>9, <1>10, <1>11, <1>12
     DEF Next, CallerStep

\* The receiver sees at most one request per counted attempt and fault, and the
\* one whose result is about to be recorded.
THEOREM UncountedCorrect == Spec => []UncountedPostsAreFaults
<1>1. Sound /\ AllPaid => UncountedPostsAreFaults
    <2>. SUFFICES ASSUME Sound, AllPaid, NEW r \in Rows
                  PROVE  posts[r] <= row[r].attempts + faults
                            + IF \E c \in Callbackers : caller[c].pc = "posted" /\ caller[c].row = r
                                                        /\ Holds(c)
                              THEN 1 ELSE 0
        BY DEF UncountedPostsAreFaults
    <2>1. Paid(r)
        BY DEF AllPaid
    <2>2. Sent(r) => \E c \in Callbackers : caller[c].pc = "posted" /\ caller[c].row = r /\ Holds(c)
        BY DEF Sent
    <2>. QED BY <2>1, <2>2, Numbers DEF Paid, One
<1>2. Spec => []AllPaid
    BY SpecSound, PaidInit, PaidStep, PTL DEF Spec
<1>. QED BY <1>1, <1>2, SpecSound, PTL
=============================================================================
