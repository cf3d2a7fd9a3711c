-------------------------- MODULE CallbackDelivery --------------------------
(***************************************************************************)
(* The delivery of terminal callbacks: callback_outbox rows and the        *)
(* callbacker processes that lease a row, POST it, and record the outcome. *)
(* The rows are created by the terminal transaction of JobKernel.          *)
(*                                                                         *)
(* One action is one transaction or one HTTP exchange.  Time is abstract:  *)
(* "due" says that next_attempt_at is NULL or past, "over" that            *)
(* lease_expires_at is past.  A lease_token is represented by the process  *)
(* it was issued to.  Crashes, leases outlived by a live holder and        *)
(* results dropped on a locked row are "faults", at most MaxFaults.        *)
(***************************************************************************)
EXTENDS Naturals

CONSTANTS
    Rows, Callbackers,
    NoRow, NoHolder,
    SettingsMax,    \* the largest CALLBACK max_delivery_attempts of any release
    MaxFaults       \* bound on injected faults

ASSUME CallbackAssumption ==
    /\ NoRow \notin Rows
    /\ NoHolder \notin Callbackers
    /\ SettingsMax \in Nat \ {0}
    /\ MaxFaults \in Nat

Settings == 1..SettingsMax

VARIABLES
    row,        \* the callback_outbox row of each terminal event
    caller,     \* what each callbacker is doing, and for which row
    settings,   \* settings.callback.max_delivery_attempts of each callbacker
    posts,      \* POST requests sent for each row
    accepted,   \* whether the receiver has accepted the event
    faults      \* faults injected so far

vars == <<row, caller, settings, posts, accepted, faults>>

Unsettled == {"pending", "retrying", "leased"}
Final     == {"delivered", "skipped", "dead_letter"}

Row == [status   : {"absent"} \cup Unsettled \cup Final,
        token    : Callbackers \cup {NoHolder},
        over     : BOOLEAN,
        due      : BOOLEAN,
        attempts : 0..SettingsMax,
        max      : Settings]

Caller == [pc      : {"idle", "peeking", "posting", "posted"},
           row     : Rows \cup {NoRow},
           outcome : {"none", "delivered", "failed", "skipped"}]

\* Types, and the CHECK constraint that ties the lease fields to "leased".
TypeOK ==
    /\ row \in [Rows -> Row]
    /\ \A r \in Rows : row[r].token = NoHolder <=> row[r].status # "leased"
    /\ caller \in [Callbackers -> Caller]
    /\ settings \in [Callbackers -> Settings]
    /\ posts \in [Rows -> Nat]
    /\ accepted \in [Rows -> BOOLEAN]
    /\ faults \in 0..MaxFaults

NoEvent == [status |-> "absent", token |-> NoHolder, over |-> FALSE,
            due |-> FALSE, attempts |-> 0, max |-> 1]

Idle == [pc |-> "idle", row |-> NoRow, outcome |-> "none"]

Init ==
    /\ row      = [r \in Rows |-> NoEvent]
    /\ caller   = [c \in Callbackers |-> Idle]
    /\ settings \in [Callbackers -> Settings]
    /\ posts    = [r \in Rows |-> 0]
    /\ accepted = [r \in Rows |-> FALSE]
    /\ faults   = 0

Fault == faults < MaxFaults /\ faults' = faults + 1

-----------------------------------------------------------------------------

\* ensure_terminal_callback_outbox: the row of the terminal event, "skipped"
\* when the caller did not subscribe to it.  A NULL next_attempt_at is due.
\* The row keeps the maximum of the release that created it.
NewRow(status, m) == [status |-> status, token |-> NoHolder, over |-> FALSE,
                      due |-> TRUE, attempts |-> 0, max |-> m]

Create(r) ==
    /\ row[r].status = "absent"
    /\ \E s \in {"pending", "skipped"}, m \in Settings :
          row' = [row EXCEPT ![r] = NewRow(s, m)]
    /\ UNCHANGED <<caller, settings, posts, accepted, faults>>

\* A new release restarts an idle callbacker with another maximum; one that is
\* stopped at work is a Crash first.
Redeploy(c) ==
    /\ caller[c].pc = "idle"
    /\ \E m \in Settings : settings' = [settings EXCEPT ![c] = m]
    /\ UNCHANGED <<row, caller, posts, accepted, faults>>

\* retry_delay_seconds pass.
Due(r) ==
    /\ row[r].status = "retrying"
    /\ ~row[r].due
    /\ row' = [row EXCEPT ![r].due = TRUE]
    /\ UNCHANGED <<caller, settings, posts, accepted, faults>>

Holds(c) ==
    LET r == caller[c].row
    IN  row[r].status = "leased" /\ row[r].token = c

Working(c) == caller[c].pc \in {"posting", "posted"}

\* The lease ends: its holder is gone, or (a fault) still at work.
LeaseOver(r) ==
    /\ row[r].status = "leased"
    /\ ~row[r].over
    /\ IF \E c \in Callbackers : Working(c) /\ caller[c].row = r /\ Holds(c)
       THEN Fault
       ELSE UNCHANGED faults
    /\ row' = [row EXCEPT ![r].over = TRUE]
    /\ UNCHANGED <<caller, settings, posts, accepted>>

-----------------------------------------------------------------------------
(* deliver_callback_for_job.                                                *)

\* Between the SELECT ... FOR UPDATE of a callbacker and its commit.
Locked(r) == \E c \in Callbackers : caller[c].pc = "peeking" /\ caller[c].row = r

\* Mutant: the status of the row is not part of the condition.
MutantSelectable(c, r) ==
    /\ row[r].status # "absent"
    /\ row[r].attempts < row[r].max
    /\ row[r].attempts < settings[c]
    /\ row[r].due \/ (row[r].status = "leased" /\ row[r].over)

\* Mutant: a leased row is left to its holder for ever.
MutantStuckSelectable(c, r) ==
    /\ row[r].status \in {"pending", "retrying"}
    /\ row[r].attempts < row[r].max
    /\ row[r].attempts < settings[c]
    /\ row[r].due

\* The condition of find_due_callbacks and mark_callback_delivering.  Leasing
\* a row leaves its next_attempt_at in the past, so a leased row satisfies it
\* whether or not the lease is over.
Selectable(c, r) ==
    /\ row[r].status \in Unsettled
    /\ row[r].attempts < row[r].max
    /\ row[r].attempts < settings[c]
    /\ row[r].due \/ (row[r].status = "leased" /\ row[r].over)

LiveLease(r) == row[r].status = "leased" /\ ~row[r].over

Lease(c, r) ==
    /\ caller[c].pc = "idle"
    /\ Selectable(c, r) /\ ~LiveLease(r) /\ ~Locked(r)
    /\ row' = [row EXCEPT ![r].status = "leased", ![r].token = c, ![r].over = FALSE]
    /\ caller' = [caller EXCEPT ![c] = [pc |-> "posting", row |-> r, outcome |-> "none"]]
    /\ UNCHANGED <<settings, posts, accepted, faults>>

\* Another callbacker finds the row under a live lease: it has locked the row
\* by then, and gives it back at its commit.
Peek(c, r) ==
    /\ caller[c].pc = "idle"
    /\ Selectable(c, r) /\ LiveLease(r) /\ ~Locked(r)
    /\ caller' = [caller EXCEPT ![c] = [pc |-> "peeking", row |-> r, outcome |-> "none"]]
    /\ UNCHANGED <<row, settings, posts, accepted, faults>>

Release(c) ==
    /\ caller[c].pc = "peeking"
    /\ caller' = [caller EXCEPT ![c] = Idle]
    /\ UNCHANGED <<row, settings, posts, accepted, faults>>

\* Mutant: a 2xx without a valid acknowledgment counts as delivered.
MutantResult(taken, answered) == IF answered THEN "delivered" ELSE "failed"

\* The result of one exchange: delivered needs a 2xx and an acknowledgment with
\* accepted = true that arrives.
Result(taken, answered) == IF taken /\ answered THEN "delivered" ELSE "failed"

\* One POST (delays = [0]); the receiver takes the event or not, and its answer
\* arrives or is lost.
Post(c) ==
    LET r == caller[c].row
    IN  /\ caller[c].pc = "posting"
        /\ posts' = [posts EXCEPT ![r] = @ + 1]
        /\ \E taken, answered \in BOOLEAN :
              /\ accepted' = [accepted EXCEPT ![r] = @ \/ taken]
              /\ caller' = [caller EXCEPT ![c].pc = "posted",
                                          ![c].outcome = Result(taken, answered)]
        /\ UNCHANGED <<row, settings, faults>>

\* The URL is refused by _validate_callback_url: nothing is sent.
RefuseUrl(c) ==
    /\ caller[c].pc = "posting"
    /\ caller' = [caller EXCEPT ![c].pc = "posted", ![c].outcome = "skipped"]
    /\ UNCHANGED <<row, settings, posts, accepted, faults>>

\* Mutant: only the setting of the process limits the attempts.
MutantExhausted(c, d, n) == n >= settings[c]

\* max_allowed_attempts = min(max_attempts, row's max_delivery_attempts)
Exhausted(c, d, n) == n >= settings[c] \/ n >= d.max

\* Mutant: a failed exchange is not counted.
MutantCounted(d, outcome) == IF outcome = "delivered" THEN d.attempts + 1 ELSE d.attempts

Counted(d, outcome) == IF outcome = "skipped" THEN d.attempts ELSE d.attempts + 1

\* Mutant: the lease fields are kept.
MutantRecorded(c, d, outcome) ==
    [d EXCEPT !.status = IF outcome = "failed" THEN "retrying" ELSE outcome,
              !.attempts = Counted(d, outcome)]

Recorded(c, d, outcome) ==
    LET n == Counted(d, outcome)
        s == IF outcome # "failed" THEN outcome
             ELSE IF Exhausted(c, d, n) THEN "dead_letter" ELSE "retrying"
    IN  [status |-> s, token |-> NoHolder, over |-> FALSE,
         due |-> s # "retrying", attempts |-> n, max |-> d.max]

\* Mutant: the lease token of the row is not compared.
MutantRecordable(c) == row[caller[c].row].status = "leased"

Recordable(c) == Holds(c)

\* mark_callback_result: skip_locked, fenced by the token; a result that finds
\* no row is dropped.
Record(c) ==
    LET r == caller[c].row
    IN  /\ caller[c].pc = "posted"
        /\ \/ /\ Recordable(c) /\ ~Locked(r)
              /\ row' = [row EXCEPT ![r] = Recorded(c, @, caller[c].outcome)]
              /\ UNCHANGED faults
           \/ /\ Recordable(c) /\ Locked(r)
              /\ Fault
              /\ UNCHANGED row
           \/ ~Recordable(c) /\ UNCHANGED <<row, faults>>
        /\ caller' = [caller EXCEPT ![c] = Idle]
        /\ UNCHANGED <<settings, posts, accepted>>

\* The process dies or the delivery raises: the row keeps its lease.
Crash(c) ==
    /\ Working(c)
    /\ Fault
    /\ caller' = [caller EXCEPT ![c] = Idle]
    /\ UNCHANGED <<row, settings, posts, accepted>>

-----------------------------------------------------------------------------

CallerStep(c) == Post(c) \/ RefuseUrl(c) \/ Record(c) \/ Release(c)

Next ==
    \/ \E r \in Rows : Create(r) \/ Due(r) \/ LeaseOver(r)
    \/ \E c \in Callbackers :
          \/ CallerStep(c) \/ Crash(c) \/ Redeploy(c)
          \/ \E r \in Rows : Lease(c, r) \/ Peek(c, r)

Spec == Init /\ [][Next]_vars

-----------------------------------------------------------------------------
(* Safety.                                                                  *)

\* A row is "delivered" only if the receiver accepted the event, whichever of
\* several callbackers recorded it and whatever answers were lost.
DeliveredWasAccepted ==
    \A r \in Rows : row[r].status = "delivered" => accepted[r]

\* A row that is not settled has attempts left of those it was created with:
\* no sequence of failures, lost leases and dropped results uses them up
\* without a dead_letter, although releases with different maxima work on it.
UnsettledHasBudget ==
    \A r \in Rows : row[r].status \in Unsettled => row[r].attempts < row[r].max

\* A POST that is missing from delivery_attempts is paid for by a fault (a
\* crash, an outlived lease, a result dropped on a locked row): without faults
\* the receiver sees at most one request per counted attempt.
UncountedPostsAreFaults ==
    \A r \in Rows :
        posts[r] <= row[r].attempts + faults
            + IF \E c \in Callbackers : caller[c].pc = "posted" /\ caller[c].row = r
                                        /\ Holds(c)
              THEN 1 ELSE 0

\* A leased row leaves "leased" only by the result of the callbacker whose
\* token it carries: a callbacker that outlived its lease changes nothing.
ResultFenced ==
    [][\A r \in Rows :
          row[r].status = "leased" /\ row'[r].status # "leased" =>
              LET c == row[r].token
              IN  /\ caller[c].row = r /\ caller[c].pc = "posted"
                  /\ caller'[c].pc = "idle"
                  /\ caller[c].outcome = "delivered" <=> row'[r].status = "delivered"]_vars

\* delivered, skipped and dead_letter are final: a late result, or a row found
\* due because its next_attempt_at is NULL, never starts the delivery again.
SettledFinal ==
    [][\A r \in Rows : row[r].status \in Final => row'[r] = row[r]]_vars

-----------------------------------------------------------------------------
(* Liveness.  The callbacker's loop runs for ever and every POST times out; *)
(* a result is dropped on a locked row only finitely often (a fault).       *)

Fairness ==
    /\ \A c \in Callbackers :
          /\ WF_vars(Post(c) \/ RefuseUrl(c))
          /\ WF_vars(Release(c))
          /\ SF_vars(Record(c))
    /\ \A r \in Rows :
          /\ WF_vars(Due(r))
          /\ WF_vars(LeaseOver(r))
          /\ SF_vars(\E c \in Callbackers : Lease(c, r))

FairSpec == Spec /\ Fairness

\* No callbacker has a maximum above the attempts already made, though the row
\* was promised more.
Overtaken(r) ==
    /\ row[r].status \in Unsettled
    /\ \A c \in Callbackers : settings[c] <= row[r].attempts

\* Every terminal event is delivered, skipped or dead-lettered in the end,
\* whichever releases come and go; a row is only stranded if every release
\* from some time on allows fewer attempts than were already made.
OnlyLoweringStrands ==
    \A r \in Rows :
        \/ <>(row[r].status \in Final)
        \/ <>[](row[r].status = "absent")
        \/ <>[]Overtaken(r)

-----------------------------------------------------------------------------
(* Documented, but not what the code does: see the finding in PROJECT.json. *)

\* docs/current/job-kernel.md: at most max_delivery_attempts deliveries.
DeliveriesWithinBudget == \A r \in Rows : posts[r] <= row[r].max
=============================================================================
