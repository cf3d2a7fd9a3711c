----------------------------- MODULE JobKernel -----------------------------
(***************************************************************************)
(* The execution kernel of a Job: job_aggregates, job_execution_attempts,  *)
(* dispatch_outbox and the terminal rows of callback_outbox, and the       *)
(* processes that write them: API (Submit), dispatcher, Taskiq broker,     *)
(* worker, reconciler and the job-ops operator.                            *)
(*                                                                         *)
(* One action is one database transaction (or one broker call).  Time is   *)
(* abstract: "due" says that next_attempt_at, or the lease of the dispatch *)
(* row, has passed; a live attempt lease may expire at any moment.         *)
(* A lease_token (a fresh uuid) is represented by the process it was       *)
(* issued to, which keeps at most one token at a time.                     *)
(* Every row is locked FOR UPDATE SKIP LOCKED: a row that another session  *)
(* holds looks absent.  Such misses, crashes, duplicated messages and      *)
(* operator replays are "faults", at most MaxFaults in a behaviour.        *)
(***************************************************************************)
EXTENDS Naturals

CONSTANTS
    Jobs, Workers, Publishers,
    NoJob, NoHolder,    \* target of an idle process; token of a row not leased
    MaxAttempts,        \* policy_max_attempts of the job_type
    RetryableCodes,     \* policy_retryable_error_codes of the job_type
    MaxPublish,         \* dispatch_max_publish_attempts
    MaxFaults           \* bound on injected faults

ErrorCodes == {"JOB_TIMEOUT", "MODEL_CALL_FAILED", "JOB_EXECUTION_FAILED",
               "JOB_STATE_TRANSITION_CONFLICT"}

ASSUME KernelAssumption ==
    /\ NoJob \notin Jobs
    /\ NoHolder \notin Workers \cup Publishers
    /\ MaxAttempts \in Nat \ {0}
    /\ MaxPublish \in Nat \ {0}
    /\ MaxFaults \in Nat
    /\ RetryableCodes \subseteq ErrorCodes

AttemptNos == 1..MaxAttempts

VARIABLES
    status,     \* job_aggregates.status; "absent" before the Job is submitted
    active,     \* purpose_attempt_no of active_attempt_id, 0 for NULL
    attempt,    \* the retry chain of each Job: attempt[j][n]; "none": no row
    dispatch,   \* the dispatch_outbox row of each attempt
    callback,   \* event_type of the callback_outbox rows of each Job
    broker,     \* attempts with an undelivered run_attempt message
    worker,     \* what each worker is doing, and for which attempt
    publisher,  \* what each dispatcher process is doing, and for which attempt
    stale,      \* the reconciler's unlocked list of stale attempts
    faults      \* faults injected so far

vars == <<status, active, attempt, dispatch, callback, broker, worker,
          publisher, stale, faults>>

JobStatus == {"absent", "queued", "running", "succeeded", "failed"}
Terminal  == {"succeeded", "failed"}

Attempt == [status : {"none", "pending", "running", "succeeded", "failed"},
            token  : Workers \cup {NoHolder},
            lease  : {"none", "live", "expired"},
            phase  : {"none", "execute", "lease", "dispatch"}]

Dispatch == [status : {"none", "pending", "leased", "published", "retrying",
                       "dead_letter"},
             token  : Publishers \cup {NoHolder},
             due    : BOOLEAN,
             tries  : Nat]              \* publish_attempts; see OneMoreTry

Worker == [pc   : {"idle", "claiming", "claimed", "executing", "saving", "failing"},
           job  : Jobs \cup {NoJob},
           no   : 0..MaxAttempts,
           code : ErrorCodes \cup {"none"}]

Publisher == [pc  : {"idle", "leased", "accepted", "rejected"},
              job : Jobs \cup {NoJob},
              no  : 0..MaxAttempts]

StaleRow == [job : Jobs, no : AttemptNos, token : Workers]

TypeOK ==
    /\ status \in [Jobs -> JobStatus]
    /\ active \in [Jobs -> 0..MaxAttempts]
    /\ attempt \in [Jobs -> [AttemptNos -> Attempt]]
    /\ dispatch \in [Jobs -> [AttemptNos -> Dispatch]]
    /\ callback \in [Jobs -> SUBSET Terminal]
    /\ broker \subseteq Jobs \X AttemptNos
    /\ worker \in [Workers -> Worker]
    /\ publisher \in [Publishers -> Publisher]
    /\ stale \subseteq StaleRow
    /\ faults \in 0..MaxFaults

NoAttempt  == [status |-> "none", token |-> NoHolder, lease |-> "none", phase |-> "none"]
NewAttempt == [status |-> "pending", token |-> NoHolder, lease |-> "none", phase |-> "none"]

NoDispatch == [status |-> "none", token |-> NoHolder, due |-> FALSE, tries |-> 0]

\* create_dispatch_outbox: a pending row; it is due at once for an initial
\* attempt and at the scheduled time for a retry.
NewDispatch(due) == [status |-> "pending", token |-> NoHolder, due |-> due, tries |-> 0]

IdleWorker    == [pc |-> "idle", job |-> NoJob, no |-> 0, code |-> "none"]
IdlePublisher == [pc |-> "idle", job |-> NoJob, no |-> 0]

Init ==
    /\ status    = [j \in Jobs |-> "absent"]
    /\ active    = [j \in Jobs |-> 0]
    /\ attempt   = [j \in Jobs |-> [n \in AttemptNos |-> NoAttempt]]
    /\ dispatch  = [j \in Jobs |-> [n \in AttemptNos |-> NoDispatch]]
    /\ callback  = [j \in Jobs |-> {}]
    /\ broker    = {}
    /\ worker    = [w \in Workers |-> IdleWorker]
    /\ publisher = [p \in Publishers |-> IdlePublisher]
    /\ stale     = {}
    /\ faults    = 0

jobVars    == <<status, active, attempt, callback>>
ledgerVars == <<status, active, attempt, dispatch, callback>>

Fault == faults < MaxFaults /\ faults' = faults + 1

-----------------------------------------------------------------------------
(* API: the aggregate, its first attempt and its dispatch row in one        *)
(* transaction.                                                             *)

Submit(j) ==
    /\ status[j] = "absent"
    /\ status' = [status EXCEPT ![j] = "queued"]
    /\ active' = [active EXCEPT ![j] = 1]
    /\ attempt' = [attempt EXCEPT ![j][1] = NewAttempt]
    /\ dispatch' = [dispatch EXCEPT ![j][1] = NewDispatch(TRUE)]
    /\ UNCHANGED <<callback, broker, worker, publisher, stale, faults>>

-----------------------------------------------------------------------------
(* Transitions of a Job and its attempt that several handlers share.        *)

\* Mutant: the terminal transaction forgets the callback row.
MutantEnsureCallback(j, s) == UNCHANGED callback

\* ensure_terminal_callback_outbox: one row per (job, event_type), in the
\* transaction that makes the Job terminal.  The Job of the model has a
\* callback_url; an event the caller did not subscribe to gets a row too.
EnsureCallback(j, s) == callback' = [callback EXCEPT ![j] = @ \cup {s}]

EndedAttempt(s, phase) ==
    [status |-> s, token |-> NoHolder, lease |-> "none", phase |-> phase]

\* Mutant: active_attempt_id is not cleared.
MutantFinishJob(j, n, s, phase) ==
    /\ status' = [status EXCEPT ![j] = s]
    /\ attempt' = [attempt EXCEPT ![j][n] = EndedAttempt(s, phase)]
    /\ EnsureCallback(j, s)
    /\ UNCHANGED <<active, dispatch>>

\* The Job leaves the kernel in terminal status s, with its attempt n.
FinishJob(j, n, s, phase) ==
    /\ status' = [status EXCEPT ![j] = s]
    /\ active' = [active EXCEPT ![j] = 0]
    /\ attempt' = [attempt EXCEPT ![j][n] = EndedAttempt(s, phase)]
    /\ EnsureCallback(j, s)
    /\ UNCHANGED dispatch

\* Mutant: the retry gets no dispatch row.
MutantRetryJob(j, n, phase) ==
    /\ status' = [status EXCEPT ![j] = "queued"]
    /\ active' = [active EXCEPT ![j] = n + 1]
    /\ attempt' = [attempt EXCEPT ![j][n] = EndedAttempt("failed", phase),
                                  ![j][n + 1] = NewAttempt]
    /\ UNCHANGED <<dispatch, callback>>

\* A next attempt of the chain replaces the failed one as the active attempt.
RetryJob(j, n, phase) ==
    /\ status' = [status EXCEPT ![j] = "queued"]
    /\ active' = [active EXCEPT ![j] = n + 1]
    /\ attempt' = [attempt EXCEPT ![j][n] = EndedAttempt("failed", phase),
                                  ![j][n + 1] = NewAttempt]
    /\ dispatch' = [dispatch EXCEPT ![j][n + 1] = NewDispatch(FALSE)]
    /\ UNCHANGED callback

\* Mutant: off by one in the attempt budget.
MutantCanRetry(j, n, code) ==
    /\ code \in RetryableCodes
    /\ status[j] # "failed"
    /\ n <= MaxAttempts

CanRetry(j, n, code) ==
    /\ code \in RetryableCodes
    /\ status[j] # "failed"
    /\ n < MaxAttempts

\* mark_attempt_failed reads the row by attempt id and token only: it looks
\* at neither lease_expires_at nor deleted_at.
MayMarkFailed(j, n, token) ==
    /\ attempt[j][n].status = "running"
    /\ attempt[j][n].token = token
    /\ active[j] = n
    /\ status[j] \in {"queued", "running", "failed"}

\* A Job that has failed already keeps its row; only the attempt ends.
EndAttempt(j, n, phase) ==
    /\ attempt' = [attempt EXCEPT ![j][n] = EndedAttempt("failed", phase)]
    /\ UNCHANGED <<status, active, dispatch, callback>>

MarkAttemptFailed(j, n, code, phase) ==
    \/ CanRetry(j, n, code) /\ RetryJob(j, n, phase)
    \/ ~CanRetry(j, n, code) /\ status[j] # "failed" /\ FinishJob(j, n, "failed", phase)
    \/ status[j] = "failed" /\ EndAttempt(j, n, phase)

-----------------------------------------------------------------------------
(* Dispatcher: lease the row, publish to Taskiq, record the outcome.        *)

\* Mutant: a published row is taken as settled; nobody publishes it again.
MutantPublishable(j, n) ==
    /\ status[j] = "queued"
    /\ active[j] = n
    /\ attempt[j][n].status = "pending"
    /\ dispatch[j][n].status \in {"pending", "retrying", "leased"}
    /\ dispatch[j][n].due

\* The condition of find_due_dispatches and of lease_dispatch_for_publish:
\* a pending or retrying row whose time has come, a leased row whose lease
\* expired, or a published row nobody claimed within the orphan window.
Publishable(j, n) ==
    /\ status[j] = "queued"
    /\ active[j] = n
    /\ attempt[j][n].status = "pending"
    /\ dispatch[j][n].status \in {"pending", "retrying", "leased", "published"}
    /\ dispatch[j][n].due

Leased(d, p) == [d EXCEPT !.status = "leased", !.token = p, !.due = FALSE]

LeaseDispatch(p, j, n) ==
    /\ publisher[p].pc = "idle"
    /\ Publishable(j, n)
    /\ dispatch' = [dispatch EXCEPT ![j][n] = Leased(@, p)]
    /\ publisher' = [publisher EXCEPT ![p] = [pc |-> "leased", job |-> j, no |-> n]]
    /\ UNCHANGED <<jobVars, broker, worker, stale, faults>>

\* The broker accepts the message: kiq() returns.
BrokerAccepts(p) ==
    /\ publisher[p].pc = "leased"
    /\ broker' = broker \cup {<<publisher[p].job, publisher[p].no>>}
    /\ publisher' = [publisher EXCEPT ![p].pc = "accepted"]
    /\ UNCHANGED <<ledgerVars, worker, stale, faults>>

\* kiq() raises.  The message may have been stored all the same, when the
\* connection broke before the answer arrived.
BrokerRejects(p) ==
    /\ publisher[p].pc = "leased"
    /\ \/ broker' = broker
       \/ broker' = broker \cup {<<publisher[p].job, publisher[p].no>>}
    /\ publisher' = [publisher EXCEPT ![p].pc = "rejected"]
    /\ UNCHANGED <<ledgerVars, worker, stale, faults>>

\* Mutant: the lease token of the row is not compared.
MutantHoldsDispatch(p) == dispatch[publisher[p].job][publisher[p].no].status = "leased"

\* Both outcomes are recorded only while the row still carries the token.
HoldsDispatch(p) ==
    LET d == dispatch[publisher[p].job][publisher[p].no]
    IN  d.status = "leased" /\ d.token = p

\* publish_attempts counts successes and failures and has no bound: an orphan
\* is published again and again.  It is only ever compared with the budget and
\* with 0, so counting ends here at the budget: an abstraction, no guarantee.
OneMoreTry(d) == IF d.tries < MaxPublish THEN d.tries + 1 ELSE d.tries

Published(d) ==
    [d EXCEPT !.status = "published", !.token = NoHolder, !.due = FALSE,
              !.tries = OneMoreTry(d)]

PublishFailed(d) ==
    [d EXCEPT !.status = IF OneMoreTry(d) = MaxPublish THEN "dead_letter" ELSE "retrying",
              !.token = NoHolder, !.due = FALSE, !.tries = OneMoreTry(d)]

\* mark_dispatch_published and mark_dispatch_publish_failed; a row that lost
\* its lease is left alone.
MarkDispatch(p) ==
    LET j == publisher[p].job
        n == publisher[p].no
        Outcome(d) == IF publisher[p].pc = "accepted" THEN Published(d) ELSE PublishFailed(d)
    IN  /\ publisher[p].pc \in {"accepted", "rejected"}
        /\ dispatch' = IF HoldsDispatch(p)
                       THEN [dispatch EXCEPT ![j][n] = Outcome(@)]
                       ELSE dispatch
        /\ publisher' = [publisher EXCEPT ![p] = IdlePublisher]
        /\ UNCHANGED <<jobVars, broker, worker, stale, faults>>

PublisherCrash(p) ==
    /\ publisher[p].pc # "idle"
    /\ Fault
    /\ publisher' = [publisher EXCEPT ![p] = IdlePublisher]
    /\ UNCHANGED <<ledgerVars, broker, worker, stale>>

\* Time passes: next_attempt_at, or the lease of the row, is in the past.
DispatchDue(j, n) ==
    /\ dispatch[j][n].status \in {"pending", "retrying", "leased", "published"}
    /\ ~dispatch[j][n].due
    /\ attempt[j][n].status = "pending"
    /\ dispatch' = [dispatch EXCEPT ![j][n].due = TRUE]
    /\ UNCHANGED <<jobVars, broker, worker, publisher, stale, faults>>

-----------------------------------------------------------------------------
(* Worker: run_job_attempt.                                                 *)

\* A worker takes a message off the broker.
Receive(w, j, n) ==
    /\ worker[w].pc = "idle"
    /\ <<j, n>> \in broker
    /\ broker' = broker \ {<<j, n>>}
    /\ worker' = [worker EXCEPT ![w] = [pc |-> "claiming", job |-> j, no |-> n,
                                        code |-> "none"]]
    /\ UNCHANGED <<ledgerVars, publisher, stale, faults>>

\* The broker delivers a message again while its first delivery is not
\* acknowledged yet.
Redeliver(w) ==
    /\ worker[w].pc # "idle"
    /\ Fault
    /\ broker' = broker \cup {<<worker[w].job, worker[w].no>>}
    /\ UNCHANGED <<ledgerVars, worker, publisher, stale>>

\* Mutant: only active_attempt_id is compared, neither status is.
MutantClaimable(j, n) == active[j] = n

Claimable(j, n) ==
    /\ active[j] = n
    /\ status[j] = "queued"
    /\ attempt[j][n].status = "pending"

Running(a, w) == [a EXCEPT !.status = "running", !.token = w, !.lease = "live"]

Claim(w) ==
    LET j == worker[w].job
        n == worker[w].no
    IN  /\ worker[w].pc = "claiming"
        /\ Claimable(j, n)
        /\ attempt' = [attempt EXCEPT ![j][n] = Running(@, w)]
        /\ status' = [status EXCEPT ![j] = "running"]
        /\ worker' = [worker EXCEPT ![w].pc = "claimed"]
        /\ UNCHANGED <<active, dispatch, callback, broker, publisher, stale, faults>>

\* All claim tries missed: the attempt is not claimable, or (a fault) its
\* rows were locked each time.  The message is consumed.
ClaimMiss(w) ==
    /\ worker[w].pc = "claiming"
    /\ IF Claimable(worker[w].job, worker[w].no) THEN Fault ELSE UNCHANGED faults
    /\ worker' = [worker EXCEPT ![w] = IdleWorker]
    /\ UNCHANGED <<ledgerVars, broker, publisher, stale>>

\* Mutant: the rows are looked up by Job, not by active attempt and token.
MutantHoldsAttempt(w) == status[worker[w].job] = "running"

\* The condition under which heartbeat_attempt, update_progress,
\* mark_succeeded and mark_failed find their rows.
HoldsAttempt(w) ==
    LET j == worker[w].job
        n == worker[w].no
    IN  /\ status[j] = "running"
        /\ active[j] = n
        /\ attempt[j][n].status = "running"
        /\ attempt[j][n].token = w

\* One of these finds no row: the attempt is gone, or its row is locked.
Misses(w) == IF HoldsAttempt(w) THEN Fault ELSE UNCHANGED faults

Raise(w, code) == worker' = [worker EXCEPT ![w].pc = "failing", ![w].code = code]

WithLease(a, l) == [a EXCEPT !.lease = l]

RenewLease(w) ==
    attempt' = [attempt EXCEPT ![worker[w].job][worker[w].no] = WithLease(@, "live")]

\* Before and during the execution the lease is extended; a miss raises
\* JOB_STATE_TRANSITION_CONFLICT and cancels the operation.
Heartbeat(w) ==
    /\ worker[w].pc \in {"claimed", "executing", "saving"}
    /\ \/ /\ HoldsAttempt(w)
          /\ RenewLease(w)
          /\ IF worker[w].pc = "claimed"
             THEN worker' = [worker EXCEPT ![w].pc = "executing"]
             ELSE UNCHANGED worker
          /\ UNCHANGED faults
       \/ /\ Misses(w)
          /\ Raise(w, "JOB_STATE_TRANSITION_CONFLICT")
          /\ UNCHANGED attempt
    /\ UNCHANGED <<status, active, dispatch, callback, broker, publisher, stale>>

\* The executor returns and execute_job records "writing_result"; a miss makes
\* it return without success, which run_job_attempt turns into a failure.
ExecutorReturns(w) ==
    /\ worker[w].pc = "executing"
    /\ \/ /\ HoldsAttempt(w)
          /\ worker' = [worker EXCEPT ![w].pc = "saving"]
          /\ UNCHANGED faults
       \/ Misses(w) /\ Raise(w, "JOB_EXECUTION_FAILED")
    /\ UNCHANGED <<ledgerVars, broker, publisher, stale>>

ExecutorRaises(w) ==
    /\ worker[w].pc = "executing"
    /\ Raise(w, "MODEL_CALL_FAILED")
    /\ UNCHANGED <<ledgerVars, broker, publisher, stale, faults>>

\* The success side effect runs between two progress updates, then
\* mark_succeeded ends the Job.  A miss in an update returns without success,
\* a miss in mark_succeeded raises a conflict.
MarkSucceeded(w) ==
    /\ worker[w].pc = "saving"
    /\ \/ /\ HoldsAttempt(w)
          /\ FinishJob(worker[w].job, worker[w].no, "succeeded", "none")
          /\ worker' = [worker EXCEPT ![w] = IdleWorker]
          /\ UNCHANGED faults
       \/ /\ Misses(w)
          /\ \E code \in {"JOB_EXECUTION_FAILED", "JOB_STATE_TRANSITION_CONFLICT"} :
                Raise(w, code)
          /\ UNCHANGED ledgerVars
    /\ UNCHANGED <<broker, publisher, stale>>

\* The success side effect raises: mark_failed ends the Job without looking
\* at the retry policy (or misses), and run_job_attempt raises for the task.
SideEffectRaises(w) ==
    /\ worker[w].pc = "saving"
    /\ \/ /\ HoldsAttempt(w)
          /\ FinishJob(worker[w].job, worker[w].no, "failed", "none")
          /\ UNCHANGED faults
       \/ Misses(w) /\ UNCHANGED ledgerVars
    /\ Raise(w, "JOB_EXECUTION_FAILED")
    /\ UNCHANGED <<broker, publisher, stale>>

\* run_job_attempt's handler records the failure, or finds the attempt gone.
RecordFailure(w) ==
    LET j == worker[w].job
        n == worker[w].no
    IN  /\ worker[w].pc = "failing"
        /\ IF MayMarkFailed(j, n, w)
           THEN MarkAttemptFailed(j, n, worker[w].code, "execute")
           ELSE UNCHANGED ledgerVars
        /\ worker' = [worker EXCEPT ![w] = IdleWorker]
        /\ UNCHANGED <<broker, publisher, stale, faults>>

\* The worker dies; its message is lost or delivered again.  A failure that
\* cannot be recorded because the row is locked ends the same way.
WorkerCrash(w) ==
    /\ worker[w].pc # "idle"
    /\ Fault
    /\ \/ broker' = broker
       \/ broker' = broker \cup {<<worker[w].job, worker[w].no>>}
    /\ worker' = [worker EXCEPT ![w] = IdleWorker]
    /\ UNCHANGED <<ledgerVars, publisher, stale>>

\* lease_expires_at passes: the worker is dead, or slower than its heartbeat.
LeaseExpires(j, n) ==
    /\ attempt[j][n].lease = "live"
    /\ attempt' = [attempt EXCEPT ![j][n] = WithLease(@, "expired")]
    /\ UNCHANGED <<status, active, dispatch, callback, broker, worker, publisher,
                   stale, faults>>

-----------------------------------------------------------------------------
(* Reconciler: one process at a time holds the recovery lock.  A pass reads *)
(* the stale attempts without locking them, then fails them one by one.  It *)
(* commits once, but its rows belong to different Jobs and stay locked from *)
(* the check to the commit, so each row is an action of its own.            *)

IsStale(j, n) ==
    /\ status[j] = "running"
    /\ active[j] = n
    /\ attempt[j][n].status = "running"
    /\ attempt[j][n].lease = "expired"

StaleNow == {s \in StaleRow : IsStale(s.job, s.no) /\ s.token = attempt[s.job][s.no].token}

RecoveryScan ==
    /\ stale = {}
    /\ StaleNow # {}
    /\ stale' = StaleNow
    /\ UNCHANGED <<ledgerVars, broker, worker, publisher, faults>>

\* mark_attempt_failed with JOB_TIMEOUT, on the row as it is now.
RecoverStale(s) ==
    /\ stale' = stale \ {s}
    /\ IF MayMarkFailed(s.job, s.no, s.token)
       THEN MarkAttemptFailed(s.job, s.no, "JOB_TIMEOUT", "lease")
       ELSE UNCHANGED ledgerVars
    /\ UNCHANGED <<broker, worker, publisher, faults>>

\* The row is locked by another session, or the pass rolls back.
RecoverySkips(s) ==
    /\ Fault
    /\ stale' = stale \ {s}
    /\ UNCHANGED <<ledgerVars, broker, worker, publisher>>

\* Mutant: a dead letter is enough, whether or not the attempt was claimed.
MutantDeadLettered(j, n) == active[j] = n /\ dispatch[j][n].status = "dead_letter"

\* A dispatch whose publish budget is spent, for an attempt nobody claimed.
DeadLettered(j, n) ==
    /\ status[j] = "queued"
    /\ active[j] = n
    /\ attempt[j][n].status = "pending"
    /\ dispatch[j][n].status = "dead_letter"

FailDeadLettered(j, n) ==
    /\ DeadLettered(j, n)
    /\ FinishJob(j, n, "failed", "dispatch")
    /\ UNCHANGED <<broker, worker, publisher, stale, faults>>

\* Mutant: a row still marked leased is left to its dispatcher.
MutantRanUnpublished(j, n) ==
    /\ attempt[j][n].status \in Terminal
    /\ attempt[j][n].phase # "dispatch"
    /\ dispatch[j][n].status \in {"pending", "retrying", "dead_letter"}

\* The row of an attempt that ran to its end although its publishing was
\* never recorded.
RanUnpublished(j, n) ==
    /\ attempt[j][n].status \in Terminal
    /\ attempt[j][n].phase # "dispatch"
    /\ dispatch[j][n].status \in {"pending", "retrying", "leased", "dead_letter"}

Settled(d) == [d EXCEPT !.status = "published", !.token = NoHolder,
                        !.tries = IF d.tries = 0 THEN 1 ELSE d.tries]

ReconcileDispatch(j, n) ==
    /\ RanUnpublished(j, n)
    /\ dispatch' = [dispatch EXCEPT ![j][n] = Settled(@)]
    /\ UNCHANGED <<jobVars, broker, worker, publisher, stale, faults>>

\* The operator's job-ops replay-dispatch: a fresh publish budget.
ReplayDispatch(j, n) ==
    /\ DeadLettered(j, n)
    /\ Fault
    /\ dispatch' = [dispatch EXCEPT ![j][n] =
           [status |-> "retrying", token |-> NoHolder, due |-> TRUE, tries |-> 0]]
    /\ UNCHANGED <<jobVars, broker, worker, publisher, stale>>

-----------------------------------------------------------------------------

PublisherStep(p) ==
    \/ BrokerAccepts(p)
    \/ BrokerRejects(p)
    \/ MarkDispatch(p)

WorkerStep(w) ==
    \/ Claim(w)
    \/ ClaimMiss(w)
    \/ Heartbeat(w)
    \/ ExecutorReturns(w)
    \/ ExecutorRaises(w)
    \/ MarkSucceeded(w)
    \/ SideEffectRaises(w)
    \/ RecordFailure(w)

Next ==
    \/ \E j \in Jobs : Submit(j)
    \/ \E p \in Publishers : PublisherStep(p) \/ PublisherCrash(p)
    \/ \E w \in Workers : WorkerStep(w) \/ Redeliver(w) \/ WorkerCrash(w)
    \/ \E j \in Jobs, n \in AttemptNos :
          \/ \E p \in Publishers : LeaseDispatch(p, j, n)
          \/ \E w \in Workers : Receive(w, j, n)
          \/ DispatchDue(j, n)
          \/ LeaseExpires(j, n)
          \/ FailDeadLettered(j, n)
          \/ ReconcileDispatch(j, n)
          \/ ReplayDispatch(j, n)
    \/ RecoveryScan
    \/ \E s \in stale : RecoverStale(s) \/ RecoverySkips(s)

Spec == Init /\ [][Next]_vars

-----------------------------------------------------------------------------
(* Safety.                                                                  *)

Busy == {"claimed", "executing", "saving", "failing"}

Works(w, j, n) == worker[w].pc \in Busy /\ worker[w].job = j /\ worker[w].no = n

\* Whatever claims, retries, recovery passes and dead letters do to a Job, its
\* status and active_attempt_id describe the same attempt: queued while that
\* attempt waits, running while it runs, and none once the Job has ended.
\* Only the active attempt is ever pending or running.
ActiveAttemptAgrees ==
    \A j \in Jobs :
        /\ status[j] \in {"absent", "succeeded", "failed"} <=> active[j] = 0
        /\ \A n \in AttemptNos :
              /\ attempt[j][n].status = "pending" <=> status[j] = "queued" /\ active[j] = n
              /\ attempt[j][n].status = "running" <=> status[j] = "running" /\ active[j] = n
              /\ attempt[j][n].status = "succeeded" => status[j] = "succeeded"

\* The attempts of a Job form one chain: a next attempt exists only after the
\* previous one failed, and the active attempt is the last of the chain.  Two
\* failure reports for one attempt (worker and recovery) never fork it.
AttemptChain ==
    \A j \in Jobs, n \in AttemptNos :
        /\ attempt[j][n].status # "none" =>
              \A m \in 1..(n - 1) : attempt[j][m].status = "failed"
        /\ active[j] # 0 /\ n > active[j] => attempt[j][n].status = "none"

\* An attempt is executed by one worker: a redelivered or re-published message
\* never makes a second worker work on it, and while it runs its lease token
\* is that worker's.
SingleExecution ==
    \A j \in Jobs, n \in AttemptNos, w \in Workers :
        Works(w, j, n) =>
            /\ attempt[j][n].status \notin {"none", "pending"}
            /\ attempt[j][n].status = "running" => attempt[j][n].token = w
            /\ \A v \in Workers \ {w} : ~Works(v, j, n)

\* When recovery has failed an attempt for its dead-lettered dispatch, no worker
\* is running it, nor will one ever, although a publish recorded as failed may
\* have reached the broker, and its message may be received before or after.
DispatchFailureNeverRan ==
    \A j \in Jobs, n \in AttemptNos :
        attempt[j][n].phase = "dispatch" => \A w \in Workers : ~Works(w, j, n)

\* A queued Job always has a dispatch row for its active attempt, so that the
\* dispatcher, the dead-letter recovery or the operator can move it on:
\* recovery's search for missing dispatch rows finds none.
QueuedIsDispatchable ==
    \A j \in Jobs :
        status[j] = "queued" => dispatch[j][active[j]].status # "none"

\* A leased dispatch row gets its outcome from the dispatcher that holds its
\* token, and the outcome that dispatcher saw, or else from recovery after the
\* attempt has ended.  A dispatcher that overran its lease changes nothing.
DispatchFenced ==
    [][\A j \in Jobs, n \in AttemptNos :
          dispatch[j][n].status = "leased" /\ dispatch'[j][n].status # "leased"
              => LET p == dispatch[j][n].token
                 IN  \/ /\ publisher[p].job = j /\ publisher[p].no = n
                        /\ publisher'[p].pc = "idle"
                        /\ publisher[p].pc = "accepted" <=> dispatch'[j][n].status = "published"
                     \/ attempt[j][n].status \in Terminal]_vars

-----------------------------------------------------------------------------
(* What the kernel promises to the rest of the system: JobLifecycle.        *)

Created == [j \in Jobs |-> {n \in AttemptNos : attempt[j][n].status # "none"}]

Lifecycle == INSTANCE JobLifecycle WITH created <- Created, event <- callback

\* Every step of API, dispatcher, worker, reconciler and operator is a step of
\* the Job's lifecycle or leaves it unchanged; in particular a terminal status
\* is final, its callback row appears with it, and a retry uses up an attempt.
ImplementsLifecycle == Lifecycle!Spec

-----------------------------------------------------------------------------
(* Liveness.  Executors are assumed to return: the code enforces no deadline.*)

WorkerFairness(w) ==
    /\ WF_vars(WorkerStep(w))
    /\ WF_vars(ExecutorReturns(w))
    /\ WF_vars(MarkSucceeded(w))
    /\ WF_vars(\E j \in Jobs, n \in AttemptNos : Receive(w, j, n))

RecoveryFairness ==
    /\ WF_vars(RecoveryScan)
    /\ WF_vars(\E s \in stale : RecoverStale(s))
    /\ \A j \in Jobs, n \in AttemptNos :
          /\ WF_vars(FailDeadLettered(j, n))
          /\ WF_vars(ReconcileDispatch(j, n))

\* The lease of an attempt whose worker is gone does expire.
AbandonedLeaseExpires(j, n) ==
    (\A w \in Workers : ~Works(w, j, n)) /\ LeaseExpires(j, n)

Fairness ==
    /\ \A w \in Workers : WorkerFairness(w)
    /\ \A p \in Publishers : WF_vars(PublisherStep(p))
    /\ \A j \in Jobs, n \in AttemptNos :
          /\ WF_vars(\E p \in Publishers : LeaseDispatch(p, j, n))
          /\ WF_vars(DispatchDue(j, n))
          /\ WF_vars(AbandonedLeaseExpires(j, n))
    /\ RecoveryFairness

FairSpec == Spec /\ Fairness

\* Every submitted Job ends, whatever messages are lost, workers and
\* dispatchers die and passes roll back in the meantime.
EventuallyTerminal ==
    \A j \in Jobs : status[j] = "queued" ~> status[j] \in Terminal

\* The dispatch row of an attempt that ran is settled as published in the end,
\* also when its dispatcher died between the broker's answer and the record.
DispatchSettled ==
    \A j \in Jobs, n \in AttemptNos :
        attempt[j][n].status \in Terminal /\ attempt[j][n].phase # "dispatch"
            ~> dispatch[j][n].status = "published"

-----------------------------------------------------------------------------
(* Documented, but not what the code does: see the finding in PROJECT.json. *)

\* docs/current/job-kernel.md: recovery takes an attempt over only after its
\* lease has expired.  The reconciler, however, acts on the list it read
\* earlier, and a heartbeat may have renewed the lease in between.
RecoveryOnlyExpired ==
    [][\A j \in Jobs, n \in AttemptNos :
          attempt[j][n].phase # "lease" /\ attempt'[j][n].phase = "lease"
              => attempt[j][n].lease = "expired"]_vars
=============================================================================
