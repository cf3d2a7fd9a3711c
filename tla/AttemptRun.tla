----------------------------- MODULE AttemptRun -----------------------------
(***************************************************************************)
(* One execution of an attempt, commit by commit, and what it leaves       *)
(* outside its Job: rows of the AI call ledger, from which the cost of a   *)
(* root is summed up, and an item of the asset vector index.               *)
(*                                                                         *)
(* Four kinds of Jobs run through execute_job:                             *)
(*   "model"  children of one workflow root, an AI call each through       *)
(*            generate_text_with_ledger or a sibling of it, retried;       *)
(*   "direct" children of one workflow root that call the provider past    *)
(*            the ledger, never retried: asset_vector_embed_item and       *)
(*            asset_image_tagging;                                         *)
(*   "upsert" asset_vector_upsert_join, which writes the item in the       *)
(*            session of the execution;                                    *)
(*   "delete" asset_vector_batch_delete, which deletes it as its success   *)
(*            side effect.                                                 *)
(*                                                                         *)
(* An execution may have lost its attempt to recovery and go on until its  *)
(* heartbeat stops it: each of its commits says what becomes visible then. *)
(* Dispatch, claim and leases in detail are JobKernel's subject.           *)
(***************************************************************************)
EXTENDS Naturals, FiniteSets

CONSTANTS
    MaxJobs,        \* bound on the Jobs
    RetriedJobs,    \* model Jobs of a job_type with a retry policy
    MaxTries,       \* their policy_max_attempts; all others have 1
    RetryableCodes, \* policy_retryable_error_codes
    MaxFaults       \* bound on crashes and stalls of workers

Jobs  == 1..MaxJobs
Runs  == Jobs \X (1..MaxTries)
NoItem == 0

\* The error codes the properties tell apart.  "AI_PROVIDER_FAILED" stands for
\* all that an executor may raise and a policy retries (poster_title_image also
\* names MODEL_CALL_TIMEOUT and its failures of fetching and storing images),
\* "OTHER" for those that no policy retries, such as JOB_EXECUTION_FAILED and
\* MODEL_COST_CALCULATION_FAILED.
Codes == {"AI_PROVIDER_FAILED", "AI_LEDGER_UPDATE_FAILED", "JOB_TIMEOUT", "OTHER"}

ASSUME RunAssumption ==
    /\ MaxJobs \in Nat \ {0} /\ RetriedJobs \subseteq Jobs /\ MaxTries \in Nat \ {0} /\ MaxFaults \in Nat
    /\ RetryableCodes \subseteq Codes \ {"AI_LEDGER_UPDATE_FAILED", "OTHER"}

VARIABLES
    kind,       \* what each Job is
    status,     \* its status
    tries,      \* its attempts so far; the last one is the active one
    error,      \* the error recorded for each ended attempt
    pc,         \* how far the execution of each attempt has come
    raised,     \* the error with which it is on its way out
    row,        \* the ledger row of the attempt's AI call
    charged,    \* the attempts whose call the provider charges for
    item,       \* the Job whose version of the item is indexed
    late,       \* Jobs of which an execution without its lease changed the item
    bill,       \* the cost in the terminal snapshot of the root
    faults

vars == <<kind, status, tries, error, pc, raised, row, charged, item, late, bill, faults>>
job == <<status, tries, error>>
ledger == <<row, charged>>
index == <<item, late>>

Terminal == {"succeeded", "failed"}
Tries(j) == IF kind[j] = "model" /\ j \in RetriedJobs THEN MaxTries ELSE 1

TypeOK ==
    /\ kind \in [Jobs -> {"model", "direct", "upsert", "delete"}]
    /\ status \in [Jobs -> {"absent", "queued", "running"} \cup Terminal]
    /\ tries \in [Jobs -> 0..MaxTries]
    /\ error \in [Runs -> Codes \cup {"none"}]
    /\ pc \in [Runs -> {"none", "executing", "calling", "answered", "refused", "executed",
                        "writing", "marking", "raised", "over"}]
    /\ raised \in [Runs -> Codes \cup {"none"}]
    /\ row \in [Runs -> {"none", "pending", "billable", "unknown", "uncosted"}]
    /\ charged \subseteq Runs
    /\ item \in Jobs \cup {NoItem}
    /\ late \subseteq Jobs
    /\ bill \in [state : {"none", "open", "final"}, counted : SUBSET Runs, live : SUBSET Jobs]
    /\ faults \in 0..MaxFaults
    /\ \A j \in Jobs : tries[j] <= Tries(j)

\* The ledger and the index have nothing in common, so a behaviour has Jobs that
\* use one of them.  The children of one workflow all call in the same way.
Init ==
    /\ kind \in [Jobs -> {"model"}] \cup [Jobs -> {"direct"}] \cup [Jobs -> {"upsert", "delete"}]
    /\ status = [j \in Jobs |-> "absent"]
    /\ tries  = [j \in Jobs |-> 0]
    /\ error  = [r \in Runs |-> "none"]
    /\ pc     = [r \in Runs |-> "none"]
    /\ raised = [r \in Runs |-> "none"]
    /\ row    = [r \in Runs |-> "none"]
    /\ charged = {}
    /\ item = NoItem /\ late = {}
    /\ bill = [state |-> "none", counted |-> {}, live |-> {}]
    /\ faults = 0

-----------------------------------------------------------------------------
(* The Job an execution belongs to.                                         *)

Indexing == {j \in Jobs : kind[j] \in {"upsert", "delete"}}
Members  == Jobs \ Indexing

\* The attempt is the active one of a running Job and its lease token is r's.
Holds(r) == status[r[1]] = "running" /\ tries[r[1]] = r[2]

\* The members of a workflow are fanned out by their root.  The caller of the asset index
\* asks for one Job after the other.
Submit(j) ==
    /\ status[j] = "absent"
    /\ \/ j \in Members /\ bill.state = "none"
       \/ j \in Indexing /\ \A i \in Indexing : i < j => status[i] \in Terminal
    /\ status' = [status EXCEPT ![j] = "queued"]
    /\ tries' = [tries EXCEPT ![j] = 1]
    /\ UNCHANGED <<kind, error, pc, raised, ledger, index, bill, faults>>

\* The claim and the first stage, which changes nothing but the progress.
Claim(j) ==
    /\ status[j] = "queued"
    /\ status' = [status EXCEPT ![j] = "running"]
    /\ pc' = [pc EXCEPT ![<<j, tries[j]>>] = "executing"]
    /\ UNCHANGED <<kind, tries, error, raised, ledger, index, bill, faults>>

\* Mutant: every error is retried.
MutantRetries(j, code) == tries[j] < Tries(j)

\* Mutant: the first attempt is not counted.
MutantOneMore(j, code) == code \in RetryableCodes /\ tries[j] <= Tries(j)

Retries(j, code) == code \in RetryableCodes /\ tries[j] < Tries(j)

\* mark_attempt_failed of the active attempt.
EndAttempt(j, code) ==
    /\ error' = [error EXCEPT ![<<j, tries[j]>>] = code]
    /\ IF Retries(j, code)
       THEN /\ status' = [status EXCEPT ![j] = "queued"]
            /\ tries' = [tries EXCEPT ![j] = @ + 1]
       ELSE /\ status' = [status EXCEPT ![j] = "failed"]
            /\ UNCHANGED tries

-----------------------------------------------------------------------------
(* execute_job.                                                             *)

Goes(r, step) == pc' = [pc EXCEPT ![r] = step] /\ UNCHANGED raised

Raises(r, code) ==
    /\ pc' = [pc EXCEPT ![r] = "raised"]
    /\ raised' = [raised EXCEPT ![r] = code]

\* update_progress and commit.  It finds no row without the lease, and also
\* while the heartbeat's session has locked the row: the execution then ends
\* without success, having committed what it had written.
Stage(r, step) ==
    \/ Holds(r) /\ Goes(r, step)
    \/ Raises(r, "OTHER")

\* The executor of an indexing Job has run its statements or prepared its result.
Execute(r) ==
    /\ pc[r] = "executing" /\ r[1] \in Indexing
    /\ Goes(r, "executed")
    /\ UNCHANGED <<kind, job, ledger, index, bill, faults>>

\* A refused answer, an unreadable artifact, an invalid result; nothing is committed.
ExecutorRaises(r) ==
    /\ pc[r] \in {"executing", "executed", "writing"}
    /\ \E code \in {"AI_PROVIDER_FAILED", "OTHER"} : Raises(r, code)
    /\ UNCHANGED <<kind, job, ledger, index, bill, faults>>

\* The item is changed to v by the execution r.
Changes(r, v) ==
    /\ item' = v
    /\ late' = IF Holds(r) THEN late ELSE late \cup {r[1]}

\* Mutant: the rows of the executor are only flushed.
MutantUpsert(r) == UNCHANGED index

\* upsert_embedded_items is committed together with the stage.
Upsert(r) == IF kind[r[1]] = "upsert" THEN Changes(r, r[1]) ELSE UNCHANGED index

WriteResult(r) ==
    /\ pc[r] = "executed"
    /\ Stage(r, "writing")
    /\ Upsert(r)
    /\ UNCHANGED <<kind, job, ledger, bill, faults>>

\* run_success_side_effect is committed together with the stage.
RunSideEffect(r) ==
    /\ pc[r] = "writing"
    /\ Stage(r, "marking")
    /\ IF kind[r[1]] = "delete" THEN Changes(r, NoItem) ELSE UNCHANGED index
    /\ UNCHANGED <<kind, job, ledger, bill, faults>>

\* The side effect raises: mark_failed ends the Job, if it finds it, and the
\* execution reports that it had no success.
SideEffectRaises(r) ==
    /\ pc[r] = "writing" /\ kind[r[1]] = "delete"
    /\ Raises(r, "OTHER")
    /\ \/ Holds(r) /\ status' = [status EXCEPT ![r[1]] = "failed"]
                   /\ error' = [error EXCEPT ![r] = "OTHER"]
       \/ UNCHANGED <<status, error>>
    /\ UNCHANGED <<kind, tries, ledger, index, bill, faults>>

MarkSucceeded(r) ==
    /\ pc[r] = "marking"
    /\ \/ Holds(r) /\ Goes(r, "over") /\ status' = [status EXCEPT ![r[1]] = "succeeded"]
       \/ Raises(r, "OTHER") /\ UNCHANGED status
    /\ UNCHANGED <<kind, tries, error, ledger, index, bill, faults>>

-----------------------------------------------------------------------------
(* generate_text_with_ledger and its siblings.                              *)

\* Mutant: the row is written in the session of the execution.
MutantOpenCall(r) ==
    /\ pc[r] = "executing" /\ kind[r[1]] = "model"
    /\ charged' \in {charged, charged \cup {r}}
    /\ Goes(r, "calling")
    /\ UNCHANGED <<kind, job, row, index, bill, faults>>

\* The pending row is committed before the provider is called.  Whether the
\* provider charges for the call, now or after it was given up, is its choice.
OpenCall(r) ==
    /\ pc[r] = "executing" /\ kind[r[1]] = "model"
    /\ row' = [row EXCEPT ![r] = "pending"]
    /\ charged' \in {charged, charged \cup {r}}
    /\ Goes(r, "calling")
    /\ UNCHANGED <<kind, job, index, bill, faults>>

\* DashScopeMultimodalEmbeddingAdapter.embed and the adapter of
\* asset_image_tagging call the provider without a row.
CallDirectly(r) ==
    /\ pc[r] = "executing" /\ kind[r[1]] = "direct"
    /\ charged' \in {charged, charged \cup {r}}
    /\ Goes(r, "calling")
    /\ UNCHANGED <<kind, job, row, index, bill, faults>>

\* An answer has been charged for; an error or a timeout may have been.
ProviderReplies(r) ==
    /\ pc[r] = "calling"
    /\ \/ r \in charged /\ Goes(r, "answered")
       \/ Goes(r, "refused")
    /\ UNCHANGED <<kind, job, ledger, index, bill, faults>>

\* Mutant: a late answer overwrites what recovery has recorded.
MutantOpen(r) == row[r] # "none"

\* mark_succeeded and mark_failed select the row by its status.
Open(r) == row[r] = "pending"

\* The row is settled by the call, or is not pending any more.
Settle(r) ==
    /\ pc[r] \in {"answered", "refused"} /\ kind[r[1]] = "model"
    /\ IF ~Open(r)
       THEN Raises(r, "AI_LEDGER_UPDATE_FAILED") /\ UNCHANGED row
       ELSE \/ /\ pc[r] = "answered"
               /\ row' = [row EXCEPT ![r] = "billable"]
               /\ Goes(r, "executed")
            \/ /\ pc[r] = "answered"
               /\ row' = [row EXCEPT ![r] = "uncosted"]
               /\ Raises(r, "OTHER")
            \/ /\ pc[r] = "refused"
               /\ row' = [row EXCEPT ![r] = "unknown"]
               /\ \E code \in {"AI_PROVIDER_FAILED", "OTHER"} : Raises(r, code)
    /\ UNCHANGED <<kind, job, charged, index, bill, faults>>

\* Without a row there is nothing to settle.  A refusal, or an answer that
\* cannot be used, raises a code that the policy of such Jobs does not retry.
UseAnswer(r) ==
    /\ pc[r] \in {"answered", "refused"} /\ kind[r[1]] = "direct"
    /\ \/ pc[r] = "answered" /\ Goes(r, "executed")
       \/ Raises(r, "OTHER")
    /\ UNCHANGED <<kind, job, ledger, index, bill, faults>>

-----------------------------------------------------------------------------
(* run_job_attempt around it, faults and recovery.                          *)

\* The heartbeat finds its attempt lost, or its row locked by the execution:
\* the execution is cancelled and its open transaction rolled back.
HeartbeatFails(r) ==
    /\ pc[r] \notin {"none", "raised", "over"}
    /\ Raises(r, "OTHER")
    /\ UNCHANGED <<kind, job, ledger, index, bill, faults>>

RecordFailure(r) ==
    /\ pc[r] = "raised"
    /\ pc' = [pc EXCEPT ![r] = "over"]
    /\ raised' = [raised EXCEPT ![r] = "none"]
    /\ \/ Holds(r) /\ EndAttempt(r[1], raised[r])
       \/ UNCHANGED job
    /\ UNCHANGED <<kind, ledger, index, bill, faults>>

Crash(r) ==
    /\ pc[r] \notin {"none", "over"}
    /\ faults < MaxFaults
    /\ faults' = faults + 1
    /\ pc' = [pc EXCEPT ![r] = "over"]
    /\ raised' = [raised EXCEPT ![r] = "none"]
    /\ UNCHANGED <<kind, job, ledger, index, bill>>

\* What depends on time passes while the execution is over, or while it is
\* stalled, which is a fault.
Overdue(r) ==
    \/ pc[r] = "over" /\ UNCHANGED faults
    \/ pc[r] # "over" /\ faults < MaxFaults /\ faults' = faults + 1

\* The lease has expired: recovery ends the attempt.
RecoverAttempt(r) ==
    /\ Holds(r)
    /\ Overdue(r)
    /\ EndAttempt(r[1], "JOB_TIMEOUT")
    /\ UNCHANGED <<kind, pc, raised, ledger, index, bill>>

\* Mutant: only rows whose attempt has ended with JOB_TIMEOUT are looked at.
MutantPendingTooLong(r) == row[r] = "pending" /\ Overdue(r) /\ error[r] = "JOB_TIMEOUT"

PendingTooLong(r) == row[r] = "pending" /\ Overdue(r)

\* mark_stale_pending_failed.
RecoverRow(r) ==
    /\ PendingTooLong(r)
    /\ row' = [row EXCEPT ![r] = "unknown"]
    /\ UNCHANGED <<kind, job, pc, raised, charged, index, bill>>

-----------------------------------------------------------------------------
(* Billing of the root.                                                     *)

Called == {r \in Runs : row[r] # "none"}

\* build_scope_billing_envelope over the rows of the root's scope.
Billing ==
    CASE Called = {} -> "not_billable"
      [] \E r \in Called : row[r] = "uncosted" -> "failed"
      [] \E r \in Called : row[r] \in {"pending", "unknown"} -> "incomplete"
      [] OTHER -> "estimated"

Final == Billing \in {"estimated", "not_billable"}

\* Mutant: a cost is given whenever the calculation has not failed.
MutantFrozen == IF Billing = "failed" THEN "open" ELSE "final"

\* The cost in the terminal snapshot, if there is one.
Frozen == IF Final THEN "final" ELSE "open"
Counted == {r \in Runs : row[r] = "billable"}

\* Members that may still run, or are run by an execution that lost its lease.
Live == {j \in Members : \/ status[j] \in {"queued", "running"}
                         \/ \E n \in 1..MaxTries : pc[<<j, n>>] \notin {"none", "over"}}

\* The root ends with all its members, or with a failed one (fail_fast), and the
\* cost is frozen in its terminal snapshot.
RootEnds ==
    /\ bill.state = "none" /\ Members # {}
    /\ \/ \A j \in Members : status[j] = "succeeded"
       \/ \E j \in Members : status[j] = "failed"
    /\ bill' = [state |-> Frozen, counted |-> Counted, live |-> Live]
    /\ UNCHANGED <<kind, job, pc, raised, ledger, index, faults>>

-----------------------------------------------------------------------------
RunStep(r) ==
    \/ Execute(r) \/ ExecutorRaises(r) \/ WriteResult(r)
    \/ RunSideEffect(r) \/ SideEffectRaises(r) \/ MarkSucceeded(r)
    \/ OpenCall(r) \/ CallDirectly(r) \/ ProviderReplies(r) \/ Settle(r) \/ UseAnswer(r)
    \/ HeartbeatFails(r) \/ RecordFailure(r)

Next ==
    \/ \E j \in Jobs : Submit(j) \/ Claim(j)
    \/ \E r \in Runs : RunStep(r) \/ Crash(r)
    \/ \E r \in Runs : RecoverAttempt(r) \/ RecoverRow(r)
    \/ RootEnds

\* Workers go on with what they run, and the role loop of recovery runs for ever.
Fairness ==
    /\ \A r \in Runs : WF_vars(RunStep(r))
    /\ \A r \in Runs : WF_vars(RecoverRow(r))

Spec == Init /\ [][Next]_vars
FairSpec == Spec /\ Fairness

-----------------------------------------------------------------------------
(* Properties.                                                              *)

\* The attempts whose call goes through generate_text_with_ledger or a sibling.
Ledgered == {r \in Runs : kind[r[1]] = "model"}

\* When the billing of a scope says that it is complete, it counts every call
\* made through the ledger that the provider charges for, whatever crashed, was
\* cancelled or came too late.  Nothing is said of calls past the ledger.
BillingCoversLedgered == Final => charged \cap Ledgered \subseteq Counted

\* A cost frozen as final is complete, as far as calls go through the ledger,
\* when no member was running, or could still run, when the root ended.
FrozenCoversLedgered ==
    bill.state = "final" /\ bill.live = {} => charged \cap Ledgered \subseteq bill.counted

\* A provider is not called again to repair the ledger: an attempt that failed
\* because its row could not be updated is the last one of its Job.
LedgerFailureNotReplayed ==
    \A r \in Runs : error[r] = "AI_LEDGER_UPDATE_FAILED" => tries[r[1]] = r[2] /\ status[r[1]] = "failed"

\* What is recorded of a call is not changed by an answer that comes later, nor
\* by recovery.
RowSettledOnce ==
    [][\A r \in Runs : row[r] \notin {"none", "pending"} => row'[r] = row[r]]_vars

\* Of one Job after the other, the last one decides about the item if it has
\* succeeded, unless an execution that had lost its lease wrote to the index.
LastJobDecides ==
    \A j \in Indexing :
        status[j] = "succeeded" /\ late = {} /\ (\A i \in Indexing : i > j => status[i] = "absent")
            => item = IF kind[j] = "upsert" THEN j ELSE NoItem

\* No ledger row stays pending for ever.
RowsSettle == \A r \in Runs : row[r] = "pending" ~> row[r] # "pending"

-----------------------------------------------------------------------------
(* Documented, but not what the code does: see the findings in PROJECT.json.*)

\* docs/api/asset-vector-api.md: after a deletion has succeeded, the items do
\* not exist in this service.  An upsert that has failed before may still write.
DeletedStaysDeleted ==
    \A j \in Indexing :
        status[j] = "succeeded" /\ kind[j] = "delete"
        /\ (\A i \in Indexing : i > j => status[i] = "absent")
            => item = NoItem

\* docs/current/ai-billing.md: the ledger is the source of facts about provider
\* calls, and the billing of a public root covers the AI calls of its
\* descendants.  Calls past the ledger are missing from it: the root of children
\* that have all succeeded has a final cost of zero.
BillingCoversDescendants ==
    bill.state # "none" /\ (\A j \in Members : status[j] = "succeeded") /\ Final
        => charged \subseteq Counted
=============================================================================
