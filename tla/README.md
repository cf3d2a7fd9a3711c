# TLA+ models of the Job kernel of embedding-service

The service accepts AI jobs over HTTP, stores them in PostgreSQL and executes
them on Taskiq workers. Its reliability rests on a small kernel of database
rows that several independent processes move forward, each in short
transactions with `FOR UPDATE SKIP LOCKED`, and none of them trusting the
others to be alive. This directory models that kernel in TLA+, checks it with
TLC on small instances and proves its main invariants with TLAPS for instances
of every size.

## 1. Inventory

| Part | Code | State | Operations | Model |
|---|---|---|---|---|
| API, submission | `app/services/jobs.py`, `job_repo.create` | `job_submission_keys`, `job_aggregates` | `create_job`: idempotency key, capacity gate, rows of the new Job | `Submission` (keys and locks), `WorkflowKernel` (what the gate answers), `JobKernel!Submit` (the rows) |
| Execution kernel | `job_repo.py`, `models/job.py` | `job_aggregates`, `job_execution_attempts` | claim, heartbeat, success, failure, retry | `JobKernel` |
| Dispatcher | `runtime/dispatcher.py`, `tasks/jobs.py:159` | `dispatch_outbox` | lease, publish to the broker, record | `JobKernel` |
| Broker | Taskiq and Redis (external) | queued messages | deliver, redeliver, lose | `JobKernel`, external |
| Worker | `tasks/jobs.py:224`, `jobs/runner.py` | one running attempt, its lease token | claim, execute under a heartbeat, write the result | `JobKernel`, `AttemptRun` (the commits inside one execution) |
| Reconciler | `tasks/recovery.py` | session advisory lock, list of stale attempts | stale attempts, dead letters, unpublished dispatches, workflow roots, AI ledger, cleanup | `JobKernel` (the first three), `WorkflowKernel` (roots), `Submission` (the pass as one transaction, its locks, cleanup), `AttemptRun` (ledger rows) |
| Callbacker | `runtime/callbacker.py`, `services/callbacks.py` | `callback_outbox` | lease, POST, record | `CallbackDelivery` |
| Workflow orchestrator | `workflows/orchestrator.py` | root and child Jobs, frozen plan | create ready children, finish the root | `WorkflowKernel` |
| Workflow compiler | `workflows/compiler.py`, `workflows/base.py` | none (pure) | expressions to a frozen plan | `WorkflowCompiler` |
| Delete, restore, cleanup | `job_repo.py:1877-2138`, `scripts/job_ops` | `deleted_at` of families and keys | soft delete, restore, expiry | `Submission` |
| AI ledger, billing | `ai/kernel.py`, `ai_call_log_repo.py`, `services/billing.py` | `ai_call_ledger_entries` | pending, succeeded, failed, stale; the cost of a root | `AttemptRun` |
| Asset index | `business_packages/asset_vector` | items of the vector index | upsert join, batch delete | `AttemptRun` (one item) |
| Rest | HTTP schemas, catalog, other business packages, object storage, tools, configuration, dashboard, CLIs, migrations | none shared with the kernel | | not modelled, section 5 |

How the parts interact: API, retries and workflow creation write a *dispatch
row*; the dispatcher turns it into a broker *message*; the worker turns the
message into a *lease* on the attempt; the terminal transaction writes a
*callback row*; the callbacker turns it into a POST. The reconciler looks at
rows that stopped moving. There is no shared memory: every interaction is a row,
a lock or a message, so the hard behaviours are interleavings of transactions,
lost and repeated messages, leases that end while their holder is alive, results
that arrive late, locked rows that look absent, transactions that wait for one
another, and processes that die between two commits. `PROJECT.json` lists them
one by one ("hazards").

What makes each part correct:

- *kernel*: status and active attempt agree; one chain of attempts; one worker
  per attempt; terminal status final and announced exactly once; every Job ends;
- *dispatcher*: outcomes fenced by the lease token; no worker runs an attempt that
  was failed for its dispatch, then or later; a queued Job always has a dispatch row;
- *callbacker*: results fenced and final, delivered means accepted, uncounted
  requests only through faults, no row is stranded by anything but a lowered
  maximum;
- *workflows*: a plan demands exactly the waits of its expression; a child runs
  after its dependencies; the root ends, once, with a result its children justify
  and not before its required children; submission and fan-out together stay
  within `MAX_ACTIVE_JOBS`;
- *submission and retention*: a key belongs to at most one request or Job at any
  time, a family is deleted and restored whole, waits never close a cycle except
  through the recovery pass, what has expired is cleaned up;
- *billing and index*: a complete billing counts every charged call that was made
  through the ledger (not every call is: section 3), a settled ledger row is final,
  every row settles, the last successful indexing Job decides about its item.

## 2. Modules

| Module | What it is |
|---|---|
| `JobKernel`, `MCJobKernel` | Aggregate, attempts, dispatch rows, broker, workers, dispatchers, reconciler and operator |
| `JobLifecycle` | The abstract lifecycle of a Job: what API and callback receiver see; `JobKernel` implements it |
| `CallbackDelivery`, `MCCallbackDelivery` | callback rows and callbackers of changing releases |
| `WorkflowKernel` | a workflow root, its children, the capacity gate and recovery |
| `WorkflowLifecycle` | the abstract workflow: which nodes have run and the root's result; `WorkflowKernel` implements it |
| `WorkflowCompiler` | the compiler, and what its expressions mean |
| `MCWorkflowKernel` | composes `WorkflowKernel` and `WorkflowCompiler`: the plans that roots start with are the compiler's |
| `Submission`, `MCSubmission` | keys, gate and row locks: requests, deletion, restore, workflow advances, the recovery pass |
| `AttemptRun`, `MCAttemptRun` | the commits of one execution, the AI ledger and billing, one item of the index |
| `JobKernelProofs`, `JobDispatchProofs`, `CallbackDeliveryProofs`, `WorkflowKernelProofs`, `SubmissionProofs`, `AttemptRunProofs`, `WorkflowCompilerProofs`, `MCWorkflowKernelProofs` | the theorems |

The modules cut the same system at different levels. `JobKernel` has the rows
and leases of Jobs one by one; the others take a Job that is queued or running
as one status and look at what several Jobs share: a workflow, a key, a lock, a
ledger, an index. Each module says in its header where the others take over.

### JobKernel

| Variable | Code |
|---|---|
| `status[j]`, `active[j]` | `job_aggregates.status`, `active_attempt_id` (as the attempt's number) |
| `attempt[j][n]` | the row of `purpose_attempt_no` n: status, `lease_token`, lease, `failure_phase` |
| `dispatch[j][n]` | its dispatch row: status, token, whether it is due, `publish_attempts` |
| `callback[j]` | event types with a row in `callback_outbox` |
| `broker` | undelivered `run_attempt` messages |
| `worker[w]` | where `run_job_attempt` is: claiming, claimed, executing, saving, failing |
| `publisher[p]` | where `publish_job_attempt` is: leased, accepted, rejected |
| `stale` | the list `find_stale_running_attempts` returned |
| `faults` | faults injected so far (a bound of the model) |

An action is one transaction or one broker call. Time is abstract: a lease that
is live may expire at any moment, a scheduled row may become due at any moment.
A `lease_token` (a fresh uuid) is represented by the process it was issued to:
a process works on one lease at a time, so the two tell apart the same things.
Locked rows look absent (`SKIP LOCKED`): every lookup by a token may miss, which
counts as a fault. The reconciler commits once per pass; its rows belong to
different Jobs and stay locked until that commit, so a pass is modelled as one
action per row, plus `RecoverySkips` for a row that was locked or a pass that
rolled back. Recovery's repairs for a missing dispatch row and for a missing
callback row have no action: `QueuedIsDispatchable` and `ImplementsLifecycle`
show that the code never needs them.

Abstracted: progress texts, error payloads, audit events, results. The stages of
one execution between the executor's return and `mark_succeeded` are one step,
`saving`; `AttemptRun` has them one by one. Soft delete (`deleted_at`) is
`Submission`'s, workflow purposes are `WorkflowKernel`'s.

### CallbackDelivery

| Variable | Code |
|---|---|
| `row[r]` | the `callback_outbox` row: status, token, `over` (lease expired), `due`, `delivery_attempts` |
| `caller[c]` | where `deliver_callback_for_job` is: peeking, posting, posted |
| `settings[c]` | `settings.callback.max_delivery_attempts` of the release the callbacker runs |
| `posts[r]`, `accepted[r]` | what the receiver saw (observers) |

`mark_callback_delivering` leaves `next_attempt_at` in the past when it leases a
row. So other callbackers still select the row, lock it, see the live lease and
let go: `Peek` and `Release`. In between, `mark_callback_result` of the holder
(`SKIP LOCKED`) finds nothing and its result is dropped: `Record` on a `Locked`
row.

A row keeps the maximum of the release that created it, while the query for due
rows compares `delivery_attempts` with the maximum of the release that looks. The
two may differ: `Redeploy` gives an idle callbacker another maximum at any time.
A row is then invisible to every callbacker exactly while all of them allow fewer
attempts than were already made (`Overtaken`), and that is the only way in which
it can be stranded (`OnlyLoweringStrands`).

### WorkflowKernel

| Variable | Code |
|---|---|
| `plan` | the frozen `workflow_plan` in the root's `runtime_ref`: `deps`, `required`, `policy` |
| `root` | the root's row: `orchestrating` is queued, or running with an active attempt; `waiting` is running with `active_attempt_id` null |
| `outcome` | `canonical_result.workflow.outcome` |
| `child[n]` | the child Job of node n, `absent` if there is none |
| `others`, `arrivals` | other active Jobs as `count_active_jobs` sees them; how many ever came (a bound) |
| `disabled` | nodes whose `job_type` is no longer in an enabled business package |
| `listed` | recovery has read the root in `find_workflow_roots_for_reconciliation` |

Nodes are numbered in the plan's topological order. `InPlanOrder` says which
functions from nodes to sets of earlier nodes that order can produce: the queue of
`_topological_order` takes nodes in the order in which their last dependencies
were taken. `PlansAreCompiled` says that these are all the compiler's plans and no
others, up to names.

A Job of `JobKernel` that is queued or running with an attempt is one value here,
`active`: the capacity gate and `_has_active_children` do not tell the two apart,
and retries keep a Job active. The two modules meet in the transactions that end
a Job: `ChildEnds` is `FinishJob` of a child together with
`advance_workflow_after_child_terminal`, which the code calls before the commit,
and `ChildSideEffectFails` is `SideEffectRaises`, which does not call it.

An action is one transaction. That is sound for one root because
`get_workflow_root_for_update` waits for the root's row (no `SKIP LOCKED`) and
the gate's advisory lock is a transaction lock, both held until the commit: no
other transaction that creates children of this root, or admits any Job, comes
in between. A transaction that raises (`INVALID_JOB_TYPE` for a disabled child)
rolls back; in a worker the attempt is then failed or retried, which are other
steps, and in recovery it is `RecoveryRollsBack`.

Recovery first lists the roots, unlocked, then locks them one by one. The locked
`SELECT` returns the object the session already holds, with the attributes it
had when it was listed; so `RecoveryReconciles` is guarded by `listed` and not by
`root = "waiting"`, while `EndRoot` looks at the row itself, as the `WHERE` of
`mark_workflow_root_*` does. A root that ended in between may therefore still
be given a deferred child; its status and outcome do not move (`RootFinal`).

`WorkflowLifecycle` is what a caller is promised, without capacity, recovery or
redeployments: each transaction ends at most one node and then either starts
nodes that are ready or ends the root, never both; a node starts once and after
its dependencies; the root gets one result, which the nodes justify.
`KeepsPromise` is the refinement, with `Result` for the result and the children
as they are. A fan-out that creates the child of a failed node once more breaks it
(`MutantCreated`).

Abstracted: result and progress projections, node weights, audit events,
what is validated of a child's parameters besides its `job_type`.

### WorkflowCompiler

No state: `CompileWorkflow` is `compile_workflow`, operator by operator. An
expression is the sequence of its objects, parts before what they are parts of, a
part named by its position; so `_compile_expr`, recursive in the code, is a function
of the positions (`Compiled`) that needs the values before its own. `map`, `starmap`
and `chunks` differ in what they put into `job_params`; here they are one
`Expansion` with a number of items and a chunk size. Keys are numbers, compared and
sorted, and an expansion's keys follow its prefix, so that they can meet those of
tasks as `prefix.0` can in the code. The list `ordered` and the queue `ready` of
`_topological_order` are one sequence, `Queue`, of which the first t keys have been
taken; the in-degree of a key is zero when all it depends on is among those.

`WellFormed` and `Implements` are the reference: what an expression means, stated
without roots, leaves and queues (`Meaning`: every node of a step waits for every
node of the steps before it, and for its explicit `depends_on`). A plan links only
the roots of a step to the leaves of the one before it, so it is not compared wait
by wait: `Implements` says that the same sets of nodes may have run (`Closed`),
besides that each node is there once and after all it waits for.

Left out: the validation of single fields and of `job_params`, weights and
`required` (copied), and the dependencies that `compile_registered_workflow`
checks between job types.

### Submission

| Variable | Code |
|---|---|
| `job[j]` | a public root Job: its phase, `client_request_id`, the status of its `job_submission_keys` row, `deleted_at`, whether `expires_at` has passed, and the status its internal children have in common |
| `pc`, `name`, `at` | which lock or commit each transaction comes to next, for which key and Job |
| `keyLock`, `gate` | `pg_advisory_xact_lock` of a key, of the capacity gate |
| `rowLock` | `FOR UPDATE` of a root's row |
| `todo`, `spawned`, `closed` | what one recovery pass has still to lock, and what it writes at its commit |

An action takes one lock or commits. Two clients, a worker that advances a root,
an operator that deletes and restores, and the reconciler run side by side; a
transaction that finds a lock taken waits, except for deletion and cleanup, which
skip locked rows. `DeadlockVictim` is PostgreSQL's: one transaction of a cycle
of waits is aborted. What a workflow decides and what the gate answers are free
choices here, which is sound for properties about keys, families and waits.

### AttemptRun

| Variable | Code |
|---|---|
| `status`, `tries`, `error` | Jobs, their attempts and recorded error codes |
| `pc[r]`, `raised[r]` | how far `execute_job` has come for the attempt r, and the error on its way out |
| `row[r]`, `charged` | the `ai_call_ledger_entries` row of its AI call; the calls the provider charges for |
| `item`, `late` | the Job whose version of the item is indexed; Jobs that changed it without their lease |
| `bill` | the cost in the root's terminal snapshot |

`execute_job` commits several times, and each commit makes visible what the
executor has written before it, whatever `update_progress` answers: `WriteResult`
and `RunSideEffect` commit together with a stage that may then fail. An execution
that recovery has given up goes on until its heartbeat stops it. The provider
charges, or does not, as it likes, also for calls that were given up. Amounts,
currencies and units are left out: a row is `billable` (succeeded, with a cost),
`uncosted` (the cost could not be calculated) or `unknown` (failed: it may have
been charged for or not).

Jobs are of four sorts. Members of one workflow root call models: `model` through
`generate_*_with_ledger`, with a committed row before the call (`OpenCall`,
`Settle`), and `direct` past the ledger (`CallDirectly`, `UseAnswer`), as
`asset_vector_embed_item` and `asset_image_tagging` do. `upsert` and `delete` are
the Jobs that change the asset index. A model Job may be retried when its type
has a retry policy (`RetriedJobs`); the others never are. `Codes` are the error
codes that behave differently: `AI_PROVIDER_FAILED` stands for every code a policy
retries after a call (poster_title_image names several), `OTHER` for those no policy
names.

## 3. Runs

| Run | Instance | Shows |
|---|---|---|
| `job_kernel` | 1 Job, 2 workers, 2 dispatchers (the second one for first attempts only), 2 attempts, 2 publish tries, 1 fault | type invariant, `ActiveAttemptAgrees`, `AttemptChain`, `SingleExecution`, `QueuedIsDispatchable`, `DispatchFailureNeverRan`, `DispatchFenced`, and `ImplementsLifecycle` |
| `job_kernel_live` | 1 worker, 1 dispatcher, 2 attempts, 2 publish tries, 1 fault | `EventuallyTerminal`, `DispatchSettled` |
| `recovery_toctou` | 1 worker, 1 dispatcher, 1 fault | a disagreement with the documentation |
| `callback_delivery` | 2 callbackers, 2 rows, maxima 1 and 2 that change at any time, 1 fault | the safety of callback delivery and `OnlyLoweringStrands` |
| `callback_budget` | 2 callbackers, 1 row, 1 fault | a disagreement with the documentation |
| `workflow_kernel` | every plan of 4 nodes, 2 active Jobs, 1 outside event; 4201 expressions | the safety of workflows, the refinement of `WorkflowLifecycle` (`KeepsPromise`), `OnlyDisabledStrands`, and the compiler against its reference on every expression of the instance |
| `workflow_deferred` | 2 nodes, 1 active Job, 1 outside event | a disagreement with the documentation |
| `workflow_disabled` | the same | a disagreement with the documentation |
| `submission` | 2 clients, 1 worker, operator, reconciler, 2 keys, 2 Jobs, 1 fan-out, one workflow with a disabled node | `KeyClaimedOnce`, `FamilyAgrees`, `DeadlocksAreThePass`, `ExpiredCleaned` |
| `attempt_run` | 2 Jobs (one of them retried when they call models), 2 tries, 1 fault | `BillingCoversLedgered`, `FrozenCoversLedgered`, `LedgerFailureNotReplayed`, `LastJobDecides`, `RowSettledOnce`, `RowsSettle` |
| `unledgered_call` | 1 Job, 1 try, no fault | a disagreement with the documentation |
| `deleted_item` | 2 indexing Jobs, 1 try, 1 fault | a disagreement with the documentation |

Bounds. Jobs share nothing in the kernel but the processes that serve them, and
a process that serves another Job looks, to this one, like an idle one: one Job
is enough for the safety runs, and the theorems cover any number. Two attempts
give a first attempt, a retry and an exhausted policy; two publish tries give a
retry and a dead letter; two workers and two dispatchers give every race for a
row. One fault lets each kind of failure happen once anywhere, on top of the
unlimited delays (leases and due times are not faults). `SecondDispatcherBounded`
is the state constraint of `job_kernel`: one of the two dispatchers is at work only
as long as there is no retry. Every race of two dispatchers for a row happens on
the first attempt, and a retry has a row of its own; what the two do to the row of
a retry is covered by the theorems, which know no such bound. `publish_attempts`
has no limit in the code, for an orphan window or an operator may publish a row
again and again; `OneMoreTry` stops counting at `MaxPublish`, from where on all
counts are treated alike, and nothing is claimed about the number of publishes.
`MaxFaults` is a bound of the model and not
a parameter of the system, as are `MaxChanges`, `MaxJobs` and `MaxSpawns`.
Deadlock checking is off: a finished Job is meant to rest.

In `WorkflowKernel` every plan is an initial state. Four nodes are the least that
contain a diamond (two nodes that depend on one and share a dependent) and a
required node behind an optional one beside an independent branch; a limit of
two is the least at which one fan-out is admitted in part. `MaxChanges` bounds
the environment: with one event another Job can take the place a child was
deferred for, or a node can be disabled. `OnlyDisabledStrands` says when a root
may stay open: only if, in the end, there always is room for a ready child whose
node is disabled (`AdmissionRaises`), or there would be as soon as a child that is
active failed (`AdmissionHinders`). The second is no luxury: the end of the active
child and the attempt to create the disabled one are one transaction, so that the
active child can then not be ended by anyone and keeps the gate closed itself.

The expressions of the compiler are all leaves (tasks with no or one dependency,
also unknown and on themselves; expansions of up to three items, chunk sizes from
zero), all chains, groups and chords of two leaves, chains of three, and nests of
depth three. A step of several nodes between two others, where roots and leaves
matter, needs no more; expressions over one set of keys include every kind of
duplicate and of cycle. TLC evaluates the compiler once per run, not per state.

`Submission` needs two Jobs for a key to change hands and for the pass to hold
the gate from one root while it waits for the next, two clients for a race and
two keys so that not everything conflicts. In `AttemptRun` two Jobs are enough to
put one root's members, or two indexing Jobs, against each other, and two tries
put an execution that lost its lease beside the retry. The ledger and the index
have nothing in common, and calls past the ledger touch neither, so a behaviour has
Jobs of one sort (upsert and delete together).

Fairness. The role processes loop for ever (`runtime/common.py`) and the worker
is a consumer loop, so each of their steps is weakly fair. `ExecutorReturns` and
`MarkSucceeded` are fair on their own: executors are assumed to return (the code
enforces no deadline) and a result is eventually saved rather than the lease
renewed for ever. An abandoned lease expires and scheduled times come. The
liveness run has one dispatcher: two that took turns in outliving the publish lease
of one row would keep it leased for ever, and nothing in the code excludes that. In
`CallbackDelivery` recording a result is strongly fair: a result is dropped on a
locked row only finitely often (each drop is a fault). Leasing a row is strongly
fair: each pass of a callbacker goes through all due rows in turn. In
`WorkflowKernel` orchestration, the failure of each active child and the end of
other Jobs are weakly fair, and so are the two halves of a recovery pass; a pass may
succeed or raise. That an active child which does not succeed is failed in the end is
what `EventuallyTerminal` says of `JobKernel`; the worker or recovery does it, in one
transaction with the advance of the root, and it happens only when that transaction
does not raise. Success is never forced, nor is a failing side effect. In
`Submission` the steps of each process are strongly fair, for PostgreSQL serves
those who wait for a lock in turn, and a cycle of waits is broken in the end
(`deadlock_timeout`). In `AttemptRun` each execution goes on, or crashes, and
recovery looks at each pending row again and again. Nothing is assumed of
requests, arrivals, faults, redeployments and the operator's commands.

Disagreements with the documentation (details in `PROJECT.json`):

1. *Recovery may fail an attempt with a live lease* (`RecoveryOnlyExpired`). The
   scan does not lock and `mark_attempt_failed` does not look at
   `lease_expires_at`; a heartbeat in between is overruled.
2. *A callback may be POSTed more often than `max_delivery_attempts`*
   (`DeliveriesWithinBudget`). An exchange is counted when its result is
   recorded. `UncountedPostsAreFaults` is the bound that does hold.
3. *A root may end although ready children only wait for capacity*
   (`DeferredRootWaits`). The verdict sees "nothing created, nothing active, a
   failed child" and cannot tell "deferred" from "unreachable".
   `EndsAfterRequired` is what does hold: no required child is still *running*.
4. *A disabled child keeps its root from ending* (`RecoveryEndsRoot`). Creating a
   deferred child of a disabled package raises in every recovery pass. A child that
   is active beside it may stay active for ever too (`AdmissionHinders`).
5. *A deleted item may come back* (`DeletedStaysDeleted`). An upsert that lost its
   lease, and whose Job has failed, still commits its items; if a deletion came in
   between, the items exist again. `LastJobDecides` holds without such a stall.
6. *Some charged calls are in no billing* (`BillingCoversDescendants`).
   `asset_vector_embed_item` and `asset_image_tagging` call their providers without
   a ledger row. A root whose children do so gets `not_billable`, no calls and a
   final cost of 0, while the documents call the ledger the fact source of provider
   calls and show one call for such Jobs. `BillingCoversLedgered` and
   `FrozenCoversLedgered` are what holds: of the calls made through the ledger none
   is missing. The search endpoint of asset_vector (`router.py:47-49`) embeds
   outside any Job, hence in no scope, and is not modelled.

Smaller ones, met while modelling and not stated as runs: the poster-title-image and
asset-vector pages (`docs/api/poster-title-image-api.md:333`,
`docs/api/asset-vector-api.md:1072`) give `return_existing` as the default for a
repeated key, the code's default is `reject_duplicate` (`services/jobs.py:601`).
`poster-title-image-api.md:86` calls the cost in a terminal snapshot final;
`FrozenCoversLedgered` gives the condition, for calls made through the ledger: no
member was alive when the root ended, which `fail_fast` does not wait for. A
restored family keeps its `expires_at`, so the next cleanup deletes it again. Two
keys with the same advisory-lock hash wait for each other, which adds waiting and
changes nothing else.

## 4. Proofs

`JobKernelProofs` proves for every set of Jobs, workers and dispatchers and every
value of `MaxAttempts`, `MaxPublish`, `MaxFaults` (under `KernelAssumption`):

| Theorem | Property |
|---|---|
| `TypeCorrect` | `TypeOK` |
| `ActiveAttemptCorrect` | `ActiveAttemptAgrees` |
| `ChainCorrect` | `AttemptChain` |
| `SingleExecutionCorrect` | `SingleExecution` |
| `KernelImplementsLifecycle` | `ImplementsLifecycle` |

`TypeCorrect` bounds the attempts of a Job by `MaxAttempts`; the count of publishes
is only a natural number in it.

The argument. `Typed` is `TypeOK` in four parts, with one strengthening: a
worker that is not idle works for an existing Job and attempt number, and a
running attempt carries the token of a worker. It is inductive alone
(`TypedStep`). `ChainInv` adds `ActiveAttemptAgrees`, `AttemptChain` and
`CallbackFollows` (callback rows are those of the terminal status); none of the
three is inductive alone, since the retry branch needs to know that the next
attempt number is unused and the terminal branch that no event exists yet.
`KernelStep` reduces the many actions to five effects on a Job (submit, start,
retry, finish, nothing); the invariant and the refinement are then proved
per effect and not per action. `SingleExecution` is inductive relative to
`ChainInv`: only `Claim` makes a worker busy, it needs a pending attempt, and an
attempt that has been claimed never becomes pending again (`ClaimedStays`).

`WorkflowKernelProofs` proves for every number of nodes, every plan, every limit
(0 included) and every number of arrivals and disabled nodes (under
`WorkflowAssumption`):

| Theorem | Property |
|---|---|
| `WorkflowTypeCorrect` | `TypeOK` |
| `DependenciesRespected` | `ChildAfterDependencies` |
| `OutcomeCorrect` | `OutcomeJustified` |
| `RootEndsOnce` | `RootFinal` |
| `RequiredChildrenEndFirst` | `EndsAfterRequired` |
| `KernelKeepsPromise` | `KeepsPromise` |
| `CapacityRespected` | `ActiveWithinLimit` |

The argument. `Sound` is `TypeOK`, `ChildAfterDependencies`, `OutcomeJustified`
and `Fresh`: an orchestrating root has no children, and no recovery pass has
listed a root that orchestrates or that failed without children. The first part
is needed because a failed orchestration would otherwise leave a failed root with
succeeded children, the second because a pass could give such a root children
after its end; `OutcomeJustified` excludes both. Every action changes
the children in one of two ways, creating ready ones or ending an active one, and
the root in one of a few (`ReconcileEffect`, `KernelStep`); the parts of `Sound`
are shown per effect. `CapacityRespected` is inductive relative to `Sound`. Its
core is `AdmissionFits`: children are admitted in plan order, each against the
number admitted before it, so the last one admitted (`HasLast`) was below the limit
with all the others counted. The orchestrating root may be left out of that
count because the transaction that uses its place also gives it up.

`KernelKeepsPromise` is shown through `Moves`: under `Sound`, each action ends at
most one child and then starts ready ones or ends the root, and each such move is
a step of `WorkflowLifecycle`. A failed orchestration is the one end of a root
that no verdict decides; `Fresh` gives that it leaves no child behind.

(`InPlanOrder` only restricts the plans; the proofs use no more of it than that
dependencies come first.)

`JobDispatchProofs` goes on from `JobKernelProofs`, for the same constants:

| Theorem | Property |
|---|---|
| `QueuedDispatchable` | `QueuedIsDispatchable` |
| `DispatchFencedCorrect` | `DispatchFenced` |
| `NeverRanCorrect` | `DispatchFailureNeverRan` |

`DispatchStep` reduces the actions to what they do to one dispatch row: it is
created with its attempt, leased, marked by its holder, settled by recovery,
replayed by the operator, or kept. `DispatchFollows` (no row without its attempt)
makes the creation of a row fresh; `QueuedIsDispatchable` follows, since no effect
removes a row. `DispatchFailureNeverRan` is inductive together with
`FailedForDispatch` (an attempt failed for its dispatch has ended): an attempt
in that state cannot be claimed, and one that was claimed has left "pending".

`CallbackDeliveryProofs`, for every number of rows and callbackers, every maximum
and number of faults (under `CallbackAssumption`):

| Theorem | Property |
|---|---|
| `CallbackTypeCorrect` | `TypeOK` |
| `DeliveredCorrect` | `DeliveredWasAccepted` |
| `BudgetCorrect` | `UnsettledHasBudget` |
| `FencedCorrect` | `ResultFenced` |
| `SettledCorrect` | `SettledFinal` |
| `UncountedCorrect` | `UncountedPostsAreFaults` |

`Sound` adds to the properties that a working callbacker has a row (`Assigned`)
and that one which believes its POST accepted is right (`Believed`). The bound on
uncounted requests is an account, `AllPaid`: requests sent, plus callbackers still
to POST on a lease they lost (`Strays`), plus a lapsed lease whose holder is at
work (`Lapsed`), never exceed the counted attempts, plus the faults, plus the
request its holder has still to record (`Sent`). A lease that lapses under its
holder has cost a fault; taking it over turns `Lapsed` into a stray, and the
stray's POST turns that into a request.

`SubmissionProofs`, for any number of clients, workers, keys, Jobs and fan-outs
(under `SubmissionAssumption`):

| Theorem | Property |
|---|---|
| `SubmissionTypeCorrect` | `TypeOK` |
| `FamilyCorrect` | `FamilyAgrees` |
| `KeyCorrect` | `KeyClaimedOnce` |
| `DeadlockCorrect` | `DeadlocksAreThePass` |

`Roles` and `Holders` say which transaction may hold which lock at which step.
`FamilyInv` adds what the locks protect: a restore has its family locked and
deleted (`RestorerHolds`), a worker has the active child of its root to itself
(`WorkersHold`), the roots that the pass fans out are locked by it and not deleted
(`PassHolds`). `KeysClaimed` says that who writes under a key holds its lock and
that nobody owns it. For the deadlocks: by `Holders`, who waits for
a key waits for a process that has its key and needs only the gate; who waits for
a row waits for a restore, a worker that has its root and needs the gate, or the
pass; who waits for the gate waits for a transaction about to commit, or for the
pass. So every cycle comes to the gate, its holder in the cycle is the pass, and
what the pass waits for is a row, by `PassLocksOnce` not one of its own.

`AttemptRunProofs`, for any number of Jobs, tries and faults and every retry
policy that does not name the ledger failure (`RunAssumption`; no policy in the
repository does):

| Theorem | Property |
|---|---|
| `RunTypeCorrect` | `TypeOK` |
| `BillingCorrect` | `BillingCoversLedgered` |
| `FrozenCostCorrect` | `FrozenCoversLedgered` |
| `NoReplayCorrect` | `LedgerFailureNotReplayed` |
| `SettledOnceCorrect` | `RowSettledOnce` |
| `LastJobCorrect` | `LastJobDecides` |

A charged call of a `model` Job has a row (`ChargedHaveRows`), since the row is
committed before the call; nothing is proved of calls past the ledger; a final
billing has only billable rows. `FrozenCorrect` adds that a root which ended with
nothing alive stays so (`NoneRevives`). For the index: attempts that were not
claimed have not begun (`Unclaimed`), indexing Jobs come one after the other
(`OneAfterTheOther`), and the item is as the latest one wants it from the commit
that wrote it on (`ItemFollows`), unless somebody wrote late.

`WorkflowCompilerProofs`, for every expression, of any size and nesting, and any
`max_nodes` (no assumption but `IsExpression`, which says what an expression is):

| Theorem | Says |
|---|---|
| `CompilerExact` | `CompileWorkflow(e, maxNodes) # Rejected <=> WellFormed(e, maxNodes)` |
| `CompilerFaithful` | what is not rejected satisfies `Implements(CompileWorkflow(e, maxNodes), e)` |

The compiler is recursive, and no induction theorem with an operator parameter can
be used. So induction is on sets: `Positions` is complete induction over the members
of an interval that a set contains, by a least counterexample (`HasLeast`), and
`Recursion` shows by it that a function defined from its earlier values exists, the
defining step being a function too. `CompiledEquation`, `MeaningsEquation` and
`QueueEquation` apply it to the three recursive definitions.

The topological order: `SortedKeys` says what sorting returns (by `Rank`, the number
of smaller keys). `QueueInv` holds after every turn (`TurnKeeps`): no key is queued
twice, a key is queued if and only if all its dependencies have been taken, they
come before it (`DependenciesFirst`), keys are queued in the order of their last
dependencies (`LastFirst`), and those freed in one turn ascend (`TiesSorted`). At
the end everything queued has been taken, so what is missing waits for something
missing: nothing is, when no keys wait for each other (`OrderComplete`, `Acyclic`).

The waits: `Faithful` relates what an object is compiled to with what it means, and
is shown of every object by `Positions` (`ObjectsFaithful`): the nodes are those
meant; the roots and leaves are among its keys (`ProperEnds`); every dependency in
the plan is a wait that is meant (`Justified`); and in any set of nodes that may have
run, if one of the object has run, so has all that it waits for; if any has, some
root has, and when all leaves have, all have (`WaitsFor`). The last two are what makes
linking roots to leaves enough: a step that has begun has begun with a root, whose
links say that the leaves of the previous step, and so all of it, are over, and so on
back to the first (`StepsInTurn`). They hold of any set and not only of those of
acyclic plans, so `AcceptedIsWellFormed` can use them to bring a cycle of waits
back to a cycle of links.

`MCWorkflowKernelProofs` puts compiler and kernel together, for every number of
nodes:

| Theorem | Property |
|---|---|
| `RootPlansAreWellFormed` | `AcceptsTheWellFormed` |
| `RootPlansAreFaithful` | `PlansImplementExpressions` |
| `RootPlansAreCompiled` | `PlansAreCompiled` |

The order of a compiled graph satisfies `InPlanOrder` (`RenumberedIsInPlanOrder`, by
`DependenciesFirst` and `LastFirst`), and a graph in that order is kept as it is
(`PlanOrderIsKept`, by `TiesSorted`); so the plans that `WorkflowKernel` starts with
are the compiler's. The expressions of the first two properties are those of the
run, to which the two theorems about the compiler are applied.

Only model-checked: the liveness properties (`EventuallyTerminal`,
`DispatchSettled`, `OnlyLoweringStrands`, `OnlyDisabledStrands`, `ExpiredCleaned`,
`RowsSettle`), since fairness and `ENABLED` are out of the prover's reach. Every
invariant and every action property that a passing run checks has a theorem.

## 5. Not modelled, and what is left

- *Time as a number.* A lease may expire and a scheduled row may come due at any
  moment, so no property depends on the arithmetic of
  `_effective_attempt_lease_seconds` and of the backoff (`job_repo.py:19`).
- *AI gateway, catalog, adapters*: request shaping and route resolution are
  stateless; only the order of ledger commit, call and settlement, and the calls
  made without it, are modelled.
- *Business packages* other than the asset index and the calls past the ledger: the
  kernel sees an operation that returns or raises.
- *HTTP schemas, registries, configuration, object storage, tools*: stateless or
  I/O; the values the protocols depend on are constants of the modules.
- *Read-only tooling*: `scripts/jobs`, `scripts/load`, `smoke`, `poc`,
  `ops_dashboard` are the larger part of the repository's lines. They query and
  print, or drive the API from outside, and change no state the kernel shares; the
  commands of `scripts/job_ops` that do are actions of `JobKernel` (replay) and
  `Submission` (delete, restore).
- *Migrations*: one-shot DDL; the constraints that matter are in type invariants.

What could be added: executions with the row locks of worker and heartbeat
sessions as state, where `AttemptRun` has the miss as a choice; amounts in the
billing of a scope.
