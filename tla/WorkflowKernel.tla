--------------------------- MODULE WorkflowKernel ---------------------------
(***************************************************************************)
(* A workflow root Job, the internal child Jobs of its frozen plan, the    *)
(* MAX_ACTIVE_JOBS gate and the recovery pass that reconciles roots.       *)
(*                                                                         *)
(* Root and children are Jobs of JobKernel; here a Job that is queued, or  *)
(* running with an active attempt, is simply active, as it is for the      *)
(* capacity gate and for has_active_children: the retries inside it are    *)
(* JobKernel's.  One action is one transaction.  Reconciling locks the     *)
(* root row FOR UPDATE and admits children under the advisory lock of the  *)
(* gate, both until the commit, so transactions on one root are serial.  A *)
(* transaction that raises changes nothing: it is not a step.              *)
(*                                                                         *)
(* A node is its position in the plan's topological order.                 *)
(***************************************************************************)
EXTENDS Integers, FiniteSets

CONSTANTS
    NodeCount,      \* nodes of the plan
    MaxActive,      \* MAX_ACTIVE_JOBS; 0 disables the gate
    MaxChanges      \* bound on the events outside the workflow: other Jobs
                    \* submitted and nodes disabled by a redeployment

ASSUME WorkflowAssumption ==
    /\ NodeCount \in Nat \ {0}
    /\ MaxActive \in Nat
    /\ MaxChanges \in Nat

Nodes == 1..NodeCount

Policies == {"fail_fast", "allow_partial"}

\* The order in which _topological_order takes the nodes: dependencies first,
\* and otherwise in the order in which their last dependencies were taken.
InPlanOrder(deps) ==
    \A n \in Nodes :
        /\ deps[n] \subseteq 1..(n - 1)
        /\ \A m \in 1..(n - 1) : \A k \in deps[m] : \E l \in deps[n] : k <= l

Plan == [deps     : {d \in [Nodes -> SUBSET Nodes] : InPlanOrder(d)},
         required : SUBSET Nodes,
         policy   : Policies]

VARIABLES
    plan,       \* the frozen workflow_plan; never changes
    root,       \* "orchestrating": active attempt; "waiting": running without one
    outcome,    \* canonical_result.workflow.outcome of the root
    child,      \* the child Job of each node
    others,     \* other active Jobs, as the gate counts them
    arrivals,   \* other Jobs submitted so far
    disabled,   \* nodes whose job_type is no longer enabled
    listed      \* a recovery pass has read the root as waiting, without a lock

vars == <<plan, root, outcome, child, others, arrivals, disabled, listed>>

envVars == <<plan, others, arrivals, disabled>>

RootTerminal == {"succeeded", "failed"}

TypeOK ==
    /\ plan \in Plan
    /\ root \in {"orchestrating", "waiting", "succeeded", "failed"}
    /\ outcome \in {"none", "success", "partial_success"}
    /\ outcome # "none" <=> root = "succeeded"
    /\ child \in [Nodes -> {"absent", "active", "succeeded", "failed"}]
    /\ arrivals \in 0..MaxChanges
    /\ others \in 0..arrivals
    /\ disabled \subseteq Nodes
    /\ listed \in BOOLEAN

-----------------------------------------------------------------------------
(* The capacity gate.                                                       *)

ActiveChildren(c) == {n \in Nodes : c[n] = "active"}

GateIsOpen(active) == MaxActive = 0 \/ active < MaxActive

\* All Jobs that count_active_jobs counts.
ActiveJobs ==
    others + Cardinality(ActiveChildren(child)) + (IF root = "orchestrating" THEN 1 ELSE 0)

-----------------------------------------------------------------------------

Init ==
    /\ plan \in Plan
    /\ root = "orchestrating"
    /\ outcome = "none"
    /\ child = [n \in Nodes |-> "absent"]
    /\ others \in 0..MaxChanges
    /\ GateIsOpen(others)           \* the root was admitted
    /\ arrivals = others
    /\ disabled = {}
    /\ listed = FALSE

-----------------------------------------------------------------------------
(* create_ready_child_jobs.  c is the status of the children as the calling *)
(* transaction sees them.                                                   *)

\* Mutant: a dependency only has to exist.
MutantReady(c) ==
    {n \in Nodes : c[n] = "absent" /\ \A d \in plan.deps[n] : c[d] # "absent"}

Ready(c) ==
    {n \in Nodes : c[n] = "absent" /\ \A d \in plan.deps[n] : c[d] = "succeeded"}

Before(n, S) == {m \in S : m < n}

\* Mutant: the gate is asked once, before the first node.
MutantCreatable(c) ==
    {n \in Ready(c) : GateIsOpen(others + Cardinality(ActiveChildren(c)))}

\* Ready nodes are admitted in plan order until the gate, which does not
\* count the root itself, closes; the rest is deferred.
Creatable(c) ==
    {n \in Ready(c) :
        GateIsOpen(others + Cardinality(ActiveChildren(c)) + Cardinality(Before(n, Ready(c))))}

\* Mutant: only children that have not failed are found by their node.
MutantCreated(c) ==
    [n \in Nodes |-> IF n \in Creatable(c) \/ c[n] = "failed" THEN "active" ELSE c[n]]

Created(c) == [n \in Nodes |-> IF n \in Creatable(c) THEN "active" ELSE c[n]]

\* _create_child_job raises when the job_type of a node is not enabled.
AdmissionRaises(c) == Creatable(c) \cap disabled # {}

-----------------------------------------------------------------------------
(* reconcile_workflow_root.                                                 *)

SomeFailed(c) == \E n \in Nodes : c[n] = "failed"

FailsFast(c) ==
    plan.policy = "fail_fast" /\ \E n \in plan.required : c[n] = "failed"

\* Mutant: a required child that does not exist yet is overlooked.
MutantComplete(c) == \A n \in plan.required : c[n] \in {"absent", "succeeded"}

Complete(c) == \A n \in plan.required : c[n] = "succeeded"

PartlyComplete(c) == \E n \in plan.required : c[n] = "succeeded"

\* Mutant: children that still run are overlooked.
MutantStuck(c) == ~Complete(c) /\ SomeFailed(c)

Stuck(c) ==
    /\ ActiveChildren(c) = {}
    /\ ~Complete(c)
    /\ SomeFailed(c)

\* Mutant: the status of the row is not a condition of the update.
MutantEndRoot(s, o) == root' = s /\ outcome' = o

\* Mutant: the canonical result is not stored.
MutantForgetfulEndRoot(s, o) ==
    /\ root' = IF root = "waiting" THEN s ELSE root
    /\ UNCHANGED outcome

\* mark_workflow_root_succeeded and mark_workflow_root_failed select the row
\* as it is in the database, not as the session has it.
EndRoot(s, o) ==
    IF root = "waiting"
    THEN root' = s /\ outcome' = o
    ELSE UNCHANGED <<root, outcome>>

Verdict(c) ==
    \/ /\ Complete(c)
       /\ EndRoot("succeeded", IF SomeFailed(c) THEN "partial_success" ELSE "success")
    \/ /\ Stuck(c)
       /\ IF plan.policy = "allow_partial" /\ PartlyComplete(c)
          THEN EndRoot("succeeded", "partial_success")
          ELSE EndRoot("failed", "none")
    \/ /\ ~Complete(c) /\ ~Stuck(c)
       /\ UNCHANGED <<root, outcome>>

\* The root, its lock held, has been seen running without an attempt.
Reconcile(c) ==
    \/ /\ FailsFast(c)
       /\ child' = c
       /\ EndRoot("failed", "none")
    \/ /\ ~FailsFast(c)
       /\ ~AdmissionRaises(c)
       /\ child' = Created(c)
       /\ IF Creatable(c) = {} THEN Verdict(c) ELSE UNCHANGED <<root, outcome>>

ReconcileRaises(c) == ~FailsFast(c) /\ AdmissionRaises(c)

\* advance_workflow_after_child_terminal, in the transaction that ended a
\* child.  The session has not read the root before: it sees the locked row.
Advance(c) ==
    IF root = "waiting"
    THEN Reconcile(c)
    ELSE child' = c /\ UNCHANGED <<root, outcome>>

-----------------------------------------------------------------------------
(* Actions.                                                                 *)

\* The orchestration attempt creates the first children and gives up its
\* place as the active attempt, in one transaction.
Orchestrate ==
    /\ root = "orchestrating"
    /\ ~AdmissionRaises(child)
    /\ child' = Created(child)
    /\ root' = "waiting"
    /\ UNCHANGED <<outcome, envVars, listed>>

\* The last orchestration attempt fails: mark_attempt_failed or a dead letter.
OrchestrationFails ==
    /\ root = "orchestrating"
    /\ root' = "failed"
    /\ UNCHANGED <<outcome, child, envVars, listed>>

Ended(n, s) == [child EXCEPT ![n] = s]

\* mark_succeeded by the worker; mark_attempt_failed by worker or recovery,
\* or a dead letter, when no retry is left.
ChildEnds(n, s) ==
    /\ child[n] = "active"
    /\ Advance(Ended(n, s))
    /\ UNCHANGED <<envVars, listed>>

\* The success side effect of a child raises: mark_failed commits without
\* advancing the workflow.
ChildSideEffectFails(n) ==
    /\ child[n] = "active"
    /\ child' = Ended(n, "failed")
    /\ UNCHANGED <<root, outcome, envVars, listed>>

\* Mutant: recovery only looks for roots with a failed required child.
MutantRecoveryLists ==
    /\ root = "waiting"
    /\ \E n \in plan.required : child[n] = "failed"
    /\ ~listed
    /\ listed' = TRUE
    /\ UNCHANGED <<root, outcome, child, envVars>>

RecoveryLists ==
    /\ root = "waiting"
    /\ ~listed
    /\ listed' = TRUE
    /\ UNCHANGED <<root, outcome, child, envVars>>

\* The pass locks the root, but its session keeps the copy it has listed.
RecoveryReconciles ==
    /\ listed
    /\ Reconcile(child)
    /\ listed' = FALSE
    /\ UNCHANGED envVars

\* Admission raises and the whole pass is rolled back.
RecoveryRollsBack ==
    /\ listed
    /\ ReconcileRaises(child)
    /\ listed' = FALSE
    /\ UNCHANGED <<root, outcome, child, envVars>>

MayChange == arrivals + Cardinality(disabled) < MaxChanges

\* Other Jobs come through the same gate, and leave.
OtherArrives ==
    /\ MayChange
    /\ GateIsOpen(ActiveJobs)
    /\ others' = others + 1
    /\ arrivals' = arrivals + 1
    /\ UNCHANGED <<plan, root, outcome, child, disabled, listed>>

OtherEnds ==
    /\ others > 0
    /\ others' = others - 1
    /\ UNCHANGED <<plan, root, outcome, child, arrivals, disabled, listed>>

\* A redeployment no longer enables the business package of a node.
Disable(n) ==
    /\ n \notin disabled
    /\ MayChange
    /\ disabled' = disabled \cup {n}
    /\ UNCHANGED <<plan, root, outcome, child, others, arrivals, listed>>

Next ==
    \/ Orchestrate
    \/ OrchestrationFails
    \/ \E n \in Nodes :
          \/ \E s \in {"succeeded", "failed"} : ChildEnds(n, s)
          \/ ChildSideEffectFails(n)
          \/ Disable(n)
    \/ RecoveryLists
    \/ RecoveryReconciles
    \/ RecoveryRollsBack
    \/ OtherArrives
    \/ OtherEnds

Spec == Init /\ [][Next]_vars

-----------------------------------------------------------------------------
(* Safety.                                                                  *)

\* However orchestration, concurrent child endings and recovery interleave, a
\* child Job exists only when everything its node depends on has succeeded.
ChildAfterDependencies ==
    \A n \in Nodes :
        child[n] # "absent" => \A d \in plan.deps[n] : child[d] = "succeeded"

\* The result of the root stays justified by its children: "success" only
\* with every required child succeeded, "partial_success" only with a failed
\* child and what the failure policy asks for, failed only with a failed child
\* or because orchestration never got to create one.
OutcomeJustified ==
    /\ outcome = "success" => Complete(child)
    /\ outcome = "partial_success" =>
          /\ SomeFailed(child)
          /\ Complete(child) \/ (plan.policy = "allow_partial" /\ PartlyComplete(child))
    /\ root = "failed" => SomeFailed(child) \/ \A n \in Nodes : child[n] = "absent"

\* Public submission and the fan-out of workflows together never hold more
\* active Jobs than MAX_ACTIVE_JOBS, although a fan-out does not count its root.
ActiveWithinLimit == MaxActive = 0 \/ ActiveJobs <= MaxActive

\* Unless a required child failed under fail_fast, the root never ends while a
\* required child is still running.
EndsAfterRequired ==
    [][root = "waiting" /\ root' # "waiting"
          => FailsFast(child') \/ plan.required \cap ActiveChildren(child') = {}]_vars

\* An ended root keeps its status and outcome, also when children end later
\* and when a recovery pass reconciles a copy it read before the end.
RootFinal ==
    [][(root \in RootTerminal) => UNCHANGED <<root, outcome>>]_vars

-----------------------------------------------------------------------------
(* What the workflow promises to its caller: WorkflowLifecycle.             *)

Result ==
    CASE root = "succeeded" -> outcome
      [] root = "failed" -> "failed"
      [] OTHER -> "running"

Promise == INSTANCE WorkflowLifecycle WITH node <- child, result <- Result

\* Every transaction of orchestration, workers and recovery is a step of the
\* promise or leaves it alone: no node runs twice, a deferred or re-read child
\* is never created again, and no step ends the root and starts a child.
KeepsPromise == Promise!Spec

-----------------------------------------------------------------------------
(* Liveness.  Arrivals stop, and the reconciler loops.  An attempt that     *)
(* does not succeed is failed in the end, by its worker or by recovery      *)
(* (JobKernel), but in one transaction with the advance of the root: while  *)
(* the advance raises, the child stays active.  Nobody has to succeed, and  *)
(* nothing has to go wrong in a side effect.                                *)

Fairness ==
    /\ WF_vars(Orchestrate \/ OrchestrationFails)
    /\ \A n \in Nodes : WF_vars(ChildEnds(n, "failed"))
    /\ WF_vars(RecoveryLists)
    /\ WF_vars(RecoveryReconciles \/ RecoveryRollsBack)
    /\ WF_vars(OtherEnds)

FairSpec == Spec /\ Fairness

\* Admission raises for the children as they are, or as soon as one that is
\* active fails.
AdmissionHinders ==
    \E c \in {child} \cup {Ended(n, "failed") : n \in ActiveChildren(child)} : ReconcileRaises(c)

\* Every workflow ends: children whose failure advanced nothing, nodes deferred
\* for capacity and failed dependencies never strand the root.  Whatever a
\* redeployment disables, and whenever it does, a root ends unless, in the end,
\* there always is room for a ready child whose job_type is disabled, or would
\* be if a child that is still active failed: that child cannot fail then.
\* A disabled node that is never reached does no harm.
OnlyDisabledStrands ==
    <>(root \in RootTerminal) \/ <>[](root = "waiting" /\ AdmissionHinders)

-----------------------------------------------------------------------------
(* Documented, but not what the code does: see the findings in PROJECT.json.*)

\* docs/current/job-kernel.md: when capacity is short, the root stays running
\* without an attempt until recovery has created the deferred ready children.
\* The verdict, however, does not look at deferred nodes, not even at required
\* ones.
DeferredRootWaits ==
    [][root = "waiting" /\ root' # "waiting"
          => FailsFast(child') \/ plan.required \cap Ready(child') = {}]_vars

\* docs/current/job-kernel.md: recovery creates the missing ready children of
\* a waiting root or ends it.
RecoveryEndsRoot == root = "waiting" ~> root \in RootTerminal
=============================================================================
