------------------------ MODULE WorkflowKernelProofs ------------------------
(***************************************************************************)
(* Proofs about WorkflowKernel, for every plan of any size, any capacity   *)
(* and any number of other Jobs.                                           *)
(***************************************************************************)
EXTENDS WorkflowKernel, FiniteSetTheorems, WellFoundedInduction, TLAPS

ChildStatus == {"absent", "active", "succeeded", "failed"}

Children == [Nodes -> ChildStatus]

\* ChildAfterDependencies, of children as a transaction sees them.
Ordered(c) ==
    \A n \in Nodes : c[n] # "absent" => \A d \in plan.deps[n] : c[d] = "succeeded"

\* From c to d no child Job disappears and no ended child changes.
Keeps(c, d) ==
    \A n \in Nodes :
        /\ c[n] \in {"succeeded", "failed"} => d[n] = c[n]
        /\ c[n] # "absent" => d[n] # "absent"

LEMMA PlanDeps ==
    ASSUME plan \in Plan
    PROVE  \A n \in Nodes : plan.deps[n] \subseteq Nodes
BY DEF Plan

-----------------------------------------------------------------------------
(* What creating children and ending a child do to the children.            *)

LEMMA CreatedChildren ==
    ASSUME NEW c \in Children, plan \in Plan, Ordered(c)
    PROVE  /\ Created(c) \in Children
           /\ Ordered(Created(c))
           /\ Keeps(c, Created(c))
           /\ Creatable(c) = {} => Created(c) = c
<1>1. Created(c) \in Children
    BY DEF Created, Children, ChildStatus
<1>2. \A n \in Creatable(c) : n \in Nodes /\ c[n] = "absent"
                              /\ \A d \in plan.deps[n] : c[d] = "succeeded"
    BY DEF Creatable, Ready
<1>3. \A n \in Nodes : Created(c)[n] = IF n \in Creatable(c) THEN "active" ELSE c[n]
    BY DEF Created
<1>4. Keeps(c, Created(c))
    BY <1>2, <1>3 DEF Keeps
<1>5. Ordered(Created(c))
    BY <1>2, <1>3, PlanDeps DEF Ordered
<1>6. Creatable(c) = {} => Created(c) = c
    BY <1>1, <1>3 DEF Children
<1> QED
    BY <1>1, <1>4, <1>5, <1>6

LEMMA EndedChildren ==
    ASSUME TypeOK, Ordered(child), NEW n \in Nodes, child[n] = "active",
           NEW s \in {"succeeded", "failed"}
    PROVE  /\ Ended(n, s) \in Children
           /\ Ordered(Ended(n, s))
           /\ Keeps(child, Ended(n, s))
           /\ Ended(n, s)[n] = s
           /\ ActiveChildren(Ended(n, s)) \subseteq ActiveChildren(child)
<1>1. child \in Children
    BY DEF TypeOK, Children, ChildStatus
<1>2. \A m \in Nodes : Ended(n, s)[m] = IF m = n THEN s ELSE child[m]
    BY <1>1 DEF Ended, Children
<1>3. Ended(n, s) \in Children
    BY <1>1 DEF Ended, Children, ChildStatus
<1>4. Ordered(Ended(n, s))
    BY <1>2, PlanDeps DEF Ordered, TypeOK
<1>5. Keeps(child, Ended(n, s))
    BY <1>2 DEF Keeps
<1>6. ActiveChildren(Ended(n, s)) \subseteq ActiveChildren(child)
    BY <1>2 DEF ActiveChildren
<1> QED
    BY <1>2, <1>3, <1>4, <1>5, <1>6

-----------------------------------------------------------------------------
(* What reconciling a root does.                                            *)

\* The three ways a root may end over children c.
EndsOver(c) ==
    /\ root = "waiting"
    /\ \/ root' = "failed" /\ outcome' = "none" /\ SomeFailed(c)
       \/ root' = "succeeded" /\ outcome' = "success" /\ Complete(c)
       \/ /\ root' = "succeeded" /\ outcome' = "partial_success" /\ SomeFailed(c)
          /\ Complete(c) \/ (plan.policy = "allow_partial" /\ PartlyComplete(c))
    /\ FailsFast(c) \/ plan.required \cap ActiveChildren(c) = {}

LEMMA ReconcileEffect ==
    ASSUME TypeOK, NEW c \in Children, Ordered(c), Reconcile(c)
    PROVE  /\ child' = c \/ (child' = Created(c) /\ ~FailsFast(c))
           /\ \/ UNCHANGED <<root, outcome>>
              \/ child' = c /\ EndsOver(c)
<1>0. plan.required \subseteq Nodes
    BY DEF TypeOK, Plan
<1>1. CASE FailsFast(c) /\ child' = c /\ EndRoot("failed", "none")
    <2>1. SomeFailed(c)
        BY <1>0, <1>1 DEF FailsFast, SomeFailed
    <2> QED
        BY <1>1, <2>1 DEF EndRoot, EndsOver
<1>2. CASE ~FailsFast(c) /\ child' = Created(c) /\ Creatable(c) # {}
           /\ UNCHANGED <<root, outcome>>
    BY <1>2
<1>3. CASE ~FailsFast(c) /\ child' = Created(c) /\ Creatable(c) = {} /\ Verdict(c)
    <2>0. child' = c
        BY <1>3, CreatedChildren DEF TypeOK
    <2>1. CASE Complete(c) /\ EndRoot("succeeded",
                    IF SomeFailed(c) THEN "partial_success" ELSE "success")
        <3>1. plan.required \cap ActiveChildren(c) = {}
            BY <2>1 DEF Complete, ActiveChildren
        <3> QED
            BY <2>0, <2>1, <3>1 DEF EndRoot, EndsOver
    <2>2. CASE Stuck(c) /\ IF plan.policy = "allow_partial" /\ PartlyComplete(c)
                           THEN EndRoot("succeeded", "partial_success")
                           ELSE EndRoot("failed", "none")
        <3>1. plan.required \cap ActiveChildren(c) = {} /\ SomeFailed(c)
            BY <2>2 DEF Stuck
        <3> QED
            BY <2>0, <2>2, <3>1 DEF EndRoot, EndsOver
    <2>3. CASE UNCHANGED <<root, outcome>>
        BY <2>0, <2>3
    <2> QED
        BY <1>3, <2>1, <2>2, <2>3 DEF Verdict
<1> QED
    BY <1>1, <1>2, <1>3 DEF Reconcile

LEMMA ReconciledChildren ==
    ASSUME TypeOK, NEW c \in Children, Ordered(c), Reconcile(c)
    PROVE  child' \in Children /\ Ordered(child') /\ Keeps(c, child')
<1>1. Keeps(c, c)
    BY DEF Keeps
<1> QED
    BY <1>1, ReconcileEffect, CreatedChildren DEF TypeOK


-----------------------------------------------------------------------------
(* Admission by the gate.                                                   *)

LEMMA HasLast ==
    ASSUME NEW S, S \subseteq Nodes, S # {}
    PROVE  \E m \in S : \A k \in S : k <= m
<1> DEFINE T == {NodeCount - n : n \in S}
           R == OpToRel(<, Nat)
<1>1. NodeCount \in Nat /\ \A n \in S : n \in 1..NodeCount
    BY WorkflowAssumption DEF Nodes
<1>2. T \subseteq Nat /\ T # {}
    BY <1>1
<1>3. IsWellFoundedOn(R, Nat)
    BY NatLessThanWellFounded
<1>4. PICK x \in T : \A y \in T : <<y, x>> \notin R
    <2> HIDE DEF T, R
    <2> QED
        BY <1>2, <1>3, WFMin
<1>5. \A y \in T : ~(y < x)
    BY <1>2, <1>4 DEF OpToRel
<1>6. PICK m \in S : x = NodeCount - m
    OBVIOUS
<1>7. ASSUME NEW k \in S PROVE k <= m
    <2>1. ~(NodeCount - k < NodeCount - m)
        BY <1>5, <1>6
    <2> HIDE DEF T, R
    <2> QED
        BY <1>1, <2>1
<1> QED
    BY <1>7

LEMMA FiniteNodes ==
    \A S \in SUBSET Nodes : IsFiniteSet(S) /\ Cardinality(S) \in Nat
<1>1. IsFiniteSet(Nodes)
    BY FS_Interval, WorkflowAssumption DEF Nodes
<1> QED
    BY <1>1, FS_Subset, FS_CardinalityType

\* The last node admitted found the gate open after all the others.
LEMMA AdmissionFits ==
    ASSUME NEW c \in Children, others \in Nat, MaxActive # 0, Creatable(c) # {}
    PROVE  others + Cardinality(ActiveChildren(Created(c))) <= MaxActive
<1> DEFINE A == ActiveChildren(c)
           C == Creatable(c)
<1>1. C \subseteq Nodes /\ A \subseteq Nodes /\ Ready(c) \subseteq Nodes /\ A \cap C = {}
    BY DEF Creatable, Ready, ActiveChildren
<1>2. ActiveChildren(Created(c)) = A \cup C
    BY <1>1 DEF ActiveChildren, Created
<1>3. PICK m \in C : \A k \in C : k <= m
    BY <1>1, HasLast
<1>4. C \ {m} \subseteq Before(m, Ready(c)) /\ Before(m, Ready(c)) \subseteq Nodes
    <2>1. \A k \in Nodes : k \in Nat
        BY DEF Nodes
    <2>2. \A k \in C \ {m} : k \in Ready(c) /\ k < m
        BY <1>1, <1>3, <2>1 DEF Creatable
    <2> QED
        BY <1>1, <2>2 DEF Before
<1>5. others + Cardinality(A) + Cardinality(Before(m, Ready(c))) < MaxActive
    BY <1>3 DEF Creatable, GateIsOpen
<1> HIDE DEF A, C
<1>6. IsFiniteSet(A) /\ Cardinality(A) \in Nat /\ IsFiniteSet(C) /\ Cardinality(C) \in Nat
      /\ Cardinality(Before(m, Ready(c))) \in Nat
      /\ IsFiniteSet(Before(m, Ready(c)))
    BY <1>1, <1>4, FiniteNodes
<1>7. Cardinality(C \ {m}) = Cardinality(C) - 1
    BY <1>3, <1>6, FS_RemoveElement
<1>8. Cardinality(C \ {m}) <= Cardinality(Before(m, Ready(c)))
    BY <1>4, <1>6, FS_Subset
<1>9. Cardinality(A \cup C) = Cardinality(A) + Cardinality(C)
    <2>1. Cardinality(A \cup C) = Cardinality(A) + Cardinality(C) - Cardinality(A \cap C)
        BY <1>6, FS_Union
    <2>2. Cardinality(A \cap C) = 0
        BY <1>1, FS_EmptySet
    <2> QED
        BY <1>6, <2>1, <2>2
<1> QED
    BY <1>2, <1>5, <1>6, <1>7, <1>8, <1>9, WorkflowAssumption

-----------------------------------------------------------------------------
(* One step.                                                                *)

NoChild == \A n \in Nodes : child[n] = "absent"

\* Before its first children, a root is not in any recovery pass; a root whose
\* orchestration failed never will be.
Fresh ==
    /\ root = "orchestrating" => NoChild
    /\ NoChild /\ root \in {"orchestrating", "failed"} => ~listed

Sound == TypeOK /\ ChildAfterDependencies /\ OutcomeJustified /\ Fresh

\* What any step does to the root.
RootStep ==
    \/ /\ UNCHANGED <<root, outcome>>
       /\ listed' => listed \/ root = "waiting"
       /\ NoChild /\ ~listed /\ root # "waiting" => child' = child
    \/ root = "orchestrating" /\ root' = "waiting" /\ UNCHANGED outcome
    \/ root = "orchestrating" /\ root' = "failed" /\ UNCHANGED <<outcome, child, listed>>
    \/ EndsOver(child')

ChildStep ==
    child' \in Children /\ Ordered(child') /\ Keeps(child, child')

LEMMA KeepsTransitive ==
    ASSUME NEW c, NEW d, NEW e, Keeps(c, d), Keeps(d, e)
    PROVE  Keeps(c, e)
BY DEF Keeps

LEMMA AdvanceStep ==
    ASSUME Sound, NEW n \in Nodes, NEW s \in {"succeeded", "failed"}, ChildEnds(n, s)
    PROVE  ChildStep /\ RootStep
<1>1. TypeOK /\ Ordered(child) /\ child[n] = "active"
    BY DEF Sound, ChildAfterDependencies, Ordered, ChildEnds
<1>2. Ended(n, s) \in Children /\ Ordered(Ended(n, s)) /\ Keeps(child, Ended(n, s))
    BY <1>1, EndedChildren
<1>3. ~NoChild /\ UNCHANGED listed
    BY <1>1 DEF NoChild, ChildEnds
<1>4. CASE Reconcile(Ended(n, s))
    <2>1. ChildStep
        BY <1>1, <1>2, <1>4, ReconciledChildren, KeepsTransitive DEF ChildStep
    <2>2. RootStep
        BY <1>1, <1>2, <1>3, <1>4, ReconcileEffect DEF RootStep
    <2> QED
        BY <2>1, <2>2
<1>5. CASE child' = Ended(n, s) /\ UNCHANGED <<root, outcome>>
    BY <1>2, <1>3, <1>5 DEF ChildStep, RootStep
<1> QED
    BY <1>4, <1>5 DEF ChildEnds, Advance

LEMMA KernelStep ==
    ASSUME Sound, [Next]_vars
    PROVE  ChildStep /\ RootStep /\ plan' = plan
<1>0. /\ TypeOK /\ Ordered(child) /\ child \in Children /\ Keeps(child, child)
      /\ plan \in Plan
    BY DEF Sound, TypeOK, ChildAfterDependencies, Ordered, Children, ChildStatus, Keeps
<1>1. CASE Orchestrate
    <2>1. ChildStep
        BY <1>0, <1>1, CreatedChildren DEF ChildStep, Orchestrate
    <2> QED
        BY <1>1, <2>1 DEF Orchestrate, RootStep, envVars
<1>2. CASE OrchestrationFails
    BY <1>0, <1>2 DEF OrchestrationFails, ChildStep, RootStep, envVars
<1>3. ASSUME NEW n \in Nodes, NEW s \in {"succeeded", "failed"}, ChildEnds(n, s)
      PROVE  ChildStep /\ RootStep /\ plan' = plan
    BY <1>3, AdvanceStep DEF ChildEnds, envVars
<1>4. ASSUME NEW n \in Nodes, ChildSideEffectFails(n)
      PROVE  ChildStep /\ RootStep /\ plan' = plan
    <2>1. ChildStep
        BY <1>0, <1>4, EndedChildren DEF ChildSideEffectFails, ChildStep
    <2>2. ~NoChild
        BY <1>4 DEF ChildSideEffectFails, NoChild
    <2> QED
        BY <1>4, <2>1, <2>2 DEF ChildSideEffectFails, RootStep, envVars
<1>5. CASE RecoveryLists
    BY <1>0, <1>5 DEF RecoveryLists, ChildStep, RootStep, envVars
<1>6. CASE RecoveryReconciles
    <2>1. ChildStep
        BY <1>0, <1>6, ReconciledChildren DEF RecoveryReconciles, ChildStep
    <2> QED
        BY <1>0, <1>6, <2>1, ReconcileEffect DEF RecoveryReconciles, RootStep, envVars
<1>7. CASE RecoveryRollsBack
    BY <1>0, <1>7 DEF RecoveryRollsBack, ChildStep, RootStep, envVars
<1>8. CASE OtherArrives \/ OtherEnds \/ \E n \in Nodes : Disable(n)
    BY <1>0, <1>8 DEF OtherArrives, OtherEnds, Disable, ChildStep, RootStep
<1>9. CASE UNCHANGED vars
    BY <1>0, <1>9 DEF vars, ChildStep, RootStep
<1> QED
    BY <1>1, <1>2, <1>3, <1>4, <1>5, <1>6, <1>7, <1>8, <1>9 DEF Next

-----------------------------------------------------------------------------
(* The invariant.                                                           *)

LEMMA SoundInit == Init => Sound
<1> SUFFICES ASSUME Init PROVE Sound
    OBVIOUS
<1>1. TypeOK
    <2>1. arrivals \in 0..MaxChanges /\ others \in 0..arrivals
        BY WorkflowAssumption DEF Init
    <2>2. child \in [Nodes -> {"absent", "active", "succeeded", "failed"}]
        BY DEF Init
    <2> QED
        BY <2>1, <2>2 DEF Init, TypeOK
<1>2. ChildAfterDependencies /\ OutcomeJustified /\ Fresh
    BY DEF Init, ChildAfterDependencies, OutcomeJustified, Fresh, NoChild
<1> QED
    BY <1>1, <1>2 DEF Sound

LEMMA TypeStep ==
    ASSUME Sound, [Next]_vars
    PROVE  TypeOK'
<1>1. ChildStep /\ RootStep /\ plan' = plan
    BY KernelStep
<1>2. TypeOK
    BY DEF Sound
<1>3. child' \in [Nodes -> {"absent", "active", "succeeded", "failed"}]
    BY <1>1 DEF ChildStep, Children, ChildStatus
<1>4. /\ root' \in {"orchestrating", "waiting", "succeeded", "failed"}
      /\ outcome' \in {"none", "success", "partial_success"}
      /\ outcome' # "none" <=> root' = "succeeded"
    BY <1>1, <1>2 DEF RootStep, EndsOver, TypeOK
<1>5. arrivals' \in 0..MaxChanges /\ others' \in 0..arrivals'
      /\ disabled' \subseteq Nodes /\ listed' \in BOOLEAN
    <2> USE <1>2, WorkflowAssumption DEF TypeOK, envVars
    <2>1. CASE UNCHANGED <<others, arrivals, disabled>>
        BY <2>1 DEF Next, vars, Orchestrate, OrchestrationFails, ChildEnds,
           ChildSideEffectFails, Disable, RecoveryLists, RecoveryReconciles,
           RecoveryRollsBack, OtherArrives, OtherEnds
    <2>2. CASE OtherArrives
        <3>1. Cardinality(disabled) \in Nat
            BY FiniteNodes DEF TypeOK
        <3> QED
            BY <2>2, <3>1 DEF OtherArrives, MayChange
    <2>3. CASE OtherEnds
        BY <2>3 DEF OtherEnds
    <2>4. CASE \E n \in Nodes : Disable(n)
        BY <2>4 DEF Disable
    <2> QED
        BY <2>1, <2>2, <2>3, <2>4 DEF Next, vars, Orchestrate, OrchestrationFails,
           ChildEnds, ChildSideEffectFails, RecoveryLists, RecoveryReconciles,
           RecoveryRollsBack
<1> QED
    BY <1>1, <1>2, <1>3, <1>4, <1>5 DEF TypeOK

LEMMA FreshStep ==
    ASSUME Sound, [Next]_vars
    PROVE  Fresh'
<1>1. ChildStep /\ RootStep
    BY KernelStep
<1>2. Fresh /\ (NoChild' => NoChild)
    BY <1>1 DEF Sound, ChildStep, Keeps, NoChild
<1>3. CASE UNCHANGED <<root, outcome>>
    BY <1>1, <1>2, <1>3 DEF Fresh, RootStep, EndsOver, NoChild
<1>4. CASE root = "orchestrating" /\ root' = "waiting"
    BY <1>4 DEF Fresh
<1>5. CASE root' = "failed" /\ UNCHANGED <<child, listed>> /\ root = "orchestrating"
    BY <1>2, <1>5 DEF Fresh, NoChild
<1>6. CASE EndsOver(child')
    BY <1>6 DEF Fresh, EndsOver, SomeFailed, NoChild
<1> QED
    BY <1>1, <1>3, <1>4, <1>5, <1>6 DEF RootStep

LEMMA OutcomeStep ==
    ASSUME Sound, [Next]_vars
    PROVE  OutcomeJustified'
<1>1. ChildStep /\ RootStep /\ plan' = plan /\ plan \in Plan
    BY KernelStep DEF Sound, TypeOK
<1>2. /\ Complete(child) => Complete(child')
      /\ PartlyComplete(child) => PartlyComplete(child')
      /\ SomeFailed(child) => SomeFailed(child')
    BY <1>1 DEF ChildStep, Keeps, Complete, PartlyComplete, SomeFailed, Plan
<1>3. /\ Complete(child)' <=> Complete(child')
      /\ PartlyComplete(child)' <=> PartlyComplete(child')
      /\ SomeFailed(child)' <=> SomeFailed(child')
    BY <1>1 DEF Complete, PartlyComplete, SomeFailed
<1>4. OutcomeJustified /\ Fresh /\ TypeOK
    BY DEF Sound
<1>5. CASE UNCHANGED <<root, outcome>>
    <2>1. root = "failed" /\ NoChild => child' = child
        BY <1>1, <1>4, <1>5 DEF RootStep, EndsOver, Fresh
    <2> QED
        BY <1>1, <1>2, <1>3, <1>4, <1>5, <2>1 DEF OutcomeJustified, NoChild
<1>6. CASE root = "orchestrating" /\ root' = "waiting" /\ UNCHANGED outcome
    BY <1>4, <1>6 DEF OutcomeJustified, TypeOK
<1>7. CASE root = "orchestrating" /\ root' = "failed" /\ UNCHANGED <<outcome, child, listed>>
    BY <1>4, <1>7 DEF OutcomeJustified, TypeOK, Fresh, NoChild
<1>8. CASE EndsOver(child')
    BY <1>1, <1>3, <1>8 DEF EndsOver, OutcomeJustified
<1> QED
    BY <1>1, <1>5, <1>6, <1>7, <1>8 DEF RootStep

LEMMA SoundStep ==
    ASSUME Sound, [Next]_vars
    PROVE  Sound'
<1>1. ChildAfterDependencies'
    BY KernelStep DEF ChildStep, Ordered, ChildAfterDependencies
<1> QED
    BY <1>1, TypeStep, OutcomeStep, FreshStep DEF Sound

THEOREM AlwaysSound == Spec => []Sound
BY SoundInit, SoundStep, PTL DEF Spec

\* Type correctness of the workflow kernel.
THEOREM WorkflowTypeCorrect == Spec => []TypeOK
BY AlwaysSound, PTL DEF Sound

\* No interleaving of orchestration, child endings and recovery creates a
\* child before everything its node depends on has succeeded, whatever the
\* plan.
THEOREM DependenciesRespected == Spec => []ChildAfterDependencies
BY AlwaysSound, PTL DEF Sound

\* The outcome of the root stays justified by its children under both failure
\* policies.
THEOREM OutcomeCorrect == Spec => []OutcomeJustified
BY AlwaysSound, PTL DEF Sound

\* A root that has ended keeps its status and outcome: late children and
\* recovery passes with an outdated copy of it change neither.
THEOREM RootEndsOnce == Spec => RootFinal
<1>1. Sound /\ [Next]_vars =>
          [(root \in RootTerminal) => UNCHANGED <<root, outcome>>]_vars
    BY KernelStep DEF RootStep, EndsOver, RootTerminal
<1> QED
    BY <1>1, AlwaysSound, PTL DEF Spec, RootFinal

\* The root does not end while a required child runs, fail_fast aside.
THEOREM RequiredChildrenEndFirst == Spec => EndsAfterRequired
<1>1. ASSUME Sound, [Next]_vars, root = "waiting", root' # "waiting"
      PROVE  FailsFast(child') \/ plan.required \cap ActiveChildren(child') = {}
    BY <1>1, KernelStep DEF RootStep, EndsOver
<1>2. Sound /\ [Next]_vars =>
          [root = "waiting" /\ root' # "waiting"
              => FailsFast(child') \/ plan.required \cap ActiveChildren(child') = {}]_vars
    BY <1>1
<1> QED
    BY <1>2, AlwaysSound, PTL DEF Spec, EndsAfterRequired

-----------------------------------------------------------------------------
(* The promise.                                                             *)

\* What a transaction does to the children, seen from the promise: it may end
\* one of them, and then starts some that are ready, or ends the root.
Moves ==
    \E c \in Promise!Ending :
        \/ child' = c /\ EndsOver(c)
        \/ /\ \E S \in SUBSET Promise!Startable(c) : child' = [n \in Nodes |-> IF n \in S THEN "active" ELSE c[n]]
           /\ Result' = Result
        \/ child' = c /\ root' = "failed" /\ root = "orchestrating" /\ NoChild /\ c = child

LEMMA StartsNothing ==
    ASSUME NEW c \in Children, c \in Promise!Ending, child' = c, Result' = Result
    PROVE  Moves
<1>1. child' = [n \in Nodes |-> IF n \in {} THEN "active" ELSE c[n]]
    BY DEF Children
<1>2. {} \in SUBSET Promise!Startable(c)
    OBVIOUS
<1>3. \E S \in SUBSET Promise!Startable(c) : child' = [n \in Nodes |-> IF n \in S THEN "active" ELSE c[n]]
    BY <1>1, <1>2
<1> QED
    BY <1>3 DEF Moves

LEMMA StartsCreatable ==
    ASSUME NEW c \in Children, c \in Promise!Ending, child' = Created(c), Result' = Result
    PROVE  Moves
<1>1. Creatable(c) \subseteq Promise!Startable(c)
    BY DEF Creatable, Ready, Promise!Startable
<1> QED
    BY <1>1 DEF Moves, Created

LEMMA ReconcileMoves ==
    ASSUME TypeOK, NEW c \in Children, c \in Promise!Ending, Ordered(c), Reconcile(c)
    PROVE  Moves
<1>1. CASE UNCHANGED <<root, outcome>>
    <2>1. Result' = Result
        BY <1>1 DEF Result
    <2> QED
        BY <2>1, ReconcileEffect, StartsNothing, StartsCreatable
<1>2. CASE child' = c /\ EndsOver(c)
    BY <1>2 DEF Moves
<1> QED
    BY <1>1, <1>2, ReconcileEffect

LEMMA KernelMoves ==
    ASSUME Sound, [Next]_vars
    PROVE  Moves
<1>0. TypeOK /\ Ordered(child) /\ child \in Children /\ child \in Promise!Ending
    BY DEF Sound, TypeOK, ChildAfterDependencies, Ordered, Children, ChildStatus, Promise!Ending
<1>1. CASE Orchestrate
    <2>1. Result' = Result /\ child' = Created(child)
        BY <1>1 DEF Orchestrate, Result
    <2> QED
        BY <1>0, <2>1, StartsCreatable
<1>2. CASE OrchestrationFails
    BY <1>0, <1>2 DEF OrchestrationFails, Moves, Sound, Fresh
<1>3. ASSUME NEW n \in Nodes, NEW s \in {"succeeded", "failed"}, child[n] = "active",
             Reconcile(Ended(n, s)) \/ (child' = Ended(n, s) /\ UNCHANGED <<root, outcome>>)
      PROVE  Moves
    <2>1. Ended(n, s) \in Children /\ Ordered(Ended(n, s))
        BY <1>0, <1>3, EndedChildren
    <2>2. Ended(n, s) \in Promise!Ending
        BY <1>3 DEF Ended, Promise!Ending
    <2>3. CASE Reconcile(Ended(n, s))
        BY <1>0, <2>1, <2>2, <2>3, ReconcileMoves
    <2>4. CASE child' = Ended(n, s) /\ UNCHANGED <<root, outcome>>
        <3>1. Result' = Result
            BY <2>4 DEF Result
        <3> QED
            BY <2>1, <2>2, <2>4, <3>1, StartsNothing
    <2> QED
        BY <1>3, <2>3, <2>4
<1>4. ASSUME NEW n \in Nodes, NEW s \in {"succeeded", "failed"}, ChildEnds(n, s) PROVE Moves
    <2>1. child[n] = "active" /\ (Reconcile(Ended(n, s)) \/ (child' = Ended(n, s) /\ UNCHANGED <<root, outcome>>))
        BY <1>4 DEF ChildEnds, Advance
    <2> QED
        BY <1>3, <2>1
<1>5. ASSUME NEW n \in Nodes, ChildSideEffectFails(n) PROVE Moves
    BY <1>3, <1>5 DEF ChildSideEffectFails
<1>6. CASE RecoveryReconciles
    BY <1>0, <1>6, ReconcileMoves DEF RecoveryReconciles
<1>7. CASE UNCHANGED <<root, outcome, child>>
    <2>1. Result' = Result
        BY <1>7 DEF Result
    <2> QED
        BY <1>0, <1>7, <2>1, StartsNothing
<1> QED
    BY <1>1, <1>2, <1>4, <1>5, <1>6, <1>7
    DEF Next, vars, RecoveryLists, RecoveryRollsBack, OtherArrives, OtherEnds, Disable

\* The ends of a root are among those the promise allows.
LEMMA EndsAreFinishes ==
    ASSUME TypeOK, NEW c, EndsOver(c), child' = c
    PROVE  Promise!Finish(c)
<1>1. plan.required \subseteq Nodes
    BY DEF TypeOK, Plan
<1>2. Result = "running"
    BY DEF EndsOver, Result
<1>3. \/ \A n \in plan.required : c[n] # "active"
      \/ plan.policy = "fail_fast" /\ Promise!Failed(c, plan.required)
    BY <1>1 DEF EndsOver, FailsFast, ActiveChildren, Promise!Failed
<1>4. SomeFailed(c) <=> Promise!Failed(c, Nodes)
    BY DEF SomeFailed, Promise!Failed
<1>5. Result' \in Promise!Justified(c)
    BY <1>1, <1>4 DEF EndsOver, Result, Complete, PartlyComplete, Promise!Justified
<1> QED
    BY <1>2, <1>3, <1>5 DEF Promise!Finish

\* An orchestration that fails leaves nothing running.
LEMMA FailedOrchestrationFinishes ==
    ASSUME TypeOK, NoChild, root = "orchestrating", root' = "failed", child' = child
    PROVE  Promise!Finish(child)
<1>1. Result = "running" /\ Result' = "failed"
    BY DEF Result
<1>2. \A n \in plan.required : child[n] # "active"
    BY DEF NoChild, TypeOK, Plan
<1>3. Result' \in Promise!Justified(child)
    BY <1>1 DEF Promise!Justified, NoChild
<1> QED
    BY <1>1, <1>2, <1>3 DEF Promise!Finish

\* For every plan and capacity, and through every redeployment, the workflow
\* kernel implements WorkflowLifecycle: nodes run at most once and in order,
\* and the root gets one justified result in a step that starts nothing.
THEOREM KernelKeepsPromise == Spec => KeepsPromise
<1>1. Init => Promise!Init
    BY DEF Init, Plan, Result, Promise!Init
<1>2. ASSUME Sound, [Next]_vars
      PROVE  [Promise!Next]_<<plan, child, Result>>
    <2>1. Moves /\ plan' = plan /\ TypeOK
        BY <1>2, KernelMoves, KernelStep DEF Sound
    <2>2. PICK c \in Promise!Ending :
              \/ child' = c /\ EndsOver(c)
              \/ /\ \E S \in SUBSET Promise!Startable(c) :
                        child' = [n \in Nodes |-> IF n \in S THEN "active" ELSE c[n]]
                 /\ Result' = Result
              \/ child' = c /\ root' = "failed" /\ root = "orchestrating" /\ NoChild /\ c = child
        BY <2>1 DEF Moves
    <2>3. CASE child' = c /\ EndsOver(c)
        BY <2>1, <2>2, <2>3, EndsAreFinishes DEF Promise!Next
    <2>4. CASE /\ \E S \in SUBSET Promise!Startable(c) :
                        child' = [n \in Nodes |-> IF n \in S THEN "active" ELSE c[n]]
               /\ Result' = Result
        BY <2>1, <2>2, <2>4 DEF Promise!Next, Promise!Start
    <2>5. CASE child' = c /\ root' = "failed" /\ root = "orchestrating" /\ NoChild /\ c = child
        BY <2>1, <2>2, <2>5, FailedOrchestrationFinishes DEF Promise!Next
    <2> QED
        BY <2>2, <2>3, <2>4, <2>5
<1> QED
    BY <1>1, <1>2, AlwaysSound, PTL DEF Spec, KeepsPromise, Promise!Spec

-----------------------------------------------------------------------------
(* Capacity.                                                                *)

\* The active children as ActiveJobs counts them.
ChildLoad(c) == Cardinality(ActiveChildren(c))

LEMMA LoadIsNatural == \A c : ChildLoad(c) \in Nat
BY FiniteNodes DEF ChildLoad, ActiveChildren

LEMMA LoadShrinks ==
    ASSUME Sound, NEW n \in Nodes, NEW s \in {"succeeded", "failed"}, child[n] = "active"
    PROVE  ChildLoad(Ended(n, s)) <= ChildLoad(child)
<1>1. ActiveChildren(Ended(n, s)) \subseteq ActiveChildren(child)
    BY EndedChildren DEF Sound, ChildAfterDependencies, Ordered
<1>2. IsFiniteSet(ActiveChildren(child))
    BY FiniteNodes DEF ActiveChildren
<1> QED
    BY <1>1, <1>2, FS_Subset DEF ChildLoad

\* Creating children keeps within the limit, or creates none.
LEMMA CreationFits ==
    ASSUME Sound, NEW c \in Children, Ordered(c), MaxActive # 0
    PROVE  \/ Created(c) = c
           \/ others + ChildLoad(Created(c)) <= MaxActive
<1>1. plan \in Plan /\ others \in Nat
    BY WorkflowAssumption DEF Sound, TypeOK
<1> QED
    BY <1>1, AdmissionFits, CreatedChildren DEF ChildLoad

LEMMA ReconcileFits ==
    ASSUME Sound, NEW c \in Children, Ordered(c), Reconcile(c), MaxActive # 0
    PROVE  /\ child' = c \/ others + ChildLoad(child') <= MaxActive
           /\ root # "orchestrating" => root' # "orchestrating"
<1>1. TypeOK
    BY DEF Sound
<1> QED
    BY <1>1, ReconcileEffect, CreationFits DEF EndsOver

Within == MaxActive # 0 =>
    others + ChildLoad(child) + (IF root = "orchestrating" THEN 1 ELSE 0) <= MaxActive

LEMMA WithinStep ==
    ASSUME Sound, Within, [Next]_vars
    PROVE  Within'
<1> SUFFICES ASSUME MaxActive # 0
             PROVE  others' + ChildLoad(child')
                      + (IF root' = "orchestrating" THEN 1 ELSE 0) <= MaxActive
    BY DEF Within, ChildLoad, ActiveChildren
<1>0. /\ others \in Nat /\ MaxActive \in Nat /\ ChildLoad(child) \in Nat
      /\ ChildLoad(child') \in Nat
    BY LoadIsNatural, WorkflowAssumption DEF Sound, TypeOK
<1>1. /\ others + ChildLoad(child) <= MaxActive
      /\ root = "orchestrating" => others + ChildLoad(child) + 1 <= MaxActive
    BY <1>0 DEF Within
<1>2. child \in Children /\ Ordered(child)
    BY DEF Sound, TypeOK, ChildAfterDependencies, Ordered, Children, ChildStatus
<1>3. CASE Orchestrate
    <2>1. others' = others /\ root' = "waiting" /\ child' = Created(child)
        BY <1>3 DEF Orchestrate, envVars
    <2>2. others + ChildLoad(child') <= MaxActive
        BY <1>1, <1>2, <2>1, CreationFits
    <2> QED
        BY <1>0, <2>1, <2>2
<1>4. CASE OrchestrationFails
    BY <1>0, <1>1, <1>4 DEF OrchestrationFails, envVars
<1>5. ASSUME NEW n \in Nodes, NEW s \in {"succeeded", "failed"}, child[n] = "active",
             \/ Reconcile(Ended(n, s)) /\ root # "orchestrating"
             \/ child' = Ended(n, s) /\ UNCHANGED <<root, outcome>>,
             others' = others
      PROVE  others' + ChildLoad(child')
                + (IF root' = "orchestrating" THEN 1 ELSE 0) <= MaxActive
    <2>1. ChildLoad(Ended(n, s)) <= ChildLoad(child) /\ ChildLoad(Ended(n, s)) \in Nat
        BY <1>5, LoadShrinks, LoadIsNatural
    <2>2. CASE Reconcile(Ended(n, s)) /\ root # "orchestrating"
        <3>1. Ended(n, s) \in Children /\ Ordered(Ended(n, s))
            BY <1>2, <1>5, EndedChildren DEF Sound
        <3>2. /\ child' = Ended(n, s) \/ others + ChildLoad(child') <= MaxActive
              /\ root' # "orchestrating"
            BY <2>2, <3>1, ReconcileFits
        <3> QED
            BY <1>0, <1>1, <1>5, <2>1, <3>2
    <2>3. CASE child' = Ended(n, s) /\ UNCHANGED <<root, outcome>>
        BY <1>0, <1>1, <1>5, <2>1, <2>3
    <2> QED
        BY <1>5, <2>2, <2>3
<1>6. ASSUME NEW n \in Nodes, NEW s \in {"succeeded", "failed"}, ChildEnds(n, s)
      PROVE  others' + ChildLoad(child')
                + (IF root' = "orchestrating" THEN 1 ELSE 0) <= MaxActive
    <2>1. /\ child[n] = "active" /\ others' = others
          /\ \/ Reconcile(Ended(n, s)) /\ root # "orchestrating"
             \/ child' = Ended(n, s) /\ UNCHANGED <<root, outcome>>
        BY <1>6 DEF ChildEnds, Advance, envVars
    <2> QED
        BY <1>5, <2>1
<1>7. ASSUME NEW n \in Nodes, ChildSideEffectFails(n)
      PROVE  others' + ChildLoad(child')
                + (IF root' = "orchestrating" THEN 1 ELSE 0) <= MaxActive
    BY <1>5, <1>7 DEF ChildSideEffectFails, envVars
<1>8. CASE RecoveryReconciles
    <2>1. root # "orchestrating" /\ others' = others /\ Reconcile(child)
        BY <1>8 DEF RecoveryReconciles, envVars, Sound, Fresh, NoChild
    <2>2. /\ child' = child \/ others + ChildLoad(child') <= MaxActive
          /\ root' # "orchestrating"
        BY <1>2, <2>1, ReconcileFits
    <2> QED
        BY <1>0, <1>1, <2>1, <2>2
<1>9. CASE OtherArrives
    <2>1. others + ChildLoad(child) + (IF root = "orchestrating" THEN 1 ELSE 0) < MaxActive
        BY <1>9 DEF OtherArrives, GateIsOpen, ActiveJobs, ChildLoad
    <2> QED
        BY <1>0, <1>9, <2>1 DEF OtherArrives
<1>10. CASE OtherEnds
    BY <1>0, <1>1, <1>10 DEF OtherEnds
<1>11. CASE UNCHANGED <<root, child, others>>
    BY <1>0, <1>1, <1>11
<1> QED
    BY <1>3, <1>4, <1>6, <1>7, <1>8, <1>9, <1>10, <1>11
    DEF Next, vars, RecoveryLists, RecoveryRollsBack, Disable, envVars

LEMMA WithinInit == Init => Within
<1> SUFFICES ASSUME Init, MaxActive # 0
             PROVE  others + ChildLoad(child) + 1 <= MaxActive
    BY DEF Init, Within
<1>1. ActiveChildren(child) = {}
    BY DEF Init, ActiveChildren
<1>2. ChildLoad(child) = 0
    BY <1>1, FS_EmptySet DEF ChildLoad
<1>3. others \in Nat /\ MaxActive \in Nat /\ others < MaxActive
    BY WorkflowAssumption DEF Init, GateIsOpen
<1> QED
    BY <1>2, <1>3

\* MAX_ACTIVE_JOBS holds for submissions and fan-outs together: although a
\* fan-out does not count its own root, the transaction that creates the
\* children also frees the root's place.
THEOREM CapacityRespected == Spec => []ActiveWithinLimit
<1>1. Within => ActiveWithinLimit
    BY DEF Within, ActiveWithinLimit, ActiveJobs, ChildLoad
<1> QED
    BY <1>1, WithinInit, WithinStep, AlwaysSound, PTL DEF Spec

=============================================================================
