-------------------------- MODULE MCWorkflowKernel --------------------------
(* TLC instances of WorkflowKernel: every plan of NodeCount nodes is an     *)
(* initial state.  The compiler that makes the plans is checked beside it.  *)
EXTENDS WorkflowKernel, WorkflowCompiler

-----------------------------------------------------------------------------
(* The expressions: tasks with up to one dependency (9 is not a node),      *)
(* expansions, and what chains, groups and chords make of them.             *)

Leaves ==
    {<<Task(k, d)>> : k \in 1..3, d \in {{}, {1}, {2}, {3}, {9}}}
        \cup {<<Expansion(4, items, size)>> : items \in 0..3, size \in 0..2}

Free == {<<Task(1, {})>>, <<Task(2, {})>>, <<Task(3, {1, 2})>>, <<Expansion(4, 3, 2)>>}

\* The objects of e when they come after n others.
Moved(e, n) ==
    [i \in DOMAIN e |->
        IF IsLeaf(e[i]) THEN e[i]
        ELSE [e[i] EXCEPT !.parts = [q \in DOMAIN @ |-> @[q] + n]]]

Pair(a, b) == a \o Moved(b, Len(a))

Joins(A, B) ==
    UNION {LET i == Len(a)
               j == Len(a) + Len(b)
           IN  {Append(Pair(a, b), x) : x \in {Chain(<<i, j>>), Group(<<i, j>>), Chord(i, j)}} :
              a \in A, b \in B}

Chains(A) ==
    {LET i == Len(a)
         j == Len(a) + Len(b)
     IN  Append(Pair(Pair(a, b), c), Chain(<<i, j, j + Len(c)>>)) : a \in A, b \in A, c \in A}

Groups == {Append(Pair(a, b), Group(<<Len(a), Len(a) + Len(b)>>)) : a \in Free, b \in Free}

Expressions ==
    {e \in Leaves \cup Joins(Leaves, Leaves) \cup Chains(Free)
              \cup {<<Chain(<<>>)>>, <<Group(<<>>)>>, <<Group(<<>>), Task(1, {}), Chord(1, 2)>>}
              \cup Joins(Free, Joins(Free, Free)) \cup Joins(Joins(Free, Free), Free)
              \cup Joins(Groups, Groups) :
        IsExpression(e)}

\* What TLC evaluates once, before the first state.
ExactOnExpressions ==
    \A e \in Expressions, maxNodes \in {3, 5} :
        CompileWorkflow(e, maxNodes) # Rejected <=> WellFormed(e, maxNodes)

FaithfulOnExpressions ==
    \A e \in Expressions :
        LET frozen == CompileWorkflow(e, 5) IN frozen # Rejected => Implements(frozen, e)

-----------------------------------------------------------------------------

\* An arbitrary graph: a group of tasks with explicit depends_on.
Flat(deps) ==
    [i \in 1..(NodeCount + 1) |->
        IF i \in Nodes THEN Task(i, deps[i]) ELSE Group([n \in Nodes |-> n])]

\* A compiled plan, its nodes named by their position.
Renumbered(frozen) == [n \in Nodes |-> {m \in Nodes : frozen[m].key \in frozen[n].deps}]

CompiledPlans ==
    {Renumbered(frozen) :
        frozen \in {CompileWorkflow(Flat(d), NodeCount) : d \in [Nodes -> SUBSET Nodes]} \ {Rejected}}

EveryCompiledPlanIsRun == CompiledPlans \subseteq {p.deps : p \in Plan}

-----------------------------------------------------------------------------

\* The compiler that made the root's plan accepts exactly the expressions that
\* can be run: a duplicate key, an unknown dependency, a cycle, also one that an
\* explicit depends_on and a chain or chord close together, and too many nodes
\* are all refused, and nothing else is.
AcceptsTheWellFormed == plan.deps \in CompiledPlans /\ ExactOnExpressions

\* It loses no wait and adds none: every node of a step runs after every node of
\* the steps before it, although only the roots of a step are linked to the
\* leaves of the previous one.
PlansImplementExpressions == plan.deps \in CompiledPlans /\ FaithfulOnExpressions

\* The plans that roots run with are exactly the frozen plans that
\* _topological_order makes of the graphs of NodeCount nodes, up to names.
PlansAreCompiled == plan.deps \in CompiledPlans /\ EveryCompiledPlanIsRun
=============================================================================
