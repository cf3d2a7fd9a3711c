-------------------------- MODULE WorkflowCompiler --------------------------
(***************************************************************************)
(* The workflow compiler: an expression of tasks, chains, groups, chords   *)
(* and expansions becomes a frozen plan, or is rejected.                   *)
(*                                                                         *)
(* A node key is a number; keys are only compared and sorted.  Parameters, *)
(* weights, the required flag (copied as it is) and the validation of      *)
(* single fields are left out.                                             *)
(***************************************************************************)
EXTENDS Naturals, Sequences, FiniteSets

-----------------------------------------------------------------------------
(* Expressions.  An expression is the sequence of its objects, parts before *)
(* what they are parts of; a part is named by its position.  map and        *)
(* starmap expand items one by one (size 1), chunks by size; the j-th node  *)
(* has the key prefix.j.                                                    *)

Task(key, deps) == [op |-> "task", key |-> key, deps |-> deps]
Expansion(prefix, items, size) ==
    [op |-> "expansion", prefix |-> prefix, items |-> items, size |-> size]
Chain(steps)   == [op |-> "chain", parts |-> steps]
Group(members) == [op |-> "group", parts |-> members]
Chord(header, body) == [op |-> "chord", parts |-> <<header, body>>]

IsLeaf(x) == x.op \in {"task", "expansion"}

\* The whole expression is its last object, and every other object is a part.
IsExpression(e) ==
    /\ e \in Seq([op : {"task"}, key : Nat, deps : SUBSET Nat]
                    \cup [op : {"expansion"}, prefix : Nat, items : Nat, size : Nat]
                    \cup [op : {"chain", "group", "chord"}, parts : Seq(Nat)])
    /\ e # <<>>
    /\ \A i \in DOMAIN e : ~IsLeaf(e[i]) =>
          \A q \in DOMAIN e[i].parts : e[i].parts[q] \in 1..(i - 1)
    /\ \A j \in 1..(Len(e) - 1) :
          \E i \in DOMAIN e : ~IsLeaf(e[i]) /\ \E q \in DOMAIN e[i].parts : e[i].parts[q] = j

NodeTotal(x) == (x.items + x.size - 1) \div x.size

LeafKeys(x) ==
    IF x.op = "task" THEN {x.key} ELSE {x.prefix + j : j \in 0..(NodeTotal(x) - 1)}

LeafDeps(x) == IF x.op = "task" THEN x.deps ELSE {}

\* The errors raised before there are nodes: chain and group of nothing, an
\* expansion without items, a chunk_size of 0.
Raises(e) ==
    \E i \in DOMAIN e :
        \/ e[i].op = "expansion" /\ (e[i].size = 0 \/ e[i].items = 0)
        \/ ~IsLeaf(e[i]) /\ e[i].parts = <<>>

-----------------------------------------------------------------------------
(* _compile_expr: the nodes with their dependencies, and the keys of those  *)
(* that come first (roots) and last (leaves).  A list of nodes is the set   *)
(* of them, each with its place in the expression, for their order does not *)
(* matter.  cs are the compiled parts of a compound.                        *)

Node(at, key, deps) == [at |-> at, key |-> key, deps |-> deps]

\* The nodes of the q-th part; its roots wait for the given keys.
Part(cs, q, keys) ==
    {Node(<<q>> \o x.at, x.key, IF x.key \in cs[q].roots THEN x.deps \cup keys ELSE x.deps) :
        x \in cs[q].nodes}

\* Mutant: every step follows the first one, not the previous one.
MutantPrevious(cs, q) == IF q = 1 THEN {} ELSE cs[1].leaves

Previous(cs, q) == IF q = 1 THEN {} ELSE cs[q - 1].leaves

\* The steps of a chain one after the other, or the body of a chord after its
\* header.
InTurn(cs) ==
    [nodes  |-> UNION {Part(cs, q, Previous(cs, q)) : q \in DOMAIN cs},
     roots  |-> cs[1].roots,
     leaves |-> cs[Len(cs)].leaves]

Beside(cs) ==
    [nodes  |-> UNION {Part(cs, q, {}) : q \in DOMAIN cs},
     roots  |-> UNION {cs[q].roots : q \in DOMAIN cs},
     leaves |-> UNION {cs[q].leaves : q \in DOMAIN cs}]

CompiledLeaf(x) ==
    [nodes  |-> {Node(<<>>, k, LeafDeps(x)) : k \in LeafKeys(x)},
     roots  |-> LeafKeys(x),
     leaves |-> LeafKeys(x)]

\* One object, when those before it have been compiled to c.
CompileObject(x, c) ==
    IF IsLeaf(x) THEN CompiledLeaf(x)
    ELSE LET cs == [q \in DOMAIN x.parts |-> c[x.parts[q]]]
         IN  IF x.op = "group" THEN Beside(cs) ELSE InTurn(cs)

Compiled(e) ==
    LET c[i \in DOMAIN e] == CompileObject(e[i], c) IN c

CompileExpr(e) == Compiled(e)[Len(e)]

-----------------------------------------------------------------------------
(* _topological_order.  The keys that have been queued, in that order, of   *)
(* which the first t have been taken; a key on a cycle is never queued.     *)

\* The keys in ascending order.
Sorted(keys) ==
    [i \in 1..Cardinality(keys) |->
        CHOOSE k \in keys : Cardinality({l \in keys : l < k}) = i - 1]

\* The keys whose last dependency is the t-th in the queue.
Freed(deps, queue, t) ==
    {k \in DOMAIN deps : queue[t] \in deps[k] /\ deps[k] \subseteq {queue[s] : s \in 1..t}}

\* Mutant: a stack instead of a queue.
MutantEnqueued(deps, queue, t) ==
    SubSeq(queue, 1, t) \o Sorted(Freed(deps, queue, t)) \o SubSeq(queue, t + 1, Len(queue))

Enqueued(deps, queue, t) == queue \o Sorted(Freed(deps, queue, t))

\* The t-th turn of the loop, which ends when nothing is left to take.
Turn(deps, queue, t) == IF t > Len(queue) THEN queue ELSE Enqueued(deps, queue, t)

Queue(deps) ==
    LET queue[t \in 0..Cardinality(DOMAIN deps)] ==
            IF t = 0 THEN Sorted({k \in DOMAIN deps : deps[k] = {}})
            ELSE Turn(deps, queue[t - 1], t)
    IN  queue

TopologicalOrder(deps) == Queue(deps)[Cardinality(DOMAIN deps)]

-----------------------------------------------------------------------------
(* compile_workflow.                                                        *)

Keys(nodes) == {x.key : x \in nodes}

\* Mutant: a key twice in the plan, one node taking the place of the other.
MutantNoDuplicates(nodes) == TRUE

NoDuplicates(nodes) == \A x, y \in nodes : x.key = y.key => x = y

KnownDependencies(nodes) == \A x \in nodes : x.deps \subseteq Keys(nodes)

NodeOf(nodes, key) == CHOOSE x \in nodes : x.key = key

PlanOrder(nodes) == TopologicalOrder([k \in Keys(nodes) |-> NodeOf(nodes, k).deps])

Accepted(nodes, maxNodes) ==
    /\ NoDuplicates(nodes)
    /\ KnownDependencies(nodes)
    /\ Len(PlanOrder(nodes)) = Cardinality(Keys(nodes))
    /\ Len(PlanOrder(nodes)) <= maxNodes

Frozen(nodes) ==
    LET order == PlanOrder(nodes) IN [i \in DOMAIN order |-> NodeOf(nodes, order[i])]

Rejected == <<>>

\* The frozen nodes in plan order, or Rejected.
CompileWorkflow(e, maxNodes) ==
    IF Raises(e) \/ ~Accepted(CompileExpr(e).nodes, maxNodes) THEN Rejected
    ELSE Frozen(CompileExpr(e).nodes)

-----------------------------------------------------------------------------
(* What an expression means, without roots, leaves and queues: which keys   *)
(* it has at which places, and <<a, b>> where b has to wait for a.  Every   *)
(* node of a step waits for every node of the steps before it.              *)

MeantKeys(m) == {p[2] : p \in m.places}

MeaningOf(x, m) ==
    IF IsLeaf(x) THEN [places |-> {<<>>} \X LeafKeys(x), waits |-> LeafDeps(x) \X LeafKeys(x)]
    ELSE LET ms == [q \in DOMAIN x.parts |-> m[x.parts[q]]]
             inside == UNION {ms[q].waits : q \in DOMAIN ms}
             across == UNION {MeantKeys(ms[p[1]]) \X MeantKeys(ms[p[2]]) :
                                 p \in {p \in (DOMAIN ms) \X (DOMAIN ms) : p[1] < p[2]}}
         IN  [places |-> UNION {{<<<<q>> \o p[1], p[2]>> : p \in ms[q].places} : q \in DOMAIN ms},
              waits  |-> IF x.op = "group" THEN inside ELSE inside \cup across]

Meanings(e) ==
    LET m[i \in DOMAIN e] == MeaningOf(e[i], m) IN m

Meaning(e) == Meanings(e)[Len(e)]

\* Nothing twice, nothing unknown, not too much, and of any nodes one that does
\* not wait for the others or itself.
WellFormed(e, maxNodes) ==
    /\ ~Raises(e)
    /\ \A p, r \in Meaning(e).places : p[2] = r[2] => p = r
    /\ Cardinality(MeantKeys(Meaning(e))) <= maxNodes
    /\ \A w \in Meaning(e).waits : w[1] \in MeantKeys(Meaning(e))
    /\ \A C \in SUBSET MeantKeys(Meaning(e)) :
          C # {} => \E k \in C : \A l \in C : <<l, k>> \notin Meaning(e).waits

-----------------------------------------------------------------------------

\* Nothing in D waits for a node outside of it: D may be the nodes that have run.
Closed(D, waits) == \A w \in waits : w[2] \in D => w[1] \in D

RunsTo(frozen, D) == \A i \in DOMAIN frozen : frozen[i].key \in D => frozen[i].deps \subseteq D

\* A plan has the nodes of the expression, each once and after everything it
\* has to wait for, and lets exactly those nodes have run that may have.
Implements(frozen, e) ==
    /\ \A i, j \in DOMAIN frozen : frozen[i].key = frozen[j].key => i = j
    /\ {frozen[i].key : i \in DOMAIN frozen} = MeantKeys(Meaning(e))
    /\ \A D \in SUBSET MeantKeys(Meaning(e)) : RunsTo(frozen, D) <=> Closed(D, Meaning(e).waits)
    /\ \A i, j \in DOMAIN frozen :
          <<frozen[i].key, frozen[j].key>> \in Meaning(e).waits => i < j
=============================================================================
