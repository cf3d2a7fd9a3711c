----------------------- MODULE MCWorkflowKernelProofs -----------------------
(***************************************************************************)
(* The compiler and the plans of roots belong together, for plans of any   *)
(* size: the plans roots run with are exactly the compiled ones.           *)
(***************************************************************************)
EXTENDS MCWorkflowKernel, WorkflowCompilerProofs, WorkflowKernelProofs

LEMMA NodesFacts ==
    /\ NodeCount \in Nat \ {0}
    /\ Nodes \in SUBSET Nat
    /\ IsFiniteSet(Nodes)
    /\ Cardinality(Nodes) = NodeCount
<1>1. NodeCount \in Nat \ {0}
    BY WorkflowAssumption
<1>2. IsFiniteSet(1..NodeCount)
      /\ Cardinality(1..NodeCount) = IF 1 > NodeCount THEN 0 ELSE NodeCount - 1 + 1
    BY <1>1, FS_Interval
<1>3. (IF 1 > NodeCount THEN 0 ELSE NodeCount - 1 + 1) = NodeCount
    BY <1>1
<1> QED
    BY <1>1, <1>2, <1>3 DEF Nodes

-----------------------------------------------------------------------------
(* What the compiler makes of a group of tasks.                             *)

LEMMA TaskFields ==
    ASSUME NEW k, NEW d
    PROVE  /\ Task(k, d).op = "task"
           /\ IsLeaf(Task(k, d))
           /\ LeafKeys(Task(k, d)) = {k}
           /\ LeafDeps(Task(k, d)) = d
BY DEF Task, IsLeaf, LeafKeys, LeafDeps

LEMMA NodeFields ==
    ASSUME NEW at, NEW k, NEW d
    PROVE  Node(at, k, d).at = at /\ Node(at, k, d).key = k /\ Node(at, k, d).deps = d
BY DEF Node

Members == Group([n \in Nodes |-> n])

LEMMA FlatObjects ==
    ASSUME NEW d \in [Nodes -> SUBSET Nodes]
    PROVE  /\ DOMAIN Flat(d) = 1..(NodeCount + 1)
           /\ Len(Flat(d)) = NodeCount + 1
           /\ \A i \in Nodes : Flat(d)[i] = Task(i, d[i])
           /\ Flat(d)[NodeCount + 1] = Members
           /\ Flat(d) \in Seq(Objects)
           /\ Members.parts = [n \in Nodes |-> n]
           /\ Members.op = "group"
           /\ \A i \in Nodes : IsLeaf(Flat(d)[i])
           /\ ~IsLeaf(Members)
<1>1. NodeCount \in Nat \ {0}
    BY NodesFacts
<1>2. Flat(d) = [i \in 1..(NodeCount + 1) |-> IF i \in Nodes THEN Task(i, d[i]) ELSE Members]
    BY DEF Flat, Members
<1>3. NodeCount + 1 \notin Nodes /\ NodeCount + 1 \in 1..(NodeCount + 1)
      /\ \A i \in Nodes : i \in 1..(NodeCount + 1)
    BY <1>1 DEF Nodes
<1>4. \A i \in Nodes : Task(i, d[i]) \in Objects
    <2> SUFFICES ASSUME NEW i \in Nodes PROVE Task(i, d[i]) \in Objects
        OBVIOUS
    <2>1. i \in Nat /\ d[i] \in SUBSET Nat
        BY NodesFacts
    <2> QED
        BY <2>1 DEF Task, Objects
<1>5. Members \in Objects /\ Members.parts = [n \in Nodes |-> n] /\ Members.op = "group"
    <2>1. [n \in Nodes |-> n] \in [1..NodeCount -> Nat]
        BY NodesFacts DEF Nodes
    <2>2. [n \in Nodes |-> n] \in Seq(Nat)
        BY <1>1, <2>1
    <2> QED
        BY <2>2 DEF Members, Group, Objects
<1>6. \A i \in 1..(NodeCount + 1) : Flat(d)[i] \in Objects
    BY <1>2, <1>4, <1>5
<1>7. Flat(d) \in Seq(Objects) /\ Len(Flat(d)) = NodeCount + 1
    <2> DEFINE e == Flat(d)
    <2>1. e \in [1..(NodeCount + 1) -> Objects] /\ NodeCount + 1 \in Nat
        BY <1>1, <1>2, <1>6
    <2> HIDE DEF e
    <2>2. e \in Seq(Objects) /\ Len(e) = NodeCount + 1
        BY <2>1
    <2> QED
        BY <2>2 DEF e
<1>8. \A i \in Nodes : Flat(d)[i] = Task(i, d[i])
    BY <1>2, <1>3
<1>9. Flat(d)[NodeCount + 1] = Members
    BY <1>2, <1>3
<1>10. \A i \in Nodes : IsLeaf(Flat(d)[i])
    BY <1>8, TaskFields
<1> QED
    BY <1>2, <1>5, <1>7, <1>8, <1>9, <1>10 DEF IsLeaf

LEMMA FlatIsExpression ==
    ASSUME NEW d \in [Nodes -> SUBSET Nodes]
    PROVE  IsExpression(Flat(d)) /\ ~Raises(Flat(d))
<1> DEFINE e == Flat(d)
<1>1. NodeCount \in Nat \ {0} /\ Nodes = 1..NodeCount
    BY NodesFacts DEF Nodes
<1>2. /\ DOMAIN e = 1..(NodeCount + 1)
      /\ Len(e) = NodeCount + 1
      /\ \A i \in Nodes : e[i] = Task(i, d[i])
      /\ e[NodeCount + 1] = Members
      /\ e \in Seq(Objects)
      /\ Members.parts = [n \in Nodes |-> n]
      /\ Members.op = "group"
      /\ \A i \in Nodes : IsLeaf(e[i])
      /\ ~IsLeaf(Members)
    BY FlatObjects
<1> HIDE DEF e
<1>3. \A i \in DOMAIN e : i \in Nodes \/ i = NodeCount + 1
    BY <1>1, <1>2
<1>4. \A i \in DOMAIN e : ~IsLeaf(e[i]) => i = NodeCount + 1
    BY <1>2, <1>3
<1>5. DOMAIN Members.parts = Nodes /\ \A q \in Nodes : Members.parts[q] = q
    BY <1>2
<1>6. \A i \in DOMAIN e : ~IsLeaf(e[i]) =>
         \A q \in DOMAIN e[i].parts : e[i].parts[q] \in 1..(i - 1)
    <2>1. \A q \in Nodes : q \in 1..((NodeCount + 1) - 1)
        BY <1>1
    <2> QED
        BY <1>2, <1>4, <1>5, <2>1
<1>7. \A j \in 1..(Len(e) - 1) :
         \E i \in DOMAIN e : ~IsLeaf(e[i]) /\ \E q \in DOMAIN e[i].parts : e[i].parts[q] = j
    <2> SUFFICES ASSUME NEW j \in 1..(Len(e) - 1)
                 PROVE  \E i \in DOMAIN e :
                           ~IsLeaf(e[i]) /\ \E q \in DOMAIN e[i].parts : e[i].parts[q] = j
        OBVIOUS
    <2>1. j \in Nodes /\ NodeCount + 1 \in DOMAIN e
        BY <1>1, <1>2
    <2> QED
        BY <1>2, <1>5, <2>1
<1>8. e # <<>>
    BY <1>1, <1>2
<1>9. IsExpression(e)
    BY <1>2, <1>6, <1>7, <1>8 DEF IsExpression, Objects
<1>10. ~Raises(e)
    <2>1. \A i \in Nodes : e[i].op = "task"
        BY <1>2, TaskFields
    <2>2. Members.parts # <<>>
        BY <1>1, <1>5
    <2> QED
        BY <1>2, <1>3, <1>4, <2>1, <2>2 DEF Raises
<1> QED
    BY <1>9, <1>10 DEF e

\* Its nodes are those of the graph.
LEMMA FlatNodes ==
    ASSUME NEW d \in [Nodes -> SUBSET Nodes], NEW nodes, nodes = CompileExpr(Flat(d)).nodes
    PROVE  /\ \A x \in nodes : x.key \in Nodes /\ x = Node(<<x.key>>, x.key, d[x.key])
           /\ \A i \in Nodes : Node(<<i>>, i, d[i]) \in nodes
<1> DEFINE e == Flat(d)
           c == Compiled(e)
           cs == PartsOf(Members, c)
<1>1. NodeCount \in Nat \ {0} /\ Nodes = 1..NodeCount /\ Nodes \in SUBSET Nat
    BY NodesFacts DEF Nodes
<1>2. /\ Len(e) = NodeCount + 1
      /\ \A i \in Nodes : e[i] = Task(i, d[i])
      /\ e[NodeCount + 1] = Members
      /\ Members.parts = [n \in Nodes |-> n]
      /\ Members.op = "group"
      /\ \A i \in Nodes : IsLeaf(e[i])
      /\ ~IsLeaf(Members)
    BY FlatObjects
<1>3. \A i \in 1..Len(e) : c[i] = CompileObject(e[i], c)
    BY FlatIsExpression, CompiledEquation
<1>4. nodes = c[NodeCount + 1].nodes
    BY <1>2 DEF CompileExpr
<1> HIDE DEF e, c
<1>5. c[NodeCount + 1] = Beside(cs)
    <2>1. NodeCount + 1 \in 1..Len(e)
        BY <1>1, <1>2
    <2>2. c[NodeCount + 1] = CompileObject(Members, c)
        BY <1>2, <1>3, <2>1
    <2> QED
        BY <1>2, <2>2, CompileObjectCases
<1>6. \A i \in Nodes : c[i] = CompiledLeaf(Task(i, d[i]))
    <2> SUFFICES ASSUME NEW i \in Nodes PROVE c[i] = CompiledLeaf(Task(i, d[i]))
        OBVIOUS
    <2>1. i \in 1..Len(e)
        BY <1>1, <1>2
    <2>2. c[i] = CompileObject(Task(i, d[i]), c) /\ IsLeaf(Task(i, d[i]))
        BY <1>2, <1>3, <2>1
    <2> QED
        BY <2>2, CompileObjectCases
<1>7. \A i \in Nodes : LeafKeys(Task(i, d[i])) = {i} /\ LeafDeps(Task(i, d[i])) = d[i]
    BY TaskFields
<1>8. \A i \in Nodes : c[i].nodes = {Node(<<>>, i, d[i])}
    <2> SUFFICES ASSUME NEW i \in Nodes PROVE c[i].nodes = {Node(<<>>, i, d[i])}
        OBVIOUS
    <2> DEFINE x == Task(i, d[i])
    <2>1. LeafKeys(x) = {i} /\ LeafDeps(x) = d[i] /\ c[i] = CompiledLeaf(x)
        BY <1>6, <1>7
    <2> HIDE DEF x
    <2>2. c[i].nodes = {Node(<<>>, k, LeafDeps(x)) : k \in LeafKeys(x)}
        BY <2>1 DEF CompiledLeaf
    <2> QED
        BY <2>1, <2>2
<1>9. DOMAIN cs = Nodes /\ \A i \in Nodes : cs[i] = c[i]
    BY <1>2 DEF PartsOf
<1> HIDE DEF cs
<1>10. nodes = Together(cs, NoLinks(cs))
    BY <1>4, <1>5, CompoundNodes
<1>11. \A i \in Nodes : cs[i].nodes = {Node(<<>>, i, d[i])}
    BY <1>8, <1>9
<1>12. \A i \in Nodes : Linked(cs, NoLinks(cs), i, Node(<<>>, i, d[i])) = Node(<<i>>, i, d[i])
    <2> SUFFICES ASSUME NEW i \in Nodes
                 PROVE  Linked(cs, NoLinks(cs), i, Node(<<>>, i, d[i])) = Node(<<i>>, i, d[i])
        OBVIOUS
    <2>1. NoLinks(cs)[i] = {}
        BY <1>9 DEF NoLinks
    <2>2. Under(i, <<>>) = <<i>>
        BY DEF Under
    <2>3. /\ Node(<<>>, i, d[i]).at = <<>>
          /\ Node(<<>>, i, d[i]).key = i
          /\ Node(<<>>, i, d[i]).deps = d[i]
        BY DEF Node
    <2>4. d[i] \cup {} = d[i]
        OBVIOUS
    <2> QED
        BY <2>1, <2>2, <2>3, <2>4 DEF Linked
<1>13. ASSUME NEW x \in nodes
       PROVE  \E i \in Nodes : x = Node(<<i>>, i, d[i])
    <2>1. PICK i \in Nodes : \E y \in cs[i].nodes : x = Linked(cs, NoLinks(cs), i, y)
        BY <1>9, <1>10 DEF Together
    <2>2. x = Linked(cs, NoLinks(cs), i, Node(<<>>, i, d[i]))
        BY <1>11, <2>1
    <2> QED
        BY <1>12, <2>2
<1>14. \A x \in nodes : x.key \in Nodes /\ x = Node(<<x.key>>, x.key, d[x.key])
    <2> SUFFICES ASSUME NEW x \in nodes
                 PROVE  x.key \in Nodes /\ x = Node(<<x.key>>, x.key, d[x.key])
        OBVIOUS
    <2>1. PICK i \in Nodes : x = Node(<<i>>, i, d[i])
        BY <1>13
    <2>2. x.key = i
        BY <2>1, NodeFields
    <2> QED
        BY <2>1, <2>2
<1>15. ASSUME NEW i \in Nodes
       PROVE  Node(<<i>>, i, d[i]) \in nodes
    <2>1. Node(<<>>, i, d[i]) \in cs[i].nodes
        BY <1>11
    <2>2. Linked(cs, NoLinks(cs), i, Node(<<>>, i, d[i])) \in nodes
        BY <1>9, <1>10, <2>1 DEF Together
    <2> QED
        BY <1>12, <2>2
<1> QED
    BY <1>14, <1>15

\* The nodes of a graph, renumbered in the given order.
InOrderOf(d, q) == [n \in Nodes |-> {m \in Nodes : q[m] \in d[q[n]]}]

\* The plan of a graph has its nodes in topological order.
LEMMA FlatPlan ==
    ASSUME NEW d \in [Nodes -> SUBSET Nodes], NEW q, q = TopologicalOrder(d),
           NEW f, f = CompileWorkflow(Flat(d), NodeCount)
    PROVE  /\ f # Rejected <=> Len(q) = NodeCount
           /\ f # Rejected => Renumbered(f) = InOrderOf(d, q)
<1> DEFINE nodes == CompileExpr(Flat(d)).nodes
<1>1. NodeCount \in Nat \ {0} /\ Nodes = 1..NodeCount /\ Cardinality(Nodes) = NodeCount
    BY NodesFacts DEF Nodes
<1>2. f = IF Accepted(nodes, NodeCount) THEN Frozen(nodes) ELSE <<>>
    BY FlatIsExpression DEF CompileWorkflow, Rejected
<1>3. /\ \A x \in nodes : x.key \in Nodes /\ x = Node(<<x.key>>, x.key, d[x.key])
      /\ \A i \in Nodes : Node(<<i>>, i, d[i]) \in nodes
    BY FlatNodes
<1> HIDE DEF nodes
<1>4. \A i \in Nodes : Node(<<i>>, i, d[i]).key = i /\ Node(<<i>>, i, d[i]).deps = d[i]
    BY NodeFields
<1>5. NoDuplicates(nodes)
    BY <1>3 DEF NoDuplicates
<1>6. Keys(nodes) = Nodes
    <2>1. \A x \in nodes : x.key \in Nodes
        BY <1>3
    <2>2. \A i \in Nodes : \E x \in nodes : x.key = i
        BY <1>3, <1>4
    <2> QED
        BY <2>1, <2>2 DEF Keys
<1>7. \A i \in Nodes : NodeOf(nodes, i) = Node(<<i>>, i, d[i])
    <2> SUFFICES ASSUME NEW i \in Nodes
                 PROVE  NodeOf(nodes, i) = Node(<<i>>, i, d[i])
        OBVIOUS
    <2>1. \E x \in nodes : x.key = i
        BY <1>3, <1>4
    <2>2. NodeOf(nodes, i) \in nodes /\ NodeOf(nodes, i).key = i
        BY <2>1 DEF NodeOf
    <2> QED
        BY <1>3, <2>2
<1>8. \A i \in Nodes : NodeOf(nodes, i).key = i /\ NodeOf(nodes, i).deps = d[i]
    BY <1>4, <1>7
<1>9. KnownDependencies(nodes)
    <2> SUFFICES ASSUME NEW x \in nodes
                 PROVE  x.deps \subseteq Nodes
        BY <1>6 DEF KnownDependencies
    <2>1. x.key \in Nodes /\ x.deps = d[x.key]
        BY <1>3, <1>4
    <2> QED
        BY <2>1
<1>10. PlanOrder(nodes) = q
    <2>1. [k \in Keys(nodes) |-> NodeOf(nodes, k).deps] = d
        BY <1>6, <1>8
    <2> QED
        BY <2>1 DEF PlanOrder
<1>11. Accepted(nodes, NodeCount) <=> Len(q) = NodeCount
    BY <1>1, <1>5, <1>6, <1>9, <1>10 DEF Accepted
<1>12. Graph(d)
    BY NodesFacts DEF Graph
<1>13. q \in Seq(Nodes)
    BY <1>12, OrderFacts
<1>14. ASSUME Len(q) = NodeCount
       PROVE  f # <<>> /\ Renumbered(f) = InOrderOf(d, q)
    <2>1. q \in [Nodes -> Nodes] /\ DOMAIN q = Nodes
        BY <1>1, <1>13, <1>14
    <2>2. f = [i \in Nodes |-> NodeOf(nodes, q[i])]
        BY <1>2, <1>10, <1>11, <1>14, <2>1 DEF Frozen
    <2>3. \A i \in Nodes : f[i].key = q[i] /\ f[i].deps = d[q[i]]
        BY <1>8, <2>1, <2>2
    <2>4. f # <<>>
        <3>1. 1 \in DOMAIN f
            BY <1>1, <2>2
        <3> QED
            BY <3>1
    <2>5. \A n \in Nodes : {m \in Nodes : f[m].key \in f[n].deps} = {m \in Nodes : q[m] \in d[q[n]]}
        BY <2>3
    <2> QED
        BY <2>4, <2>5 DEF Renumbered, InOrderOf
<1> QED
    BY <1>2, <1>11, <1>14 DEF Rejected

-----------------------------------------------------------------------------
(* The topological order is the order of plans.                             *)

\* When every node has been queued, its dependencies come first, and the order
\* among nodes is the one plans have.
LEMMA RenumberedIsInPlanOrder ==
    ASSUME NEW d \in [Nodes -> SUBSET Nodes], NEW q, q = TopologicalOrder(d), Len(q) = NodeCount
    PROVE  /\ InOrderOf(d, q) \in [Nodes -> SUBSET Nodes]
           /\ InPlanOrder(InOrderOf(d, q))
<1> DEFINE r == InOrderOf(d, q)
<1>1. NodeCount \in Nat \ {0} /\ Nodes = 1..NodeCount /\ Graph(d)
    BY NodesFacts DEF Nodes, Graph
<1>2. Distinct(q) /\ DependenciesFirst(d, q) /\ LastFirst(d, q)
    BY <1>1, OrderFacts
<1>3. r \in [Nodes -> SUBSET Nodes] /\ \A n \in Nodes : r[n] = {m \in Nodes : q[m] \in d[q[n]]}
    BY DEF InOrderOf
<1> HIDE DEF r
<1>4. ASSUME NEW n \in Nodes, NEW m \in r[n]
      PROVE  m \in 1..(n - 1)
    <2>1. m \in Nodes /\ q[m] \in d[q[n]]
        BY <1>3, <1>4
    <2>2. n \in 1..Len(q) /\ m \in 1..Len(q)
        BY <1>1, <2>1
    <2>3. \A k \in d[q[n]] : \E i \in 1..Len(q) : i < n /\ q[i] = k
        BY <1>2, <2>2 DEF DependenciesFirst
    <2>4. PICK i \in 1..Len(q) : i < n /\ q[i] = q[m]
        BY <2>1, <2>3
    <2>5. i = m
        BY <1>2, <2>2, <2>4 DEF Distinct
    <2> QED
        BY <1>1, <2>1, <2>4, <2>5
<1>5. ASSUME NEW n \in Nodes, NEW m \in 1..(n - 1), NEW k \in r[m]
      PROVE  \E l \in r[n] : k <= l
    <2>1. m \in Nodes /\ m < n
        BY <1>1
    <2>2. k \in Nodes /\ q[k] \in d[q[m]]
        BY <1>3, <1>5, <2>1
    <2>3. PICK b \in Nodes : k <= b /\ q[b] \in d[q[n]]
        BY <1>1, <1>2, <2>1, <2>2 DEF LastFirst
    <2>4. b \in r[n]
        BY <1>3, <2>3
    <2> QED
        BY <2>3, <2>4
<1>6. InPlanOrder(r)
    BY <1>4, <1>5 DEF InPlanOrder
<1> QED
    BY <1>3, <1>6 DEF r

\* A graph that is in that order already keeps it.
LEMMA PlanOrderIsKept ==
    ASSUME NEW d \in [Nodes -> SUBSET Nodes], InPlanOrder(d), NEW q, q = TopologicalOrder(d)
    PROVE  /\ Len(q) = NodeCount
           /\ \A n \in Nodes : q[n] = n
<1>1. NodeCount \in Nat \ {0} /\ Nodes = 1..NodeCount /\ Cardinality(Nodes) = NodeCount
    BY NodesFacts DEF Nodes
<1>2. Graph(d) /\ DOMAIN d = Nodes
    BY NodesFacts DEF Graph
<1>3. /\ q \in Seq(Nodes)
      /\ Distinct(q)
      /\ DependenciesFirst(d, q)
      /\ TiesSorted(d, q)
    BY <1>2, OrderFacts
<1>4. \A n \in Nodes : d[n] \subseteq 1..(n - 1)
    BY DEF InPlanOrder
<1>5. \A n \in Nodes : \A m \in 1..(n - 1) : \A k \in d[m] : \E l \in d[n] : k <= l
    BY DEF InPlanOrder
<1>6. Acyclic(d)
    <2> SUFFICES ASSUME NEW C \in SUBSET Nodes, C # {}
                 PROVE  \E k \in C : d[k] \cap C = {}
        BY <1>2 DEF Acyclic
    <2>1. C \subseteq Nat
        BY <1>1
    <2>2. PICK k \in C : \A l \in C : k <= l
        BY <2>1, HasLeast
    <2>3. k \in Nodes
        BY <2>2
    <2>4. \A l \in d[k] : l \notin C
        BY <1>1, <1>4, <2>2, <2>3
    <2> QED
        BY <2>4
<1>7. Len(q) = NodeCount
    BY <1>1, <1>2, <1>6, OrderComplete
<1>8. \A n \in Nodes : \E i \in Nodes : q[i] = n
    BY <1>1, <1>2, <1>7, OrderLength DEF Queued
<1>9. q \in [Nodes -> Nodes]
    BY <1>1, <1>3, <1>7
<1> DEFINE S == {i \in Nodes : q[i] = i}
<1>10. ASSUME NEW i \in 1..NodeCount, \A j \in 1..(i - 1) : j \in S
       PROVE  i \in S
    <2> DEFINE k == q[i]
    <2>1. i \in Nodes /\ k \in Nodes
        BY <1>1, <1>9
    <2>2. \A j \in 1..(i - 1) : q[j] = j /\ j \in Nodes
        BY <1>10
    <2>3. PICK j \in Nodes : q[j] = i
        BY <1>8, <2>1
    <2>4. SUFFICES ASSUME k # i PROVE FALSE
        BY <2>1
    <2>5. k > i /\ j > i
        <3>1. ~(k < i)
            <4>1. SUFFICES ASSUME k < i PROVE FALSE
                OBVIOUS
            <4>2. k \in 1..(i - 1)
                BY <1>1, <2>1, <4>1
            <4>3. q[k] = q[i] /\ k # i
                BY <2>2, <2>4, <4>2
            <4> QED
                BY <1>1, <1>3, <1>7, <2>1, <4>3 DEF Distinct
        <3>2. j # i
            BY <2>3, <2>4
        <3>3. ~(j < i)
            BY <1>1, <2>2, <2>3
        <3> QED
            BY <1>1, <2>1, <2>3, <2>4, <3>1, <3>2, <3>3
    <2> HIDE DEF k
    <2>6. ASSUME NEW a \in Nodes, q[a] \in d[q[j]]
          PROVE  \E b \in Nodes : a <= b /\ q[b] \in d[q[i]]
        <3>1. q[a] \in d[i] /\ q[a] \in 1..(i - 1)
            BY <1>4, <2>1, <2>3, <2>6
        <3>2. q[q[a]] = q[a] /\ q[a] \in Nodes
            BY <2>2, <3>1
        <3>3. q[a] = a
            BY <1>1, <1>3, <1>7, <3>2 DEF Distinct
        <3>4. i \in 1..(k - 1)
            BY <1>1, <2>1, <2>5
        <3>5. PICK l \in d[k] : a <= l
            BY <1>5, <2>1, <3>1, <3>3, <3>4
        <3>6. l \in d[q[i]]
            BY <3>5 DEF k
        <3>7. PICK b \in 1..Len(q) : b < i /\ q[b] = l
            BY <1>1, <1>3, <1>7, <2>1, <3>6 DEF DependenciesFirst
        <3>8. b \in 1..(i - 1) /\ b \in Nodes
            BY <1>1, <1>7, <3>7
        <3>9. q[b] = b
            BY <2>2, <3>8
        <3> QED
            BY <3>5, <3>6, <3>7, <3>8, <3>9
    <2>7. q[i] < q[j]
        BY <1>1, <1>3, <1>7, <2>1, <2>3, <2>5, <2>6 DEF TiesSorted
    <2> QED
        BY <1>1, <2>1, <2>3, <2>5, <2>7 DEF k
<1>11. \A i \in 1..NodeCount : i \in S
    <2> HIDE DEF S
    <2> QED
        BY <1>1, <1>10, Positions
<1> QED
    BY <1>1, <1>7, <1>11

-----------------------------------------------------------------------------
(* So the plans of roots and the compiled plans are the same.               *)

LEMMA PlansCompiled ==
    ASSUME NEW d \in [Nodes -> SUBSET Nodes], InPlanOrder(d)
    PROVE  d \in CompiledPlans
<1> DEFINE q == TopologicalOrder(d)
           f == CompileWorkflow(Flat(d), NodeCount)
<1>1. Len(q) = NodeCount /\ \A n \in Nodes : q[n] = n
    BY PlanOrderIsKept
<1>2. f # Rejected /\ Renumbered(f) = InOrderOf(d, q)
    BY <1>1, FlatPlan
<1> HIDE DEF q, f
<1>3. InOrderOf(d, q) = d
    <2>1. \A n \in Nodes : {m \in Nodes : q[m] \in d[q[n]]} = d[n]
        BY <1>1
    <2> QED
        BY <2>1 DEF InOrderOf
<1>4. f \in {CompileWorkflow(Flat(g), NodeCount) : g \in [Nodes -> SUBSET Nodes]} \ {Rejected}
    BY <1>2 DEF f
<1> QED
    BY <1>2, <1>3, <1>4 DEF CompiledPlans

LEMMA CompiledPlansAreRun == EveryCompiledPlanIsRun
<1> SUFFICES ASSUME NEW d \in [Nodes -> SUBSET Nodes], NEW f,
                    f = CompileWorkflow(Flat(d), NodeCount), f # Rejected
             PROVE  Renumbered(f) \in {p.deps : p \in Plan}
    BY DEF EveryCompiledPlanIsRun, CompiledPlans
<1> DEFINE q == TopologicalOrder(d)
           r == InOrderOf(d, q)
<1>1. Len(q) = NodeCount /\ Renumbered(f) = r
    BY FlatPlan
<1>2. r \in [Nodes -> SUBSET Nodes] /\ InPlanOrder(r)
    BY <1>1, RenumberedIsInPlanOrder
<1> HIDE DEF q, r
<1> DEFINE p == [deps |-> r, required |-> {}, policy |-> "fail_fast"]
<1>3. p \in Plan /\ p.deps = r
    BY <1>2 DEF Plan, Policies
<1> QED
    BY <1>1, <1>3

LEMMA ExpressionsAreChecked == ExactOnExpressions /\ FaithfulOnExpressions
<1>1. \A e \in Expressions : IsExpression(e)
    BY DEF Expressions
<1>2. ExactOnExpressions
    BY <1>1, CompilerExact DEF ExactOnExpressions
<1>3. FaithfulOnExpressions
    BY <1>1, CompilerFaithful DEF FaithfulOnExpressions
<1> QED
    BY <1>2, <1>3

LEMMA RootPlanIsCompiled ==
    ASSUME TypeOK
    PROVE  plan.deps \in CompiledPlans
<1>1. plan.deps \in [Nodes -> SUBSET Nodes] /\ InPlanOrder(plan.deps)
    BY DEF TypeOK, Plan
<1> QED
    BY <1>1, PlansCompiled

\* The compiler that made the root's plan accepts exactly the expressions that can
\* be run.
THEOREM RootPlansAreWellFormed == Spec => []AcceptsTheWellFormed
<1>1. TypeOK => AcceptsTheWellFormed
    BY RootPlanIsCompiled, ExpressionsAreChecked DEF AcceptsTheWellFormed
<1> QED
    BY <1>1, WorkflowTypeCorrect, PTL

\* It loses no wait of an expression and adds none.
THEOREM RootPlansAreFaithful == Spec => []PlansImplementExpressions
<1>1. TypeOK => PlansImplementExpressions
    BY RootPlanIsCompiled, ExpressionsAreChecked DEF PlansImplementExpressions
<1> QED
    BY <1>1, WorkflowTypeCorrect, PTL

\* Whatever the number of nodes, roots run with exactly the plans that
\* _topological_order makes of graphs, up to the names of the nodes.
THEOREM RootPlansAreCompiled == Spec => []PlansAreCompiled
<1>1. TypeOK => PlansAreCompiled
    BY RootPlanIsCompiled, CompiledPlansAreRun DEF PlansAreCompiled
<1> QED
    BY <1>1, WorkflowTypeCorrect, PTL
=============================================================================
