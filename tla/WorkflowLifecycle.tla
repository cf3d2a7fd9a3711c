------------------------- MODULE WorkflowLifecycle --------------------------
(***************************************************************************)
(* What a workflow promises to its caller, who sees the root and which     *)
(* nodes have run: every node runs at most once and after the nodes it     *)
(* depends on, and the root gets one result, which the nodes justify and   *)
(* which does not come before the required ones, fail_fast aside.          *)
(*                                                                         *)
(* Whether, when and how many ready nodes are started is left open.        *)
(***************************************************************************)

CONSTANT Nodes

VARIABLES
    plan,       \* what each node depends on, the required ones, the policy
    node,       \* how far each node has come
    result      \* of the root: "running" until it has one

Init ==
    /\ plan.deps \in [Nodes -> SUBSET Nodes]
    /\ plan.required \subseteq Nodes
    /\ node = [n \in Nodes |-> "absent"]
    /\ result = "running"

\* The nodes when this step has ended one of them, or none.
Ending ==
    {node} \cup {[node EXCEPT ![n] = s] :
                    n \in {m \in Nodes : node[m] = "active"}, s \in {"succeeded", "failed"}}

Startable(c) ==
    {n \in Nodes : c[n] = "absent" /\ \A d \in plan.deps[n] : c[d] = "succeeded"}

\* The same transaction may start what the end has made ready.
Start(c, S) ==
    /\ node' = [n \in Nodes |-> IF n \in S THEN "active" ELSE c[n]]
    /\ UNCHANGED result

Failed(c, S) == \E n \in S : c[n] = "failed"

\* The results that the nodes justify.
Justified(c) ==
    {r \in {"success", "partial_success", "failed"} :
        CASE r = "success" -> \A n \in plan.required : c[n] = "succeeded"
          [] r = "partial_success" ->
                /\ Failed(c, Nodes)
                /\ \/ \A n \in plan.required : c[n] = "succeeded"
                   \/ plan.policy = "allow_partial" /\ \E n \in plan.required : c[n] = "succeeded"
          [] OTHER -> Failed(c, Nodes) \/ \A n \in Nodes : c[n] = "absent"}

\* The root ends, in a step that starts nothing.
Finish(c) ==
    /\ result = "running"
    /\ \/ \A n \in plan.required : c[n] # "active"
       \/ plan.policy = "fail_fast" /\ Failed(c, plan.required)
    /\ node' = c
    /\ result' \in Justified(c)

Next ==
    /\ \E c \in Ending : Finish(c) \/ \E S \in SUBSET Startable(c) : Start(c, S)
    /\ UNCHANGED plan

Spec == Init /\ [][Next]_<<plan, node, result>>
=============================================================================
