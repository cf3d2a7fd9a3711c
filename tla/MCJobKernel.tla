---------------------------- MODULE MCJobKernel ----------------------------
(* TLC instances of JobKernel.                                              *)
EXTENDS JobKernel, TLC

CONSTANTS j1, w1, w2, p1, p2

\* Workers are interchangeable where no liveness is checked.
Symmetric == Permutations(Workers)

\* Bound: the second dispatcher is at work on first attempts only.
SecondDispatcherBounded ==
    \/ publisher[p2].pc = "idle" /\ \A j \in Jobs, n \in AttemptNos : dispatch[j][n].token # p2
    \/ \A j \in Jobs, n \in AttemptNos : n > 1 => attempt[j][n].status = "none"
=============================================================================
