---------------------------- MODULE JobLifecycle ----------------------------
(***************************************************************************)
(* What the execution kernel promises about one Job, seen from the API and *)
(* the callback receiver: the status walks from queued to a terminal one,  *)
(* going back to queued only for a next attempt of a bounded chain, and    *)
(* the terminal event is recorded in the same step as the terminal status. *)
(***************************************************************************)
EXTENDS Naturals

CONSTANTS Jobs, MaxAttempts

VARIABLES
    status,     \* the status the API reports
    created,    \* the attempts created so far
    event       \* the terminal events recorded for the callback

Terminal == {"succeeded", "failed"}

Init ==
    /\ status  = [j \in Jobs |-> "absent"]
    /\ created = [j \in Jobs |-> {}]
    /\ event   = [j \in Jobs |-> {}]

Submit(j) ==
    /\ status[j] = "absent"
    /\ status' = [status EXCEPT ![j] = "queued"]
    /\ created' = [created EXCEPT ![j] = {1}]
    /\ UNCHANGED event

Start(j) ==
    /\ status[j] = "queued"
    /\ status' = [status EXCEPT ![j] = "running"]
    /\ UNCHANGED <<created, event>>

\* The next attempt of the chain: attempt n + 1 where n was the last one.
Requeue(j) ==
    /\ status[j] = "running"
    /\ \E n \in 2..MaxAttempts :
          /\ created[j] = 1..(n - 1)
          /\ created' = [created EXCEPT ![j] = 1..n]
    /\ status' = [status EXCEPT ![j] = "queued"]
    /\ UNCHANGED event

\* A queued Job can only fail (it was never published), a running one can end
\* either way.
Finish(j, s) ==
    /\ status[j] = "running" \/ (status[j] = "queued" /\ s = "failed")
    /\ status' = [status EXCEPT ![j] = s]
    /\ event' = [event EXCEPT ![j] = {s}]
    /\ UNCHANGED created

Next ==
    \E j \in Jobs :
        \/ Submit(j)
        \/ Start(j)
        \/ Requeue(j)
        \/ \E s \in Terminal : Finish(j, s)

Spec == Init /\ [][Next]_<<status, created, event>>
=============================================================================
