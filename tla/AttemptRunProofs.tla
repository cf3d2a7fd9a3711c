-------------------------- MODULE AttemptRunProofs --------------------------
(***************************************************************************)
(* Proofs about AttemptRun, for any number of Jobs, tries and faults, and  *)
(* for every retry policy that does not retry a ledger failure.            *)
(***************************************************************************)
EXTENDS AttemptRun, TLAPS

-----------------------------------------------------------------------------
(* Type correctness.  TypeOK is inductive.                                  *)

\* The last attempt stays within the policy's maximum when an attempt ends.
LEMMA EndAttemptTyped ==
    ASSUME TypeOK, NEW j \in Jobs, NEW code \in Codes \cup {"none"}, EndAttempt(j, code)
    PROVE  /\ status' \in [Jobs -> {"absent", "queued", "running"} \cup Terminal]
           /\ tries' \in [Jobs -> 0..MaxTries]
           /\ error' \in [Runs -> Codes \cup {"none"}]
           /\ \A i \in Jobs : tries'[i] <= (IF kind[i] = "model" /\ i \in RetriedJobs THEN MaxTries ELSE 1)
<1>1. Tries(j) <= MaxTries /\ Tries(j) \in Nat
    BY RunAssumption DEF Tries
<1>2. error' \in [Runs -> Codes \cup {"none"}]
    BY DEF EndAttempt, TypeOK
<1>3. status' \in [Jobs -> {"absent", "queued", "running"} \cup Terminal]
    BY DEF EndAttempt, TypeOK, Terminal
<1>4. CASE Retries(j, code)
    <2>1. tries[j] < Tries(j) /\ tries' = [tries EXCEPT ![j] = @ + 1]
        BY <1>4 DEF EndAttempt, Retries
    <2>2. tries[j] \in Nat /\ tries[j] + 1 <= Tries(j) /\ tries[j] + 1 \in 0..MaxTries
        BY <2>1, <1>1, RunAssumption DEF TypeOK
    <2>3. tries' \in [Jobs -> 0..MaxTries]
        BY <2>1, <2>2 DEF TypeOK
    <2>4. \A i \in Jobs : tries'[i] <= Tries(i)
        BY <2>1, <2>2 DEF TypeOK
    <2> QED BY <2>3, <2>4, <1>2, <1>3 DEF Tries
<1>5. CASE ~Retries(j, code)
    BY <1>5, <1>2, <1>3 DEF EndAttempt, TypeOK, Tries
<1> QED BY <1>4, <1>5

LEMMA TypeInit == Init => TypeOK
BY RunAssumption DEF Init, TypeOK, Runs, NoItem, Tries

LEMMA TypeStep == TypeOK /\ [Next]_vars => TypeOK'
<1> SUFFICES ASSUME TypeOK, [Next]_vars PROVE TypeOK'
    OBVIOUS
<1> USE DEF TypeOK
<1>1. ASSUME NEW j \in Jobs, Submit(j) PROVE TypeOK'
    <2>1. 1 \in 0..MaxTries /\ 1 <= Tries(j)
        BY RunAssumption DEF Tries
    <2> QED BY <1>1, <2>1 DEF Submit, Tries, ledger, index
<1>2. ASSUME NEW j \in Jobs, Claim(j) PROVE TypeOK'
    BY <1>2 DEF Claim, Tries, ledger, index
<1>3. ASSUME NEW r \in Runs, Execute(r) PROVE TypeOK'
    BY <1>3 DEF Execute, Goes, Tries, job, ledger, index
<1>4. ASSUME NEW r \in Runs, ExecutorRaises(r) PROVE TypeOK'
    BY <1>4 DEF ExecutorRaises, Raises, Codes, Tries, job, ledger, index
<1>5. ASSUME NEW r \in Runs, WriteResult(r) PROVE TypeOK'
    BY <1>5 DEF WriteResult, Stage, Upsert, Changes, Goes, Raises, Codes, Tries, Runs, job, ledger, index
<1>6. ASSUME NEW r \in Runs, RunSideEffect(r) PROVE TypeOK'
    BY <1>6 DEF RunSideEffect, Stage, Changes, Goes, Raises, Codes, Tries, Runs, job, ledger, index
<1>7. ASSUME NEW r \in Runs, SideEffectRaises(r) PROVE TypeOK'
    BY <1>7 DEF SideEffectRaises, Raises, Codes, Tries, Terminal, ledger, index
<1>8. ASSUME NEW r \in Runs, MarkSucceeded(r) PROVE TypeOK'
    BY <1>8 DEF MarkSucceeded, Goes, Raises, Codes, Tries, Terminal, ledger, index
<1>9. ASSUME NEW r \in Runs, OpenCall(r) PROVE TypeOK'
    BY <1>9 DEF OpenCall, Goes, Tries, job, index
<1>10. ASSUME NEW r \in Runs, ProviderReplies(r) PROVE TypeOK'
    BY <1>10 DEF ProviderReplies, Goes, Tries, job, ledger, index
<1>11. ASSUME NEW r \in Runs, Settle(r) PROVE TypeOK'
    BY <1>11 DEF Settle, Goes, Raises, Codes, Tries, job, index
<1>12. ASSUME NEW r \in Runs, HeartbeatFails(r) PROVE TypeOK'
    BY <1>12 DEF HeartbeatFails, Raises, Codes, Tries, job, ledger, index
<1>13. ASSUME NEW r \in Runs, RecordFailure(r) PROVE TypeOK'
    <2>1. r[1] \in Jobs /\ raised[r] \in Codes \cup {"none"}
        BY DEF Runs
    <2>2. CASE EndAttempt(r[1], raised[r])
        BY <1>13, <2>1, <2>2, EndAttemptTyped DEF RecordFailure, Tries, ledger, index
    <2>3. CASE UNCHANGED job
        BY <1>13, <2>3 DEF RecordFailure, Tries, job, ledger, index
    <2> QED BY <1>13, <2>2, <2>3 DEF RecordFailure
<1>14. ASSUME NEW r \in Runs, Crash(r) PROVE TypeOK'
    BY <1>14, RunAssumption DEF Crash, Tries, job, ledger, index
<1>15. ASSUME NEW r \in Runs, RecoverAttempt(r) PROVE TypeOK'
    <2>1. r[1] \in Jobs /\ "JOB_TIMEOUT" \in Codes
        BY DEF Runs, Codes
    <2>2. faults' \in 0..MaxFaults
        BY <1>15, RunAssumption DEF RecoverAttempt, Overdue
    <2> QED BY <1>15, <2>1, <2>2, EndAttemptTyped DEF RecoverAttempt, Tries, ledger, index
<1>16. ASSUME NEW r \in Runs, RecoverRow(r) PROVE TypeOK'
    BY <1>16, RunAssumption DEF RecoverRow, PendingTooLong, Overdue, Tries, job, index
<1>17. ASSUME RootEnds PROVE TypeOK'
    <2>1. /\ Frozen \in {"none", "open", "final"}
          /\ Counted \in SUBSET Runs /\ Live \in SUBSET Jobs
        BY DEF Frozen, Counted, Live, Members
    <2> QED BY <1>17, <2>1 DEF RootEnds, Tries, job, ledger, index
<1>18. ASSUME UNCHANGED vars PROVE TypeOK'
    BY <1>18 DEF vars, Tries
<1>19. ASSUME NEW r \in Runs, CallDirectly(r) PROVE TypeOK'
    BY <1>19 DEF CallDirectly, Goes, Tries, job, index
<1>20. ASSUME NEW r \in Runs, UseAnswer(r) PROVE TypeOK'
    BY <1>20 DEF UseAnswer, Goes, Raises, Codes, Tries, job, ledger, index
<1> QED BY <1>1, <1>2, <1>3, <1>4, <1>5, <1>6, <1>7, <1>8, <1>9, <1>10, <1>11, <1>12, <1>13,
           <1>14, <1>15, <1>16, <1>17, <1>18, <1>19, <1>20 DEF Next, RunStep

\* Every reachable state is well typed; no Job has more attempts than its
\* policy_max_attempts.
THEOREM RunTypeCorrect == Spec => []TypeOK
BY TypeInit, TypeStep, PTL DEF Spec

-----------------------------------------------------------------------------
(* The bill of the root.                                                    *)

\* A call through the ledger that is charged for has left a row: it was
\* committed before.
ChargedHaveRows == charged \cap Ledgered \subseteq Called

\* A bill is complete only over rows that are all billable.
LEMMA FinalMeansAllBillable == ASSUME TypeOK, Final PROVE Called \subseteq Counted
<1>1. CASE Called = {}
    BY <1>1
<1>2. CASE Called # {}
    <2>1. ~ \E r \in Called : row[r] = "uncosted"
        BY <1>2 DEF Final, Billing
    <2>2. ~ \E r \in Called : row[r] \in {"pending", "unknown"}
        BY <1>2, <2>1 DEF Final, Billing
    <2> QED BY <2>1, <2>2 DEF Called, Counted, TypeOK
<1> QED BY <1>1, <1>2

LEMMA ChargedStep == TypeOK /\ ChargedHaveRows /\ [Next]_vars => ChargedHaveRows'
<1> SUFFICES ASSUME TypeOK, ChargedHaveRows, [Next]_vars PROVE ChargedHaveRows'
    OBVIOUS
<1> USE DEF ChargedHaveRows, Called, Ledgered
<1>1. ASSUME NEW r \in Runs, OpenCall(r) PROVE ChargedHaveRows'
    BY <1>1 DEF OpenCall, TypeOK
<1>2. ASSUME NEW r \in Runs, Settle(r) PROVE ChargedHaveRows'
    BY <1>2 DEF Settle, TypeOK
<1>3. ASSUME NEW r \in Runs, RecoverRow(r) PROVE ChargedHaveRows'
    BY <1>3 DEF RecoverRow, TypeOK
<1>4. ASSUME NEW r \in Runs, CallDirectly(r) PROVE ChargedHaveRows'
    BY <1>4 DEF CallDirectly
<1>5. ASSUME UNCHANGED <<ledger, kind>> PROVE ChargedHaveRows'
    BY <1>5 DEF ledger
<1> QED BY <1>1, <1>2, <1>3, <1>4, <1>5
        DEF Next, RunStep, vars, ledger, Submit, Claim, Execute, ExecutorRaises, WriteResult,
            RunSideEffect, SideEffectRaises, MarkSucceeded, ProviderReplies, UseAnswer, HeartbeatFails,
            RecordFailure, Crash, RecoverAttempt, RootEnds

\* A billing that calls itself complete misses no call made through the ledger,
\* for any number of retries, crashes and late answers.  It does miss the calls
\* of Jobs that go past the ledger.
THEOREM BillingCorrect == Spec => []BillingCoversLedgered
<1>1. Init => ChargedHaveRows
    BY DEF Init, ChargedHaveRows
<1>2. TypeOK /\ ChargedHaveRows => BillingCoversLedgered
    BY FinalMeansAllBillable DEF ChargedHaveRows, BillingCoversLedgered
<1> QED BY <1>1, <1>2, TypeInit, TypeStep, ChargedStep, PTL DEF Spec

\* After a root has ended with no member alive, none comes to life again.
NoneRevives == bill.state # "none" /\ bill.live = {} => Live = {}

\* Only queued and running members may still call the provider, and executions
\* that have not ended.
LEMMA LiveStep == TypeOK /\ NoneRevives /\ [Next]_vars => NoneRevives'
<1> SUFFICES ASSUME TypeOK, NoneRevives, [Next]_vars, bill'.state # "none", bill'.live = {}
             PROVE  Live' = {}
    BY DEF NoneRevives
<1>1. CASE RootEnds
    <2>1. Live = {}
        BY <1>1 DEF RootEnds, TypeOK
    <2> QED BY <1>1, <2>1 DEF RootEnds, Live, Members, Indexing, job
<1>2. CASE ~RootEnds
    <2>1. bill' = bill
        BY <1>2 DEF Next, RunStep, vars, Submit, Claim, Execute, ExecutorRaises, WriteResult,
            RunSideEffect, SideEffectRaises, MarkSucceeded, OpenCall, CallDirectly, ProviderReplies,
            Settle, UseAnswer, HeartbeatFails, RecordFailure, Crash, RecoverAttempt, RecoverRow
    <2>2. Live = {} /\ bill.state # "none" /\ kind' = kind
        BY <1>2, <2>1 DEF NoneRevives, Next, RunStep, vars, Submit, Claim, Execute, ExecutorRaises,
            WriteResult, RunSideEffect, SideEffectRaises, MarkSucceeded, OpenCall, CallDirectly, ProviderReplies,
            Settle, UseAnswer, HeartbeatFails, RecordFailure, Crash, RecoverAttempt, RecoverRow
    <2>3. ASSUME NEW j \in Members
          PROVE  status[j] \notin {"queued", "running"} /\ \A n \in 1..MaxTries : pc[<<j, n>>] \in {"none", "over"}
        BY <2>2 DEF Live
    <2> DEFINE Still(j) == status'[j] \notin {"queued", "running"}
                           /\ \A n \in 1..MaxTries : pc'[<<j, n>>] \in {"none", "over"}
    <2> SUFFICES ASSUME NEW j \in Members PROVE Still(j)
        BY <2>2 DEF Live, Members, Indexing
    <2>4. status[j] \notin {"queued", "running"} /\ \A n \in 1..MaxTries : pc[<<j, n>>] \in {"none", "over"}
        BY <2>3
    <2>5. j \in Jobs /\ j \notin Indexing
        BY DEF Members
    <2>6. ASSUME NEW i \in Jobs, Submit(i) PROVE Still(j)
        BY <2>6, <2>4, <2>5, <2>2 DEF Submit, TypeOK, Members, Indexing
    <2>7. ASSUME NEW i \in Jobs, Claim(i) PROVE Still(j)
        BY <2>7, <2>4, <2>5 DEF Claim, TypeOK
    <2>8. ASSUME NEW r \in Runs, RunStep(r) \/ Crash(r) \/ RecoverAttempt(r) \/ RecoverRow(r) PROVE Still(j)
        <3>1. r[1] \in Jobs /\ r[2] \in 1..MaxTries /\ r = <<r[1], r[2]>>
            BY DEF Runs
        <3>2. CASE r[1] = j
            <4>1. pc[r] \in {"none", "over"} /\ ~Holds(r)
                BY <2>4, <3>1, <3>2 DEF Holds
            <4>2. UNCHANGED <<pc, status>>
                BY <2>8, <4>1 DEF RunStep, Execute, ExecutorRaises, WriteResult, RunSideEffect,
                   SideEffectRaises, MarkSucceeded, OpenCall, CallDirectly, ProviderReplies, Settle,
                   UseAnswer, HeartbeatFails, RecordFailure, Crash, RecoverAttempt, RecoverRow, job
            <4> QED BY <2>4, <4>2
        <3>3. CASE r[1] # j
            <4>1. \A n \in 1..MaxTries : <<j, n>> # r /\ <<j, n>> \in Runs
                BY <3>1, <3>3, <2>5 DEF Runs
            <4>2. \A n \in 1..MaxTries : pc'[<<j, n>>] = pc[<<j, n>>]
                BY <2>8, <4>1 DEF RunStep, Execute, ExecutorRaises, WriteResult, RunSideEffect,
                   SideEffectRaises, MarkSucceeded, OpenCall, CallDirectly, ProviderReplies, Settle,
                   UseAnswer, HeartbeatFails,
                   RecordFailure, Crash, RecoverAttempt, RecoverRow, Stage, Goes, Raises, TypeOK
            <4>3. status'[j] = status[j]
                BY <2>8, <3>1, <3>3, <2>5 DEF RunStep, Execute, ExecutorRaises, WriteResult, RunSideEffect,
                   SideEffectRaises, MarkSucceeded, OpenCall, CallDirectly, ProviderReplies, Settle,
                   UseAnswer, HeartbeatFails,
                   RecordFailure, Crash, RecoverAttempt, RecoverRow, EndAttempt, job, TypeOK
            <4> QED BY <4>2, <4>3, <2>4
        <3> QED BY <3>2, <3>3
    <2>9. ASSUME UNCHANGED vars PROVE Still(j)
        BY <2>9, <2>4 DEF vars
    <2> QED BY <1>2, <2>6, <2>7, <2>8, <2>9 DEF Next
<1> QED BY <1>1, <1>2

\* The frozen cost of an ended root has all calls through the ledger as long as
\* no member was alive then.
FrozenCorrect == FrozenCoversLedgered /\ NoneRevives

LEMMA FrozenStep ==
    TypeOK /\ ChargedHaveRows /\ FrozenCorrect /\ [Next]_vars => FrozenCorrect'
<1> SUFFICES ASSUME TypeOK, ChargedHaveRows, FrozenCorrect, [Next]_vars PROVE FrozenCorrect'
    OBVIOUS
<1>1. NoneRevives'
    BY LiveStep DEF FrozenCorrect
<1>2. CASE RootEnds
    <2>1. bill'.state = Frozen /\ bill'.counted = Counted /\ charged' = charged /\ kind' = kind
        BY <1>2 DEF RootEnds, ledger
    <2>2. bill'.state = "final" => Final
        BY <2>1 DEF Frozen
    <2> QED BY <1>1, <2>1, <2>2, FinalMeansAllBillable DEF FrozenCorrect, FrozenCoversLedgered, ChargedHaveRows, Ledgered
<1>3. CASE \E r \in Runs : OpenCall(r) \/ CallDirectly(r)
    <2>1. PICK r \in Runs : OpenCall(r) \/ CallDirectly(r)
        BY <1>3
    <2>2. r[1] \in Members /\ r[2] \in 1..MaxTries /\ r = <<r[1], r[2]>> /\ pc[r] = "executing"
        BY <2>1 DEF OpenCall, CallDirectly, Runs, Members, Indexing
    <2>3. pc[<<r[1], r[2]>>] \notin {"none", "over"}
        BY <2>2
    <2>4. Live # {}
        BY <2>2, <2>3 DEF Live
    <2>5. bill' = bill
        BY <2>1 DEF OpenCall, CallDirectly
    <2>6. ~(bill.state = "final" /\ bill.live = {})
        BY <2>4 DEF FrozenCorrect, NoneRevives
    <2> QED BY <1>1, <2>5, <2>6 DEF FrozenCorrect, FrozenCoversLedgered
<1>4. CASE ~RootEnds /\ ~ \E r \in Runs : OpenCall(r) \/ CallDirectly(r)
    <2>1. bill' = bill /\ charged' = charged /\ kind' = kind
        BY <1>4 DEF Next, RunStep, vars, ledger, Submit, Claim, Execute, ExecutorRaises, WriteResult,
            RunSideEffect, SideEffectRaises, MarkSucceeded, ProviderReplies, Settle, UseAnswer,
            HeartbeatFails, RecordFailure, Crash, RecoverAttempt, RecoverRow
    <2> QED BY <1>1, <2>1 DEF FrozenCorrect, FrozenCoversLedgered, Ledgered
<1> QED BY <1>2, <1>3, <1>4

\* The cost in a root's terminal snapshot, once it is given as final, is never
\* contradicted by a later charge for a call through the ledger unless a member
\* was still alive at the end.
THEOREM FrozenCostCorrect == Spec => []FrozenCoversLedgered
<1>1. Init => ChargedHaveRows /\ FrozenCorrect
    BY DEF Init, ChargedHaveRows, FrozenCorrect, FrozenCoversLedgered, NoneRevives
<1>2. FrozenCorrect => FrozenCoversLedgered
    BY DEF FrozenCorrect
<1> QED BY <1>1, <1>2, TypeInit, TypeStep, ChargedStep, FrozenStep, PTL DEF Spec

-----------------------------------------------------------------------------
(* A ledger failure ends its Job.                                           *)

LEMMA EndAttemptNotReplayed ==
    ASSUME TypeOK, LedgerFailureNotReplayed, NEW j \in Jobs, NEW code, status[j] = "running",
           EndAttempt(j, code)
    PROVE  LedgerFailureNotReplayed'
<1> SUFFICES ASSUME NEW r \in Runs, error'[r] = "AI_LEDGER_UPDATE_FAILED"
             PROVE  tries'[r[1]] = r[2] /\ status'[r[1]] = "failed"
    BY DEF LedgerFailureNotReplayed
<1>1. r[1] \in Jobs /\ r = <<r[1], r[2]>>
    BY DEF Runs
<1>2. CASE r = <<j, tries[j]>>
    <2>1. code = "AI_LEDGER_UPDATE_FAILED"
        BY <1>2 DEF EndAttempt, TypeOK
    <2>2. ~Retries(j, code)
        BY <2>1, RunAssumption DEF Retries
    <2> QED BY <1>1, <1>2, <2>2 DEF EndAttempt, TypeOK
<1>3. CASE r # <<j, tries[j]>>
    <2>1. error[r] = "AI_LEDGER_UPDATE_FAILED"
        BY <1>3 DEF EndAttempt, TypeOK
    <2>2. tries[r[1]] = r[2] /\ status[r[1]] = "failed"
        BY <2>1 DEF LedgerFailureNotReplayed
    <2>3. r[1] # j
        BY <2>2
    <2> QED BY <1>1, <2>2, <2>3 DEF EndAttempt, TypeOK
<1> QED BY <1>2, <1>3

LEMMA NotReplayedStep ==
    TypeOK /\ LedgerFailureNotReplayed /\ [Next]_vars => LedgerFailureNotReplayed'
<1> SUFFICES ASSUME TypeOK, LedgerFailureNotReplayed, [Next]_vars PROVE LedgerFailureNotReplayed'
    OBVIOUS
<1>1. \A r \in Runs : r[1] \in Jobs
    BY DEF Runs
<1>2. ASSUME NEW j \in Jobs, Submit(j) PROVE LedgerFailureNotReplayed'
    BY <1>2, <1>1 DEF Submit, LedgerFailureNotReplayed, TypeOK
<1>3. ASSUME NEW j \in Jobs, Claim(j) PROVE LedgerFailureNotReplayed'
    BY <1>3, <1>1 DEF Claim, LedgerFailureNotReplayed, TypeOK
<1>4. ASSUME NEW r \in Runs, SideEffectRaises(r) PROVE LedgerFailureNotReplayed'
    <2>1. CASE UNCHANGED <<status, error>>
        BY <1>4, <2>1 DEF SideEffectRaises, LedgerFailureNotReplayed
    <2>2. CASE Holds(r) /\ error' = [error EXCEPT ![r] = "OTHER"]
               /\ status' = [status EXCEPT ![r[1]] = "failed"]
        BY <1>4, <2>2, <1>1 DEF SideEffectRaises, LedgerFailureNotReplayed, TypeOK
    <2> QED BY <1>4, <2>1, <2>2 DEF SideEffectRaises
<1>5. ASSUME NEW r \in Runs, MarkSucceeded(r) PROVE LedgerFailureNotReplayed'
    BY <1>5, <1>1 DEF MarkSucceeded, Holds, LedgerFailureNotReplayed, TypeOK
<1>6. ASSUME NEW r \in Runs, RecordFailure(r) PROVE LedgerFailureNotReplayed'
    <2>1. CASE Holds(r) /\ EndAttempt(r[1], raised[r])
        BY <2>1, <1>1, EndAttemptNotReplayed DEF Holds
    <2>2. CASE UNCHANGED job
        BY <2>2 DEF job, LedgerFailureNotReplayed
    <2> QED BY <1>6, <2>1, <2>2 DEF RecordFailure
<1>7. ASSUME NEW r \in Runs, RecoverAttempt(r) PROVE LedgerFailureNotReplayed'
    BY <1>7, <1>1, EndAttemptNotReplayed DEF RecoverAttempt, Holds
<1>8. ASSUME UNCHANGED job PROVE LedgerFailureNotReplayed'
    BY <1>8 DEF job, LedgerFailureNotReplayed
<1> QED BY <1>2, <1>3, <1>4, <1>5, <1>6, <1>7, <1>8
        DEF Next, RunStep, vars, job, Execute, ExecutorRaises, WriteResult, RunSideEffect, OpenCall, CallDirectly,
            ProviderReplies, Settle, UseAnswer, HeartbeatFails, Crash, RecoverRow, RootEnds

\* Whatever the retry policy, an attempt whose ledger row could not be updated
\* is the last of its Job: the provider is not called again because of it.
THEOREM NoReplayCorrect == Spec => []LedgerFailureNotReplayed
<1>1. Init => LedgerFailureNotReplayed
    BY DEF Init, LedgerFailureNotReplayed
<1> QED BY <1>1, TypeInit, TypeStep, NotReplayedStep, PTL DEF Spec

-----------------------------------------------------------------------------
(* Ledger rows are settled once.                                            *)

\* The executions of attempts that have not been claimed have not begun, and
\* have no rows.
Unclaimed ==
    /\ \A j \in Jobs : status[j] = "absent" => tries[j] = 0
    /\ \A j \in Jobs, n \in 1..MaxTries :
          /\ n > tries[j] \/ (n = tries[j] /\ status[j] \in {"absent", "queued"})
                 => pc[<<j, n>>] = "none"
          /\ pc[<<j, n>>] \in {"none", "executing"} => row[<<j, n>>] = "none"

LEMMA UnclaimedStep == TypeOK /\ Unclaimed /\ [Next]_vars => Unclaimed'
<1> SUFFICES ASSUME TypeOK, Unclaimed, [Next]_vars, NEW j \in Jobs, NEW n \in 1..MaxTries
             PROVE  /\ status'[j] = "absent" => tries'[j] = 0
                    /\ n > tries'[j] \/ (n = tries'[j] /\ status'[j] \in {"absent", "queued"})
                           => pc'[<<j, n>>] = "none"
                    /\ pc'[<<j, n>>] \in {"none", "executing"} => row'[<<j, n>>] = "none"
    <2>1. 1 \in 1..MaxTries
        BY RunAssumption
    <2> QED BY <2>1 DEF Unclaimed
<1> DEFINE At == <<j, n>>
           Early == n > tries[j] \/ (n = tries[j] /\ status[j] \in {"absent", "queued"})
           Good == /\ status'[j] = "absent" => tries'[j] = 0
                   /\ n > tries'[j] \/ (n = tries'[j] /\ status'[j] \in {"absent", "queued"})
                           => pc'[At] = "none"
                   /\ pc'[At] \in {"none", "executing"} => row'[At] = "none"
<1>1. /\ At \in Runs /\ tries[j] \in Nat
      /\ status[j] = "absent" => tries[j] = 0
      /\ Early => pc[At] = "none"
      /\ pc[At] \in {"none", "executing"} => row[At] = "none"
    <2>1. At \in Runs /\ tries[j] \in Nat
        BY RunAssumption DEF Runs, TypeOK
    <2> QED BY <2>1 DEF Unclaimed
<1>2. ASSUME NEW i \in Jobs, Submit(i) PROVE Good
    BY <1>1, <1>2 DEF Submit, TypeOK, ledger
<1>3. ASSUME NEW i \in Jobs, Claim(i) PROVE Good
    <2>1. CASE i = j
        <3>1. tries' = tries /\ row' = row /\ status'[j] = "running" /\ status[j] = "queued"
            BY <1>3, <2>1 DEF Claim, TypeOK, ledger
        <3>2. At # <<j, tries[j]>> => pc'[At] = pc[At]
            BY <1>3, <2>1, <1>1 DEF Claim, TypeOK
        <3>3. n = tries[j] => pc[At] = "none" /\ row[At] = "none"
            BY <1>1, <3>1
        <3> QED BY <1>1, <3>1, <3>2, <3>3
    <2>2. CASE i # j
        <3>1. tries' = tries /\ row' = row /\ status'[j] = status[j]
            BY <1>3, <2>2 DEF Claim, TypeOK, ledger
        <3>2. pc'[At] = pc[At]
            BY <1>3, <2>2, <1>1 DEF Claim, TypeOK
        <3> QED BY <1>1, <3>1, <3>2
    <2> QED BY <2>1, <2>2
<1>4. ASSUME NEW r \in Runs, RunStep(r) \/ Crash(r) \/ RecoverAttempt(r) \/ RecoverRow(r) PROVE Good
    <2>1. r[1] \in Jobs /\ r[2] \in 1..MaxTries /\ r = <<r[1], r[2]>>
        BY DEF Runs
    <2>2. n > tries'[j] \/ (n = tries'[j] /\ status'[j] \in {"absent", "queued"}) => Early
        <3>1. CASE UNCHANGED job
            BY <3>1 DEF job
        <3>2. CASE \E code : Holds(r) /\ EndAttempt(r[1], code)
            <4>1. PICK code : Holds(r) /\ EndAttempt(r[1], code)
                BY <3>2
            <4>2. \/ UNCHANGED <<status, tries>>
                  \/ tries' = tries /\ status' = [status EXCEPT ![r[1]] = "failed"]
                  \/ /\ tries' = [tries EXCEPT ![r[1]] = @ + 1]
                     /\ status' = [status EXCEPT ![r[1]] = "queued"]
                BY <4>1 DEF EndAttempt
            <4> QED BY <4>2, <2>1, <1>1 DEF TypeOK
        <3>3. CASE tries' = tries /\ \/ status' = [status EXCEPT ![r[1]] = "failed"]
                                      \/ status' = [status EXCEPT ![r[1]] = "succeeded"]
                                      \/ status' = status
            BY <3>3, <2>1 DEF TypeOK
        <3> QED BY <1>4, <3>1, <3>2, <3>3 DEF RunStep, Execute, ExecutorRaises, WriteResult,
                RunSideEffect, SideEffectRaises, MarkSucceeded, OpenCall, CallDirectly,
                ProviderReplies, Settle, UseAnswer,
                HeartbeatFails, RecordFailure, Crash, RecoverAttempt, RecoverRow, job
    <2>3. pc[At] = "none" => pc'[At] = "none" /\ row'[At] = row[At]
        <3>1. CASE r = At
            BY <1>4, <3>1, <1>1 DEF RunStep, Execute, ExecutorRaises, WriteResult,
                RunSideEffect, SideEffectRaises, MarkSucceeded, OpenCall, CallDirectly,
                ProviderReplies, Settle, UseAnswer,
                HeartbeatFails, RecordFailure, Crash, RecoverAttempt, RecoverRow, PendingTooLong,
                ledger, TypeOK
        <3>2. CASE r # At
            BY <1>4, <3>2, <1>1 DEF RunStep, Execute, ExecutorRaises, WriteResult,
                RunSideEffect, SideEffectRaises, MarkSucceeded, OpenCall, CallDirectly,
                ProviderReplies, Settle, UseAnswer,
                HeartbeatFails, RecordFailure, Crash, RecoverAttempt, RecoverRow, Stage, Goes, Raises,
                ledger, TypeOK
        <3> QED BY <3>1, <3>2
    <2>4. pc'[At] = "executing" => pc[At] = "executing" /\ row'[At] = row[At]
        <3>1. CASE r = At
            BY <1>4, <3>1, <1>1 DEF RunStep, Execute, ExecutorRaises, WriteResult,
                RunSideEffect, SideEffectRaises, MarkSucceeded, OpenCall, CallDirectly,
                ProviderReplies, Settle, UseAnswer,
                HeartbeatFails, RecordFailure, Crash, RecoverAttempt, RecoverRow, Stage, Goes, Raises,
                PendingTooLong, ledger, TypeOK
        <3>2. CASE r # At
            BY <1>4, <3>2, <1>1 DEF RunStep, Execute, ExecutorRaises, WriteResult,
                RunSideEffect, SideEffectRaises, MarkSucceeded, OpenCall, CallDirectly,
                ProviderReplies, Settle, UseAnswer,
                HeartbeatFails, RecordFailure, Crash, RecoverAttempt, RecoverRow, Stage, Goes, Raises,
                ledger, TypeOK
        <3> QED BY <3>1, <3>2
    <2>5. pc'[At] = "none" => pc[At] = "none"
        BY <1>4, <1>1 DEF RunStep, Execute, ExecutorRaises, WriteResult,
            RunSideEffect, SideEffectRaises, MarkSucceeded, OpenCall, CallDirectly, ProviderReplies,
            Settle, UseAnswer,
            HeartbeatFails, RecordFailure, Crash, RecoverAttempt, RecoverRow, Stage, Goes, Raises, TypeOK
    <2>6. status'[j] = "absent" => status[j] = "absent" /\ tries'[j] = tries[j]
        BY <1>4, <2>1 DEF RunStep, Execute, ExecutorRaises, WriteResult, RunSideEffect,
            SideEffectRaises, MarkSucceeded, OpenCall, CallDirectly, ProviderReplies, Settle,
            UseAnswer, HeartbeatFails,
            RecordFailure, Crash, RecoverAttempt, RecoverRow, EndAttempt, Holds, job, TypeOK
    <2> QED BY <1>1, <2>2, <2>3, <2>4, <2>5, <2>6
<1>5. ASSUME RootEnds \/ UNCHANGED vars PROVE Good
    BY <1>1, <1>5 DEF RootEnds, vars, job, ledger
<1> QED BY <1>2, <1>3, <1>4, <1>5 DEF Next

LEMMA RowStep ==
    TypeOK /\ Unclaimed /\ [Next]_vars
        => \A r \in Runs : row[r] \notin {"none", "pending"} => row'[r] = row[r]
<1> SUFFICES ASSUME TypeOK, Unclaimed, [Next]_vars, NEW r \in Runs, row[r] \notin {"none", "pending"}
             PROVE  row'[r] = row[r]
    OBVIOUS
<1>1. ASSUME NEW q \in Runs, OpenCall(q) PROVE row'[r] = row[r]
    <2>1. q[1] \in Jobs /\ q[2] \in 1..MaxTries /\ q = <<q[1], q[2]>>
        BY DEF Runs
    <2>2. pc[<<q[1], q[2]>>] = "executing"
        BY <1>1, <2>1 DEF OpenCall
    <2>3. row[<<q[1], q[2]>>] = "none"
        BY <2>1, <2>2 DEF Unclaimed
    <2> QED BY <1>1, <2>1, <2>3 DEF OpenCall, TypeOK
<1>2. ASSUME NEW q \in Runs, Settle(q) PROVE row'[r] = row[r]
    BY <1>2 DEF Settle, Open, TypeOK
<1>3. ASSUME NEW q \in Runs, RecoverRow(q) PROVE row'[r] = row[r]
    BY <1>3 DEF RecoverRow, PendingTooLong, TypeOK
<1>4. ASSUME UNCHANGED row PROVE row'[r] = row[r]
    BY <1>4
<1> QED BY <1>1, <1>2, <1>3, <1>4
        DEF Next, RunStep, vars, ledger, Submit, Claim, Execute, ExecutorRaises, WriteResult,
            RunSideEffect, SideEffectRaises, MarkSucceeded, CallDirectly, ProviderReplies, UseAnswer,
            HeartbeatFails, RecordFailure, Crash, RecoverAttempt, RootEnds

\* What the ledger says of a call once it is settled never changes: neither a
\* late answer nor recovery nor another attempt writes the row again.
THEOREM SettledOnceCorrect == Spec => RowSettledOnce
<1>1. Init => Unclaimed
    BY DEF Init, Unclaimed, Runs
<1>2. TypeOK /\ Unclaimed /\ [Next]_vars
        => [\A r \in Runs : row[r] \notin {"none", "pending"} => row'[r] = row[r]]_vars
    BY RowStep
<1> QED BY <1>1, <1>2, TypeInit, TypeStep, UnclaimedStep, PTL DEF Spec, RowSettledOnce

-----------------------------------------------------------------------------
(* The asset index.                                                         *)

\* The caller asks for one indexing Job after the other.
OneAfterTheOther ==
    \A i, j \in Indexing : i < j /\ status[j] # "absent" => status[i] \in Terminal

\* The item is as the last Job wants it from the commit that wrote it on.
Latest(j) == \A i \in Indexing : i > j => status[i] = "absent"
Past(j, step) == \E n \in 1..MaxTries : Holds(<<j, n>>) /\ pc[<<j, n>>] \in step

ItemFollows ==
    late = {} =>
        \A j \in Indexing : Latest(j) =>
            /\ kind[j] = "upsert" /\ (status[j] = "succeeded" \/ Past(j, {"writing", "marking"}))
                  => item = j
            /\ kind[j] = "delete" /\ (status[j] = "succeeded" \/ Past(j, {"marking"}))
                  => item = NoItem

\* How a status may change.
LEMMA StatusStep ==
    ASSUME TypeOK, [Next]_vars, NEW j \in Jobs
    PROVE  /\ kind' = kind
           /\ status[j] = "absent" => status'[j] = "absent"
                 \/ /\ status'[j] = "queued"
                    /\ j \in Indexing => \A i \in Indexing : i < j => status[i] \in Terminal
           /\ status[j] \in Terminal => status'[j] = status[j]
           /\ status[j] # "absent" => status'[j] # "absent"
<1>1. ASSUME NEW i \in Jobs, Submit(i) \/ Claim(i)
      PROVE  /\ kind' = kind
             /\ status[j] = "absent" => status'[j] = "absent"
                   \/ /\ status'[j] = "queued"
                      /\ j \in Indexing => \A k \in Indexing : k < j => status[k] \in Terminal
             /\ status[j] \in Terminal => status'[j] = status[j]
             /\ status[j] # "absent" => status'[j] # "absent"
    BY <1>1 DEF Submit, Claim, TypeOK, Terminal, Members
<1>2. ASSUME NEW r \in Runs, Holds(r), NEW s \in {"queued", "failed", "succeeded"},
             status' = [status EXCEPT ![r[1]] = s]
      PROVE  /\ status[j] = "absent" => status'[j] = "absent"
             /\ status[j] \in Terminal => status'[j] = status[j]
             /\ status[j] # "absent" => status'[j] # "absent"
    BY <1>2 DEF Holds, TypeOK, Terminal
<1>3. ASSUME NEW r \in Runs, RunStep(r) \/ Crash(r) \/ RecoverAttempt(r) \/ RecoverRow(r)
      PROVE  /\ kind' = kind
             /\ \/ status' = status
                \/ Holds(r) /\ \E s \in {"queued", "failed", "succeeded"} : status' = [status EXCEPT ![r[1]] = s]
    BY <1>3 DEF RunStep, Execute, ExecutorRaises, WriteResult, RunSideEffect, SideEffectRaises,
       MarkSucceeded, OpenCall, CallDirectly, ProviderReplies, Settle, UseAnswer, HeartbeatFails,
       RecordFailure, Crash, RecoverAttempt, RecoverRow, EndAttempt, job
<1>4. ASSUME RootEnds \/ UNCHANGED vars PROVE kind' = kind /\ status' = status
    BY <1>4 DEF RootEnds, vars, job
<1> QED BY <1>1, <1>2, <1>3, <1>4 DEF Next

LEMMA KindStep == ASSUME TypeOK, [Next]_vars PROVE kind' = kind
<1>1. 1 \in Jobs
    BY RunAssumption DEF Jobs
<1> QED BY <1>1, StatusStep

LEMMA OrderStep == TypeOK /\ OneAfterTheOther /\ [Next]_vars => OneAfterTheOther'
<1> SUFFICES ASSUME TypeOK, OneAfterTheOther, [Next]_vars PROVE OneAfterTheOther'
    OBVIOUS
<1>0. Indexing' = Indexing
    BY KindStep DEF Indexing
<1> SUFFICES ASSUME NEW i \in Indexing, NEW j \in Indexing, i < j, status'[j] # "absent"
             PROVE  status'[i] \in Terminal
    BY <1>0 DEF OneAfterTheOther
<1>1. i \in Jobs /\ j \in Jobs
    BY DEF Indexing
<1>2. status[i] \in Terminal
    <2>1. CASE status[j] # "absent"
        BY <2>1 DEF OneAfterTheOther
    <2>2. CASE status[j] = "absent"
        BY <2>2, <1>1, StatusStep
    <2> QED BY <2>1, <2>2
<1> QED BY <1>1, <1>2, StatusStep

\* The execution that holds a lease is the last Job's.
LEMMA HolderIsLatest ==
    ASSUME TypeOK, OneAfterTheOther, NEW r \in Runs, Holds(r), r[1] \in Indexing
    PROVE  \A j \in Indexing : Latest(j) /\ status[j] # "absent" => j = r[1]
<1> SUFFICES ASSUME NEW j \in Indexing, Latest(j), status[j] # "absent", j # r[1] PROVE FALSE
    OBVIOUS
<1>1. j \in Nat /\ r[1] \in Nat /\ status[r[1]] = "running"
    BY RunAssumption DEF Indexing, Jobs, Holds
<1>2. CASE j < r[1]
    BY <1>1, <1>2 DEF Latest
<1>3. CASE r[1] < j
    BY <1>1, <1>3 DEF OneAfterTheOther, Terminal
<1> QED BY <1>1, <1>2, <1>3

\* A commit of the holder is a commit of the last Job.
LEMMA ItemStep == TypeOK /\ OneAfterTheOther /\ ItemFollows /\ [Next]_vars => ItemFollows'
<1> SUFFICES ASSUME TypeOK, OneAfterTheOther, ItemFollows, [Next]_vars PROVE ItemFollows'
    OBVIOUS
<1>0. kind' = kind /\ Indexing' = Indexing
    BY KindStep DEF Indexing
<1> SUFFICES ASSUME late' = {},
                    NEW j \in Indexing, Latest(j)'
             PROVE  /\ kind[j] = "upsert" /\ (status'[j] = "succeeded" \/ Past(j, {"writing", "marking"})')
                          => item' = j
                    /\ kind[j] = "delete" /\ (status'[j] = "succeeded" \/ Past(j, {"marking"})')
                          => item' = NoItem
    BY <1>0 DEF ItemFollows
<1> DEFINE Good == /\ kind[j] = "upsert" /\ (status'[j] = "succeeded" \/ Past(j, {"writing", "marking"})')
                          => item' = j
                   /\ kind[j] = "delete" /\ (status'[j] = "succeeded" \/ Past(j, {"marking"})')
                          => item' = NoItem
           Kept == /\ status'[j] = "succeeded" => status[j] = "succeeded"
                   /\ Past(j, {"writing", "marking"})' => Past(j, {"writing", "marking"})
                   /\ Past(j, {"marking"})' => Past(j, {"marking"})
<1>1. j \in Jobs /\ kind[j] \in {"upsert", "delete"} /\ \A n \in 1..MaxTries : <<j, n>> \in Runs
    BY DEF Indexing, Runs, TypeOK
<1>2. Latest(j)
    <2>1. \A i \in Indexing : i \in Jobs
        BY DEF Indexing
    <2> QED BY <1>0, <2>1, StatusStep DEF Latest
<1>3. late = {}
    BY DEF Next, RunStep, vars, index, Submit, Claim, Execute, ExecutorRaises, WriteResult, Upsert, Changes,
        RunSideEffect, SideEffectRaises, MarkSucceeded, OpenCall, CallDirectly, ProviderReplies,
        Settle, UseAnswer, HeartbeatFails, RecordFailure, Crash, RecoverAttempt, RecoverRow, RootEnds
<1>4. /\ kind[j] = "upsert" /\ (status[j] = "succeeded" \/ Past(j, {"writing", "marking"})) => item = j
      /\ kind[j] = "delete" /\ (status[j] = "succeeded" \/ Past(j, {"marking"})) => item = NoItem
    BY <1>2, <1>3 DEF ItemFollows
<1>5. ASSUME Kept, UNCHANGED item PROVE Good
    BY <1>4, <1>5
\* A process step that neither enters one of the stages nor succeeds.
<1>6. ASSUME NEW r \in Runs, r[1] = j => pc'[r] \notin {"writing", "marking"},
             \A q \in Runs : q # r => pc'[q] = pc[q],
             status' = status \/ (Holds(r) /\ \E s \in {"queued", "failed"} : status' = [status EXCEPT ![r[1]] = s]),
             \A i \in Jobs : i # r[1] \/ status' = status => tries'[i] = tries[i]
      PROVE  Kept
    <2>1. \A n \in 1..MaxTries : pc'[<<j, n>>] \in {"writing", "marking"} => pc'[<<j, n>>] = pc[<<j, n>>]
        BY <1>1, <1>6
    <2>2. \A n \in 1..MaxTries : Holds(<<j, n>>)' => Holds(<<j, n>>)
        <3>1. CASE status' = status
            BY <3>1, <1>1, <1>6 DEF Holds
        <3>2. CASE r[1] = j /\ status' # status
            BY <3>2, <1>1, <1>6 DEF Holds, TypeOK
        <3>3. CASE r[1] # j /\ status' # status
            BY <3>3, <1>1, <1>6 DEF Holds, TypeOK
        <3> QED BY <3>1, <3>2, <3>3
    <2>3. status'[j] = "succeeded" => status[j] = "succeeded"
        BY <1>1, <1>6 DEF TypeOK
    <2> QED BY <2>1, <2>2, <2>3 DEF Past
<1>7. ASSUME NEW i \in Jobs, Submit(i) PROVE Good
    <2>1. Kept
        <3>1. CASE i = j
            <4>1. status'[j] = "queued"
                BY <1>1, <1>7, <3>1 DEF Submit, TypeOK
            <4> QED BY <4>1 DEF Past, Holds
        <3>2. CASE i # j
            <4>1. status'[j] = status[j] /\ tries'[j] = tries[j] /\ pc' = pc
                BY <1>1, <1>7, <3>2 DEF Submit, TypeOK
            <4> QED BY <4>1 DEF Past, Holds
        <3> QED BY <3>1, <3>2
    <2> QED BY <1>5, <1>7, <2>1 DEF Submit, index
<1>8. ASSUME NEW i \in Jobs, Claim(i) PROVE Good
    <2>1. \A n \in 1..MaxTries : pc'[<<j, n>>] \in {"writing", "marking"} => pc'[<<j, n>>] = pc[<<j, n>>]
        BY <1>1, <1>8 DEF Claim, TypeOK
    <2>2. \A n \in 1..MaxTries : Holds(<<j, n>>)' =>
              \/ Holds(<<j, n>>)
              \/ i = j /\ n = tries[j]
        BY <1>8 DEF Claim, Holds, TypeOK
    <2>3. i = j => \A n \in 1..MaxTries : n = tries[j] => pc'[<<j, n>>] = "executing"
        BY <1>1, <1>8 DEF Claim, TypeOK
    <2>4. status'[j] = "succeeded" => status[j] = "succeeded"
        BY <1>8, <1>1 DEF Claim, TypeOK
    <2>5. Kept
        BY <2>1, <2>2, <2>3, <2>4 DEF Past
    <2> QED BY <1>5, <1>8, <2>5 DEF Claim, index
<1>9. ASSUME NEW r \in Runs,
             \/ Execute(r) \/ ExecutorRaises(r) \/ SideEffectRaises(r) \/ OpenCall(r) \/ CallDirectly(r)
             \/ ProviderReplies(r) \/ Settle(r) \/ UseAnswer(r) \/ HeartbeatFails(r)
             \/ RecordFailure(r) \/ Crash(r) \/ RecoverAttempt(r) \/ RecoverRow(r)
      PROVE  Good
    <2>1. UNCHANGED item
        BY <1>9 DEF Execute, ExecutorRaises, SideEffectRaises, OpenCall, CallDirectly, ProviderReplies,
            Settle, UseAnswer, HeartbeatFails, RecordFailure, Crash, RecoverAttempt, RecoverRow, index
    <2>2. CASE ~RecoverAttempt(r) /\ ~RecoverRow(r)
        <3>1. pc'[r] \notin {"writing", "marking"} /\ \A q \in Runs : q # r => pc'[q] = pc[q]
            BY <1>9, <2>2 DEF Execute, ExecutorRaises, SideEffectRaises, OpenCall, CallDirectly,
                ProviderReplies, Settle, UseAnswer,
               HeartbeatFails, RecordFailure, Crash, Goes, Raises, TypeOK
        <3>2. /\ \/ status' = status
                 \/ Holds(r) /\ \E s \in {"queued", "failed"} : status' = [status EXCEPT ![r[1]] = s]
              /\ tries' = tries \/ (tries' = [tries EXCEPT ![r[1]] = @ + 1]
                                      /\ status' = [status EXCEPT ![r[1]] = "queued"] /\ Holds(r))
            BY <1>9, <2>2 DEF Execute, ExecutorRaises, SideEffectRaises, OpenCall, CallDirectly,
                ProviderReplies, Settle, UseAnswer,
               HeartbeatFails, RecordFailure, Crash, EndAttempt, job
        <3>3. \A i \in Jobs : i # r[1] \/ status' = status => tries'[i] = tries[i]
            BY <3>2 DEF Holds, TypeOK, Runs
        <3> QED BY <1>5, <1>6, <2>1, <3>1, <3>2, <3>3
    <2>3. CASE RecoverAttempt(r)
        <3>1. /\ Holds(r) /\ \E s \in {"queued", "failed"} : status' = [status EXCEPT ![r[1]] = s]
              /\ \A i \in Jobs : i # r[1] => tries'[i] = tries[i]
              /\ pc' = pc
            BY <2>3 DEF RecoverAttempt, EndAttempt, TypeOK
        <3>2. r[1] = j => status'[j] \in {"queued", "failed"}
            BY <3>1, <1>1 DEF TypeOK
        <3>3. Kept
            <4>1. CASE r[1] = j
                BY <4>1, <3>2 DEF Past, Holds
            <4>2. CASE r[1] # j
                BY <4>2, <3>1, <1>1 DEF Past, Holds, TypeOK
            <4> QED BY <4>1, <4>2
        <3> QED BY <1>5, <2>1, <3>3
    <2>4. CASE RecoverRow(r)
        <3>1. Kept
            BY <2>4 DEF RecoverRow, Past, Holds, job
        <3> QED BY <1>5, <2>1, <3>1
    <2> QED BY <2>2, <2>3, <2>4
<1>10. ASSUME NEW r \in Runs, WriteResult(r) PROVE Good
    <2>1. pc'[r] \in {"writing", "raised"} /\ (\A q \in Runs : q # r => pc'[q] = pc[q]) /\ UNCHANGED job
        BY <1>10 DEF WriteResult, Stage, Goes, Raises, TypeOK
    <2>2. CASE kind[r[1]] = "upsert"
        <3>1. Holds(r) /\ item' = r[1] /\ r[1] \in Indexing
            BY <1>10, <2>2, <1>3 DEF WriteResult, Upsert, Changes, Indexing, Runs
        <3>2. status[j] # "absent" => j = r[1]
            BY <1>2, <3>1, HolderIsLatest
        <3>3. status'[j] = "succeeded" \/ Past(j, {"writing", "marking"})' \/ Past(j, {"marking"})'
                => status[j] # "absent"
            BY <2>1 DEF job, Past, Holds
        <3> QED BY <2>2, <3>1, <3>2, <3>3
    <2>3. CASE kind[r[1]] # "upsert"
        <3>1. UNCHANGED item
            BY <1>10, <2>3 DEF WriteResult, Upsert, index
        <3>2. \A n \in 1..MaxTries : pc'[<<j, n>>] = "marking" => pc[<<j, n>>] = "marking"
            BY <2>1, <1>1
        <3>3. kind[j] = "upsert" => \A n \in 1..MaxTries : <<j, n>> # r
            BY <2>3
        <3>4. kind[j] = "upsert" => (Past(j, {"writing", "marking"})' => Past(j, {"writing", "marking"}))
            BY <2>1, <3>3, <1>1 DEF Past, Holds, job
        <3>5. Past(j, {"marking"})' => Past(j, {"marking"})
            BY <2>1, <3>2 DEF Past, Holds, job
        <3> QED BY <1>4, <2>1, <3>1, <3>4, <3>5 DEF job
    <2> QED BY <2>2, <2>3
<1>11. ASSUME NEW r \in Runs, RunSideEffect(r) PROVE Good
    <2>1. /\ pc'[r] \in {"marking", "raised"} /\ (\A q \in Runs : q # r => pc'[q] = pc[q]) /\ UNCHANGED job
          /\ pc[r] = "writing"
        BY <1>11 DEF RunSideEffect, Stage, Goes, Raises, TypeOK
    <2>2. CASE kind[r[1]] = "delete"
        <3>1. Holds(r) /\ item' = NoItem /\ r[1] \in Indexing
            BY <1>11, <2>2, <1>3 DEF RunSideEffect, Changes, Indexing, Runs
        <3>2. status[j] # "absent" => j = r[1]
            BY <1>2, <3>1, HolderIsLatest
        <3>3. status'[j] = "succeeded" \/ Past(j, {"writing", "marking"})' \/ Past(j, {"marking"})'
                => status[j] # "absent"
            BY <2>1 DEF job, Past, Holds
        <3> QED BY <2>2, <3>1, <3>2, <3>3
    <2>3. CASE kind[r[1]] # "delete"
        <3>1. UNCHANGED item
            BY <1>11, <2>3 DEF RunSideEffect, index
        <3>2. Past(j, {"writing", "marking"})' => Past(j, {"writing", "marking"})
            BY <2>1, <1>1 DEF Past, Holds, job
        <3>3. kind[j] = "delete" => \A n \in 1..MaxTries : <<j, n>> # r
            BY <2>3
        <3>4. kind[j] = "delete" => (Past(j, {"marking"})' => Past(j, {"marking"}))
            BY <2>1, <3>3, <1>1 DEF Past, Holds, job
        <3> QED BY <1>4, <2>1, <3>1, <3>2, <3>4 DEF job
    <2> QED BY <2>2, <2>3
<1>12. ASSUME NEW r \in Runs, MarkSucceeded(r) PROVE Good
    <2>1. /\ UNCHANGED item /\ tries' = tries /\ pc[r] = "marking" /\ r[1] \in Jobs /\ r[2] \in 1..MaxTries
          /\ r = <<r[1], r[2]>>
          /\ pc'[r] \in {"over", "raised"} /\ \A q \in Runs : q # r => pc'[q] = pc[q]
        BY <1>12 DEF MarkSucceeded, Goes, Raises, TypeOK, index, Runs
    <2>2. CASE UNCHANGED status
        <3>1. Kept
            BY <2>1, <2>2, <1>1 DEF Past, Holds
        <3> QED BY <1>5, <2>1, <3>1
    <2>3. CASE Holds(r) /\ status' = [status EXCEPT ![r[1]] = "succeeded"]
        <3>1. CASE j = r[1]
            <4>1. Past(j, {"marking"}) /\ Past(j, {"writing", "marking"})
                <5>1. Holds(<<j, r[2]>>) /\ pc[<<j, r[2]>>] = "marking"
                    BY <2>1, <2>3, <3>1
                <5> QED BY <2>1, <5>1 DEF Past
            <4> QED BY <1>4, <2>1, <4>1
        <3>2. CASE j # r[1]
            <4>1. status'[j] = status[j] /\ tries'[j] = tries[j]
                BY <2>1, <2>3, <3>2, <1>1 DEF TypeOK
            <4>2. \A n \in 1..MaxTries : pc'[<<j, n>>] = pc[<<j, n>>]
                BY <2>1, <3>2, <1>1
            <4>3. Kept
                BY <4>1, <4>2 DEF Past, Holds
            <4> QED BY <1>5, <2>1, <4>3
        <3> QED BY <3>1, <3>2
    <2> QED BY <1>12, <2>2, <2>3 DEF MarkSucceeded
<1>13. ASSUME RootEnds \/ UNCHANGED vars PROVE Good
    BY <1>4, <1>13 DEF RootEnds, vars, job, index, Past, Holds
<1> QED BY <1>7, <1>8, <1>9, <1>10, <1>11, <1>12, <1>13 DEF Next, RunStep

\* Unless an execution wrote to the index without its lease, the last Job that
\* has succeeded decides about the item, for any number of Jobs one after the
\* other: misses, cancellations and crashes of those before it do not matter.
THEOREM LastJobCorrect == Spec => []LastJobDecides
<1>1. Init => OneAfterTheOther /\ ItemFollows
    BY DEF Init, OneAfterTheOther, ItemFollows, Past, Holds, Indexing, Runs
<1>2. TypeOK /\ ItemFollows => LastJobDecides
    <2> SUFFICES ASSUME TypeOK, ItemFollows, NEW j \in Indexing, status[j] = "succeeded", late = {},
                        \A i \in Indexing : i > j => status[i] = "absent"
                 PROVE  item = IF kind[j] = "upsert" THEN j ELSE NoItem
        BY DEF LastJobDecides
    <2>1. kind[j] \in {"upsert", "delete"}
        BY DEF Indexing, TypeOK
    <2> QED BY <2>1 DEF ItemFollows, Latest
<1> QED BY <1>1, <1>2, TypeInit, TypeStep, OrderStep, ItemStep, PTL DEF Spec
=============================================================================
