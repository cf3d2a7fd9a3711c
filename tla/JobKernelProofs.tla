-------------------------- MODULE JobKernelProofs --------------------------
(***************************************************************************)
(* Proofs about JobKernel, for any number of Jobs, workers, dispatchers,   *)
(* attempts and faults, and for every publish budget.                      *)
(***************************************************************************)
EXTENDS JobKernel, TLAPS

-----------------------------------------------------------------------------
(* Type correctness.  A busy process has a target and the token of a        *)
(* running attempt is a worker's: TypeOK alone is not inductive.            *)

LedgerTyped ==
    /\ status \in [Jobs -> JobStatus]
    /\ active \in [Jobs -> 0..MaxAttempts]
    /\ attempt \in [Jobs -> [AttemptNos -> Attempt]]
    /\ dispatch \in [Jobs -> [AttemptNos -> Dispatch]]
    /\ callback \in [Jobs -> SUBSET Terminal]
    /\ \A j \in Jobs, n \in AttemptNos :
          attempt[j][n].status = "running" => attempt[j][n].token \in Workers

WorkersTyped ==
    /\ worker \in [Workers -> Worker]
    /\ \A w \in Workers : worker[w].pc # "idle" =>
          worker[w].job \in Jobs /\ worker[w].no \in AttemptNos

PublishersTyped ==
    /\ publisher \in [Publishers -> Publisher]
    /\ \A p \in Publishers : publisher[p].pc # "idle" =>
          publisher[p].job \in Jobs /\ publisher[p].no \in AttemptNos

QueuesTyped ==
    /\ broker \subseteq Jobs \X AttemptNos
    /\ stale \subseteq StaleRow
    /\ faults \in 0..MaxFaults

Typed == LedgerTyped /\ WorkersTyped /\ PublishersTyped /\ QueuesTyped

LEMMA TypedImpliesTypeOK == Typed => TypeOK
BY DEF Typed, LedgerTyped, WorkersTyped, PublishersTyped, QueuesTyped, TypeOK

Phases == {"none", "execute", "lease", "dispatch"}

\* The rows and process states the actions write are well typed.
LEMMA Rows ==
    /\ NoAttempt \in Attempt /\ NewAttempt \in Attempt
    /\ NoDispatch \in Dispatch
    /\ \A b \in BOOLEAN : NewDispatch(b) \in Dispatch
    /\ IdleWorker \in Worker /\ IdlePublisher \in Publisher
    /\ \A s \in Terminal, f \in Phases : EndedAttempt(s, f) \in Attempt
<1>1. NoAttempt \in Attempt
    BY DEF NoAttempt, Attempt
<1>2. NewAttempt \in Attempt
    BY DEF NoAttempt, NewAttempt, Attempt
<1>3. NoDispatch \in Dispatch
    BY KernelAssumption DEF NoDispatch, Dispatch
<1>4. \A b \in BOOLEAN : NewDispatch(b) \in Dispatch
    BY KernelAssumption DEF NoDispatch, NewDispatch, Dispatch
<1>5. IdleWorker \in Worker /\ IdlePublisher \in Publisher
    BY KernelAssumption DEF IdleWorker, IdlePublisher, Worker, Publisher
<1>6. \A s \in Terminal, f \in Phases : EndedAttempt(s, f) \in Attempt
    BY DEF EndedAttempt, NoAttempt, Attempt, Terminal, Phases
<1> QED BY <1>1, <1>2, <1>3, <1>4, <1>5, <1>6

LEMMA InitTyped == Init => Typed
<1> SUFFICES ASSUME Init PROVE Typed
    OBVIOUS
<1> USE Rows, KernelAssumption
<1>1. LedgerTyped
    BY DEF Init, LedgerTyped, JobStatus, NoAttempt
<1>2. WorkersTyped
    BY DEF Init, WorkersTyped, IdleWorker
<1>3. PublishersTyped
    BY DEF Init, PublishersTyped, IdlePublisher
<1>4. QueuesTyped
    BY DEF Init, QueuesTyped
<1> QED BY <1>1, <1>2, <1>3, <1>4 DEF Typed

LEMMA FinishTyped ==
    ASSUME Typed, NEW j \in Jobs, NEW n \in AttemptNos, NEW s \in Terminal, NEW f \in Phases,
           FinishJob(j, n, s, f)
    PROVE  LedgerTyped'
<1>1. attempt' \in [Jobs -> [AttemptNos -> Attempt]]
    BY Rows DEF FinishJob, Typed, LedgerTyped
<1>2. \A i \in Jobs, m \in AttemptNos :
        attempt'[i][m] = IF i = j /\ m = n THEN EndedAttempt(s, f) ELSE attempt[i][m]
    BY DEF FinishJob, Typed, LedgerTyped
<1>3. EndedAttempt(s, f).status # "running"
    BY DEF EndedAttempt, Terminal
<1>4. callback' \in [Jobs -> SUBSET Terminal]
    BY DEF FinishJob, EnsureCallback, Typed, LedgerTyped
<1>5. /\ status' \in [Jobs -> JobStatus]
      /\ active' \in [Jobs -> 0..MaxAttempts]
      /\ dispatch' = dispatch
    BY KernelAssumption DEF FinishJob, Typed, LedgerTyped, JobStatus, Terminal
<1> QED BY <1>1, <1>2, <1>3, <1>4, <1>5 DEF Typed, LedgerTyped

LEMMA RetryTyped ==
    ASSUME Typed, NEW j \in Jobs, NEW n \in AttemptNos, NEW f \in Phases, n < MaxAttempts,
           RetryJob(j, n, f)
    PROVE  LedgerTyped'
<1>1. n + 1 \in AttemptNos /\ n + 1 \in 0..MaxAttempts /\ n # n + 1
    BY KernelAssumption DEF AttemptNos
<1>2. attempt' \in [Jobs -> [AttemptNos -> Attempt]]
    BY <1>1, Rows DEF RetryJob, Typed, LedgerTyped, Terminal
<1>3. \A i \in Jobs, m \in AttemptNos :
        attempt'[i][m] = IF i = j /\ m = n THEN EndedAttempt("failed", f)
                         ELSE IF i = j /\ m = n + 1 THEN NewAttempt ELSE attempt[i][m]
    BY <1>1 DEF RetryJob, Typed, LedgerTyped
<1>4. EndedAttempt("failed", f).status # "running" /\ NewAttempt.status # "running"
    BY DEF EndedAttempt, NewAttempt
<1>5. dispatch' \in [Jobs -> [AttemptNos -> Dispatch]]
    BY <1>1, Rows DEF RetryJob, Typed, LedgerTyped
<1>6. /\ status' \in [Jobs -> JobStatus]
      /\ active' \in [Jobs -> 0..MaxAttempts]
      /\ callback' = callback
    BY <1>1 DEF RetryJob, Typed, LedgerTyped, JobStatus
<1>7. \A i \in Jobs, m \in AttemptNos :
        attempt'[i][m].status = "running" => attempt'[i][m].token \in Workers
    <2>1. \A i \in Jobs, m \in AttemptNos :
            attempt'[i][m].status = "running" => attempt'[i][m] = attempt[i][m]
        BY <1>3, <1>4
    <2> QED BY <2>1 DEF Typed, LedgerTyped
<1>8. dispatch' \in [Jobs -> [AttemptNos -> Dispatch]] /\ callback' \in [Jobs -> SUBSET Terminal]
    BY <1>5, <1>6 DEF Typed, LedgerTyped
<1> QED BY <1>2, <1>6, <1>7, <1>8 DEF LedgerTyped

LEMMA MarkAttemptFailedTyped ==
    ASSUME Typed, NEW j \in Jobs, NEW n \in AttemptNos, NEW f \in Phases, NEW c,
           MarkAttemptFailed(j, n, c, f)
    PROVE  LedgerTyped'
<1>1. CASE CanRetry(j, n, c) /\ RetryJob(j, n, f)
    BY <1>1, RetryTyped DEF CanRetry
<1>2. CASE FinishJob(j, n, "failed", f)
    BY <1>2, FinishTyped DEF Terminal
<1>3. CASE EndAttempt(j, n, f)
    <2>1. EndedAttempt("failed", f) \in Attempt
        BY Rows DEF Terminal
    <2>4. EndedAttempt("failed", f).status # "running"
        BY DEF EndedAttempt
    <2>2. \A i \in Jobs, m \in AttemptNos :
            attempt'[i][m] = IF i = j /\ m = n THEN EndedAttempt("failed", f) ELSE attempt[i][m]
        BY <1>3 DEF EndAttempt, Typed, LedgerTyped
    <2>3. attempt' \in [Jobs -> [AttemptNos -> Attempt]]
        BY <1>3, <2>1 DEF EndAttempt, Typed, LedgerTyped
    <2> QED BY <1>3, <2>2, <2>3, <2>4 DEF EndAttempt, Typed, LedgerTyped
<1> QED BY <1>1, <1>2, <1>3 DEF MarkAttemptFailed

LEMMA WorkerMoves ==
    ASSUME Typed, NEW w \in Workers, worker[w].pc # "idle",
           NEW pc \in {"claimed", "executing", "saving", "failing"},
           \/ worker' = [worker EXCEPT ![w].pc = pc]
           \/ \E c \in ErrorCodes : worker' = [worker EXCEPT ![w].pc = pc, ![w].code = c]
    PROVE  WorkersTyped'
BY DEF Typed, WorkersTyped, Worker

LEMMA WorkerStops ==
    ASSUME Typed, NEW w \in Workers, worker' = [worker EXCEPT ![w] = IdleWorker]
    PROVE  WorkersTyped'
BY Rows DEF Typed, WorkersTyped, IdleWorker

LEMMA PublisherMoves ==
    ASSUME Typed, NEW p \in Publishers, publisher[p].pc # "idle",
           NEW pc \in {"accepted", "rejected"},
           publisher' = [publisher EXCEPT ![p].pc = pc]
    PROVE  PublishersTyped'
BY DEF Typed, PublishersTyped, Publisher

LEMMA PublisherStops ==
    ASSUME Typed, NEW p \in Publishers, publisher' = [publisher EXCEPT ![p] = IdlePublisher]
    PROVE  PublishersTyped'
BY Rows DEF Typed, PublishersTyped, IdlePublisher

LEMMA DispatchRowTyped ==
    ASSUME Typed, NEW j \in Jobs, NEW n \in AttemptNos, NEW d \in Dispatch,
           dispatch' = [dispatch EXCEPT ![j][n] = d], UNCHANGED jobVars
    PROVE  LedgerTyped'
BY DEF Typed, LedgerTyped, jobVars

LEMMA AttemptRowTyped ==
    ASSUME Typed, NEW j \in Jobs, NEW n \in AttemptNos, NEW a \in Attempt,
           a.status = "running" => a.token \in Workers,
           attempt' = [attempt EXCEPT ![j][n] = a],
           status' \in [Jobs -> JobStatus], active' \in [Jobs -> 0..MaxAttempts],
           dispatch' \in [Jobs -> [AttemptNos -> Dispatch]], UNCHANGED callback
    PROVE  LedgerTyped'
BY DEF Typed, LedgerTyped

LEMMA DispatchUpdates ==
    ASSUME NEW d \in Dispatch
    PROVE  /\ \A p \in Publishers : Leased(d, p) \in Dispatch
           /\ [d EXCEPT !.due = TRUE] \in Dispatch
           /\ Published(d) \in Dispatch
           /\ PublishFailed(d) \in Dispatch
           /\ Settled(d) \in Dispatch
<1>1. /\ \A p \in Publishers : Leased(d, p) \in Dispatch
      /\ [d EXCEPT !.due = TRUE] \in Dispatch
    BY DEF Leased, Dispatch
<1>2. OneMoreTry(d) \in Nat
    BY KernelAssumption DEF OneMoreTry, Dispatch
<1>3. Published(d) \in Dispatch /\ PublishFailed(d) \in Dispatch
    BY <1>2 DEF Published, PublishFailed, Dispatch
<1>4. (IF d.tries = 0 THEN 1 ELSE d.tries) \in Nat
    BY DEF Dispatch
<1>5. Settled(d) \in Dispatch
    BY <1>4 DEF Settled, Dispatch
<1> QED BY <1>1, <1>3, <1>5

LEMMA AttemptUpdates ==
    ASSUME NEW a \in Attempt
    PROVE  /\ \A w \in Workers : Running(a, w) \in Attempt /\ Running(a, w).token = w
           /\ \A l \in {"live", "expired"} :
                 /\ WithLease(a, l) \in Attempt
                 /\ WithLease(a, l).token = a.token
                 /\ WithLease(a, l).status = a.status
BY DEF Running, WithLease, Attempt

LEMMA RowsOfProcesses ==
    ASSUME NEW j \in Jobs, NEW n \in AttemptNos
    PROVE  /\ [pc |-> "claiming", job |-> j, no |-> n, code |-> "none"] \in Worker
           /\ [pc |-> "leased", job |-> j, no |-> n] \in Publisher
BY KernelAssumption DEF Worker, Publisher, AttemptNos

LEMMA TypedStep == Typed /\ [Next]_vars => Typed'
<1> SUFFICES ASSUME Typed, [Next]_vars PROVE Typed'
    OBVIOUS
<1>1. ASSUME NEW j \in Jobs, Submit(j) PROVE Typed'
    <2>1. 1 \in AttemptNos /\ 1 \in 0..MaxAttempts
        BY KernelAssumption DEF AttemptNos
    <2>2. NewAttempt.status # "running"
        BY DEF NewAttempt
    <2>3. LedgerTyped'
        BY <1>1, <2>1, <2>2, AttemptRowTyped, Rows DEF Submit, Typed, LedgerTyped, JobStatus
    <2>4. WorkersTyped'
        BY <1>1 DEF Submit, Typed, WorkersTyped
    <2>5. PublishersTyped'
        BY <1>1 DEF Submit, Typed, PublishersTyped
    <2>6. QueuesTyped'
        BY <1>1 DEF Submit, Typed, QueuesTyped
    <2> QED BY <2>3, <2>4, <2>5, <2>6 DEF Typed
<1>2. ASSUME NEW p \in Publishers, NEW j \in Jobs, NEW n \in AttemptNos, LeaseDispatch(p, j, n) PROVE Typed'
    <2>1. Leased(dispatch[j][n], p) \in Dispatch
        BY DispatchUpdates DEF Typed, LedgerTyped
    <2>3. LedgerTyped'
        BY <1>2, <2>1, DispatchRowTyped DEF LeaseDispatch
    <2>4. WorkersTyped'
        BY <1>2 DEF LeaseDispatch, Typed, WorkersTyped
    <2>5. PublishersTyped'
        BY <1>2, RowsOfProcesses, KernelAssumption DEF LeaseDispatch, PublishersTyped, Typed
    <2>6. QueuesTyped'
        BY <1>2 DEF LeaseDispatch, Typed, QueuesTyped
    <2> QED BY <2>3, <2>4, <2>5, <2>6 DEF Typed
<1>3. ASSUME NEW p \in Publishers, BrokerAccepts(p) PROVE Typed'
    <2>0. publisher[p].job \in Jobs /\ publisher[p].no \in AttemptNos /\ publisher[p].pc # "idle"
        BY <1>3 DEF BrokerAccepts, Typed, PublishersTyped
    <2>3. LedgerTyped'
        BY <1>3 DEF BrokerAccepts, Typed, LedgerTyped, jobVars, ledgerVars
    <2>4. WorkersTyped'
        BY <1>3 DEF BrokerAccepts, Typed, WorkersTyped
    <2>5. PublishersTyped'
        BY <1>3, <2>0, PublisherMoves, KernelAssumption DEF BrokerAccepts, Typed
    <2>6. QueuesTyped'
        BY <1>3, <2>0, KernelAssumption DEF BrokerAccepts, QueuesTyped, Typed
    <2> QED BY <2>3, <2>4, <2>5, <2>6 DEF Typed
<1>4. ASSUME NEW p \in Publishers, BrokerRejects(p) PROVE Typed'
    <2>0. publisher[p].job \in Jobs /\ publisher[p].no \in AttemptNos /\ publisher[p].pc # "idle"
        BY <1>4 DEF BrokerRejects, Typed, PublishersTyped
    <2>3. LedgerTyped'
        BY <1>4 DEF BrokerRejects, Typed, LedgerTyped, jobVars, ledgerVars
    <2>4. WorkersTyped'
        BY <1>4 DEF BrokerRejects, Typed, WorkersTyped
    <2>5. PublishersTyped'
        BY <1>4, <2>0, PublisherMoves, KernelAssumption DEF BrokerRejects, Typed
    <2>6. QueuesTyped'
        BY <1>4, <2>0, KernelAssumption DEF BrokerRejects, QueuesTyped, Typed
    <2> QED BY <2>3, <2>4, <2>5, <2>6 DEF Typed
<1>5. ASSUME NEW p \in Publishers, MarkDispatch(p) PROVE Typed'
    <2>0. publisher[p].job \in Jobs /\ publisher[p].no \in AttemptNos /\ publisher[p].pc # "idle"
        BY <1>5 DEF MarkDispatch, Typed, PublishersTyped
    <2>1. /\ Published(dispatch[publisher[p].job][publisher[p].no]) \in Dispatch
          /\ PublishFailed(dispatch[publisher[p].job][publisher[p].no]) \in Dispatch
        BY <2>0, DispatchUpdates DEF Typed, LedgerTyped
    <2>3. LedgerTyped'
        BY <1>5, <2>0, <2>1, DispatchRowTyped DEF MarkDispatch, Typed, LedgerTyped, jobVars
    <2>4. WorkersTyped'
        BY <1>5 DEF MarkDispatch, Typed, WorkersTyped
    <2>5. PublishersTyped'
        BY <1>5, <2>0, PublisherStops, KernelAssumption DEF MarkDispatch, Typed
    <2>6. QueuesTyped'
        BY <1>5 DEF MarkDispatch, Typed, QueuesTyped
    <2> QED BY <2>3, <2>4, <2>5, <2>6 DEF Typed
<1>6. ASSUME NEW p \in Publishers, PublisherCrash(p) PROVE Typed'
    <2>3. LedgerTyped'
        BY <1>6 DEF PublisherCrash, Typed, LedgerTyped, jobVars, ledgerVars
    <2>4. WorkersTyped'
        BY <1>6 DEF PublisherCrash, Typed, WorkersTyped
    <2>5. PublishersTyped'
        BY <1>6, PublisherStops, KernelAssumption DEF PublisherCrash, Typed
    <2>6. QueuesTyped'
        BY <1>6, KernelAssumption DEF PublisherCrash, Fault, QueuesTyped, Typed
    <2> QED BY <2>3, <2>4, <2>5, <2>6 DEF Typed
<1>7. ASSUME NEW j \in Jobs, NEW n \in AttemptNos, DispatchDue(j, n) PROVE Typed'
    <2>1. [dispatch[j][n] EXCEPT !.due = TRUE] \in Dispatch
        BY DispatchUpdates DEF Typed, LedgerTyped
    <2>3. LedgerTyped'
        BY <1>7, <2>1, DispatchRowTyped DEF DispatchDue
    <2>4. WorkersTyped'
        BY <1>7 DEF DispatchDue, Typed, WorkersTyped
    <2>5. PublishersTyped'
        BY <1>7 DEF DispatchDue, Typed, PublishersTyped
    <2>6. QueuesTyped'
        BY <1>7 DEF DispatchDue, Typed, QueuesTyped
    <2> QED BY <2>3, <2>4, <2>5, <2>6 DEF Typed
<1>8. ASSUME NEW w \in Workers, NEW j \in Jobs, NEW n \in AttemptNos, Receive(w, j, n) PROVE Typed'
    <2>3. LedgerTyped'
        BY <1>8 DEF Receive, Typed, LedgerTyped, jobVars, ledgerVars
    <2>4. WorkersTyped'
        BY <1>8, RowsOfProcesses, KernelAssumption DEF Receive, WorkersTyped, Typed
    <2>5. PublishersTyped'
        BY <1>8 DEF Receive, Typed, PublishersTyped
    <2>6. QueuesTyped'
        BY <1>8, KernelAssumption DEF Receive, QueuesTyped, Typed
    <2> QED BY <2>3, <2>4, <2>5, <2>6 DEF Typed
<1>9. ASSUME NEW w \in Workers, Redeliver(w) PROVE Typed'
    <2>0. worker[w].job \in Jobs /\ worker[w].no \in AttemptNos /\ worker[w].pc # "idle"
        BY <1>9 DEF Redeliver, Typed, WorkersTyped
    <2>3. LedgerTyped'
        BY <1>9 DEF Redeliver, Typed, LedgerTyped, jobVars, ledgerVars
    <2>4. WorkersTyped'
        BY <1>9 DEF Redeliver, Typed, WorkersTyped
    <2>5. PublishersTyped'
        BY <1>9 DEF Redeliver, Typed, PublishersTyped
    <2>6. QueuesTyped'
        BY <1>9, <2>0, KernelAssumption DEF Redeliver, Fault, QueuesTyped, Typed
    <2> QED BY <2>3, <2>4, <2>5, <2>6 DEF Typed
<1>10. ASSUME NEW w \in Workers, Claim(w) PROVE Typed'
    <2>0. worker[w].job \in Jobs /\ worker[w].no \in AttemptNos /\ worker[w].pc # "idle"
        BY <1>10 DEF Claim, Typed, WorkersTyped
    <2> DEFINE a == Running(attempt[worker[w].job][worker[w].no], w)
    <2>1. a \in Attempt /\ a.token \in Workers
        <3>1. attempt[worker[w].job][worker[w].no] \in Attempt
            BY <2>0 DEF Typed, LedgerTyped
        <3> QED BY <3>1, AttemptUpdates
    <2>2. attempt' = [attempt EXCEPT ![worker[w].job][worker[w].no] = a]
        BY <1>10 DEF Claim
    <2>3. LedgerTyped'
        <3>1. status' \in [Jobs -> JobStatus]
            BY <1>10 DEF Claim, Typed, LedgerTyped, JobStatus
        <3>2. /\ active' \in [Jobs -> 0..MaxAttempts]
              /\ dispatch' \in [Jobs -> [AttemptNos -> Dispatch]]
              /\ UNCHANGED callback
            BY <1>10 DEF Claim, Typed, LedgerTyped
        <3> HIDE DEF a
        <3> QED BY <2>0, <2>1, <2>2, <3>1, <3>2, AttemptRowTyped
    <2>4. WorkersTyped'
        BY <1>10, <2>0, WorkerMoves, KernelAssumption DEF Claim, Typed
    <2>5. PublishersTyped'
        BY <1>10 DEF Claim, Typed, PublishersTyped
    <2>6. QueuesTyped'
        BY <1>10 DEF Claim, Typed, QueuesTyped
    <2> QED BY <2>3, <2>4, <2>5, <2>6 DEF Typed
<1>11. ASSUME NEW w \in Workers, ClaimMiss(w) PROVE Typed'
    <2>3. LedgerTyped'
        BY <1>11 DEF ClaimMiss, Typed, LedgerTyped, jobVars, ledgerVars
    <2>4. WorkersTyped'
        BY <1>11, WorkerStops, KernelAssumption DEF ClaimMiss, Typed
    <2>5. PublishersTyped'
        BY <1>11 DEF ClaimMiss, Typed, PublishersTyped
    <2>6. QueuesTyped'
        BY <1>11, KernelAssumption DEF ClaimMiss, Fault, QueuesTyped, Typed
    <2> QED BY <2>3, <2>4, <2>5, <2>6 DEF Typed
<1>12. ASSUME NEW w \in Workers, Heartbeat(w) PROVE Typed'
    <2>0. worker[w].job \in Jobs /\ worker[w].no \in AttemptNos /\ worker[w].pc # "idle"
        BY <1>12 DEF Heartbeat, Typed, WorkersTyped
    <2> DEFINE a == WithLease(attempt[worker[w].job][worker[w].no], "live")
    <2>1. a \in Attempt /\ (a.status = "running" => a.token \in Workers)
        <3>1. attempt[worker[w].job][worker[w].no] \in Attempt
            BY <2>0 DEF Typed, LedgerTyped
        <3>2. attempt[worker[w].job][worker[w].no].status = "running" =>
                attempt[worker[w].job][worker[w].no].token \in Workers
            BY <2>0 DEF Typed, LedgerTyped
        <3> QED BY <3>1, <3>2, AttemptUpdates
    <2>2. \/ attempt' = [attempt EXCEPT ![worker[w].job][worker[w].no] = a]
          \/ UNCHANGED attempt
        BY <1>12 DEF Heartbeat, RenewLease
    <2>3. LedgerTyped'
        <3> HIDE DEF a
        <3> QED BY <1>12, <2>0, <2>1, <2>2, AttemptRowTyped DEF Heartbeat, Typed, LedgerTyped
    <2>4. WorkersTyped'
        BY <1>12, <2>0, WorkerMoves, KernelAssumption DEF Heartbeat, Raise, ErrorCodes, WorkersTyped, Typed
    <2>5. PublishersTyped'
        BY <1>12 DEF Heartbeat, Typed, PublishersTyped
    <2>6. QueuesTyped'
        BY <1>12, <2>0, KernelAssumption DEF Heartbeat, Misses, Fault, QueuesTyped, Typed
    <2> QED BY <2>3, <2>4, <2>5, <2>6 DEF Typed
<1>13. ASSUME NEW w \in Workers, ExecutorReturns(w) PROVE Typed'
    <2>0. worker[w].job \in Jobs /\ worker[w].no \in AttemptNos /\ worker[w].pc # "idle"
        BY <1>13 DEF ExecutorReturns, Typed, WorkersTyped
    <2>3. LedgerTyped'
        BY <1>13 DEF ExecutorReturns, Typed, LedgerTyped, jobVars, ledgerVars
    <2>4. WorkersTyped'
        BY <1>13, <2>0, WorkerMoves, KernelAssumption DEF ExecutorReturns, Raise, ErrorCodes, Typed
    <2>5. PublishersTyped'
        BY <1>13 DEF ExecutorReturns, Typed, PublishersTyped
    <2>6. QueuesTyped'
        BY <1>13, <2>0, KernelAssumption DEF ExecutorReturns, Misses, Fault, QueuesTyped, Typed
    <2> QED BY <2>3, <2>4, <2>5, <2>6 DEF Typed
<1>14. ASSUME NEW w \in Workers, ExecutorRaises(w) PROVE Typed'
    <2>0. worker[w].job \in Jobs /\ worker[w].no \in AttemptNos /\ worker[w].pc # "idle"
        BY <1>14 DEF ExecutorRaises, Typed, WorkersTyped
    <2>3. LedgerTyped'
        BY <1>14 DEF ExecutorRaises, Typed, LedgerTyped, jobVars, ledgerVars
    <2>4. WorkersTyped'
        BY <1>14, <2>0, WorkerMoves, KernelAssumption DEF ExecutorRaises, Raise, ErrorCodes, Typed
    <2>5. PublishersTyped'
        BY <1>14 DEF ExecutorRaises, Typed, PublishersTyped
    <2>6. QueuesTyped'
        BY <1>14 DEF ExecutorRaises, Typed, QueuesTyped
    <2> QED BY <2>3, <2>4, <2>5, <2>6 DEF Typed
<1>15. ASSUME NEW w \in Workers, MarkSucceeded(w) PROVE Typed'
    <2>0. worker[w].job \in Jobs /\ worker[w].no \in AttemptNos /\ worker[w].pc # "idle"
        BY <1>15 DEF MarkSucceeded, Typed, WorkersTyped
    <2>3. LedgerTyped'
        BY <1>15, <2>0, FinishTyped DEF MarkSucceeded, Terminal, Phases, ledgerVars, LedgerTyped, Typed
    <2>4. WorkersTyped'
        BY <1>15, <2>0, WorkerMoves, WorkerStops, KernelAssumption DEF MarkSucceeded, Raise, ErrorCodes, Typed
    <2>5. PublishersTyped'
        BY <1>15 DEF MarkSucceeded, Typed, PublishersTyped
    <2>6. QueuesTyped'
        BY <1>15, <2>0, KernelAssumption DEF MarkSucceeded, Misses, Fault, QueuesTyped, Typed
    <2> QED BY <2>3, <2>4, <2>5, <2>6 DEF Typed
<1>16. ASSUME NEW w \in Workers, SideEffectRaises(w) PROVE Typed'
    <2>0. worker[w].job \in Jobs /\ worker[w].no \in AttemptNos /\ worker[w].pc # "idle"
        BY <1>16 DEF SideEffectRaises, Typed, WorkersTyped
    <2>3. LedgerTyped'
        BY <1>16, <2>0, FinishTyped DEF SideEffectRaises, Terminal, Phases, ledgerVars, LedgerTyped, Typed
    <2>4. WorkersTyped'
        BY <1>16, <2>0, WorkerMoves, KernelAssumption DEF SideEffectRaises, Raise, ErrorCodes, Typed
    <2>5. PublishersTyped'
        BY <1>16 DEF SideEffectRaises, Typed, PublishersTyped
    <2>6. QueuesTyped'
        BY <1>16, <2>0, KernelAssumption DEF SideEffectRaises, Misses, Fault, QueuesTyped, Typed
    <2> QED BY <2>3, <2>4, <2>5, <2>6 DEF Typed
<1>17. ASSUME NEW w \in Workers, RecordFailure(w) PROVE Typed'
    <2>0. worker[w].job \in Jobs /\ worker[w].no \in AttemptNos /\ worker[w].pc # "idle"
        BY <1>17 DEF RecordFailure, Typed, WorkersTyped
    <2>3. LedgerTyped'
        BY <1>17, <2>0, MarkAttemptFailedTyped DEF RecordFailure, Phases, ledgerVars, LedgerTyped, Typed
    <2>4. WorkersTyped'
        BY <1>17, <2>0, WorkerStops, KernelAssumption DEF RecordFailure, Typed
    <2>5. PublishersTyped'
        BY <1>17 DEF RecordFailure, Typed, PublishersTyped
    <2>6. QueuesTyped'
        BY <1>17 DEF RecordFailure, Typed, QueuesTyped
    <2> QED BY <2>3, <2>4, <2>5, <2>6 DEF Typed
<1>18. ASSUME NEW w \in Workers, WorkerCrash(w) PROVE Typed'
    <2>0. worker[w].job \in Jobs /\ worker[w].no \in AttemptNos /\ worker[w].pc # "idle"
        BY <1>18 DEF WorkerCrash, Typed, WorkersTyped
    <2>3. LedgerTyped'
        BY <1>18 DEF WorkerCrash, Typed, LedgerTyped, jobVars, ledgerVars
    <2>4. WorkersTyped'
        BY <1>18, <2>0, WorkerStops, KernelAssumption DEF WorkerCrash, Typed
    <2>5. PublishersTyped'
        BY <1>18 DEF WorkerCrash, Typed, PublishersTyped
    <2>6. QueuesTyped'
        BY <1>18, <2>0, KernelAssumption DEF WorkerCrash, Fault, QueuesTyped, Typed
    <2> QED BY <2>3, <2>4, <2>5, <2>6 DEF Typed
<1>19. ASSUME NEW j \in Jobs, NEW n \in AttemptNos, LeaseExpires(j, n) PROVE Typed'
    <2> DEFINE a == WithLease(attempt[j][n], "expired")
    <2>1. a \in Attempt /\ (a.status = "running" => a.token \in Workers)
        BY AttemptUpdates DEF Typed, LedgerTyped
    <2>2. attempt' = [attempt EXCEPT ![j][n] = a]
        BY <1>19 DEF LeaseExpires
    <2>3. LedgerTyped'
        <3> HIDE DEF a
        <3> QED BY <1>19, <2>1, <2>2, AttemptRowTyped DEF LeaseExpires, Typed, LedgerTyped
    <2>4. WorkersTyped'
        BY <1>19 DEF LeaseExpires, Typed, WorkersTyped
    <2>5. PublishersTyped'
        BY <1>19 DEF LeaseExpires, Typed, PublishersTyped
    <2>6. QueuesTyped'
        BY <1>19 DEF LeaseExpires, Typed, QueuesTyped
    <2> QED BY <2>3, <2>4, <2>5, <2>6 DEF Typed
<1>20. ASSUME NEW j \in Jobs, NEW n \in AttemptNos, FailDeadLettered(j, n) PROVE Typed'
    <2>3. LedgerTyped'
        BY <1>20, FinishTyped DEF FailDeadLettered, Terminal, Phases, Typed
    <2>4. WorkersTyped'
        BY <1>20 DEF FailDeadLettered, Typed, WorkersTyped
    <2>5. PublishersTyped'
        BY <1>20 DEF FailDeadLettered, Typed, PublishersTyped
    <2>6. QueuesTyped'
        BY <1>20 DEF FailDeadLettered, Typed, QueuesTyped
    <2> QED BY <2>3, <2>4, <2>5, <2>6 DEF Typed
<1>21. ASSUME NEW j \in Jobs, NEW n \in AttemptNos, ReconcileDispatch(j, n) PROVE Typed'
    <2>1. Settled(dispatch[j][n]) \in Dispatch
        BY DispatchUpdates DEF Typed, LedgerTyped
    <2>3. LedgerTyped'
        BY <1>21, <2>1, DispatchRowTyped DEF ReconcileDispatch
    <2>4. WorkersTyped'
        BY <1>21 DEF ReconcileDispatch, Typed, WorkersTyped
    <2>5. PublishersTyped'
        BY <1>21 DEF ReconcileDispatch, Typed, PublishersTyped
    <2>6. QueuesTyped'
        BY <1>21 DEF ReconcileDispatch, Typed, QueuesTyped
    <2> QED BY <2>3, <2>4, <2>5, <2>6 DEF Typed
<1>22. ASSUME NEW j \in Jobs, NEW n \in AttemptNos, ReplayDispatch(j, n) PROVE Typed'
    <2>1. [status |-> "retrying", token |-> NoHolder, due |-> TRUE, tries |-> 0] \in Dispatch
        BY KernelAssumption DEF Dispatch
    <2>3. LedgerTyped'
        BY <1>22, <2>1, DispatchRowTyped DEF ReplayDispatch
    <2>4. WorkersTyped'
        BY <1>22 DEF ReplayDispatch, Typed, WorkersTyped
    <2>5. PublishersTyped'
        BY <1>22 DEF ReplayDispatch, Typed, PublishersTyped
    <2>6. QueuesTyped'
        BY <1>22, KernelAssumption DEF ReplayDispatch, Fault, QueuesTyped, Typed
    <2> QED BY <2>3, <2>4, <2>5, <2>6 DEF Typed
<1>23. ASSUME RecoveryScan PROVE Typed'
    <2>3. LedgerTyped'
        BY <1>23 DEF RecoveryScan, Typed, LedgerTyped, jobVars, ledgerVars
    <2>4. WorkersTyped'
        BY <1>23 DEF RecoveryScan, Typed, WorkersTyped
    <2>5. PublishersTyped'
        BY <1>23 DEF RecoveryScan, Typed, PublishersTyped
    <2>6. QueuesTyped'
        BY <1>23, KernelAssumption DEF RecoveryScan, StaleNow, QueuesTyped, Typed
    <2> QED BY <2>3, <2>4, <2>5, <2>6 DEF Typed
<1>24. ASSUME NEW s \in stale, RecoverStale(s) PROVE Typed'
    <2>0. s.job \in Jobs /\ s.no \in AttemptNos
        BY <1>24 DEF RecoverStale, Typed, QueuesTyped, StaleRow
    <2>3. LedgerTyped'
        BY <1>24, <2>0, MarkAttemptFailedTyped DEF RecoverStale, Phases, ledgerVars, LedgerTyped, Typed
    <2>4. WorkersTyped'
        BY <1>24 DEF RecoverStale, Typed, WorkersTyped
    <2>5. PublishersTyped'
        BY <1>24 DEF RecoverStale, Typed, PublishersTyped
    <2>6. QueuesTyped'
        BY <1>24, <2>0, KernelAssumption DEF RecoverStale, QueuesTyped, Typed
    <2> QED BY <2>3, <2>4, <2>5, <2>6 DEF Typed
<1>25. ASSUME NEW s \in stale, RecoverySkips(s) PROVE Typed'
    <2>3. LedgerTyped'
        BY <1>25 DEF RecoverySkips, Typed, LedgerTyped, jobVars, ledgerVars
    <2>4. WorkersTyped'
        BY <1>25 DEF RecoverySkips, Typed, WorkersTyped
    <2>5. PublishersTyped'
        BY <1>25 DEF RecoverySkips, Typed, PublishersTyped
    <2>6. QueuesTyped'
        BY <1>25, KernelAssumption DEF RecoverySkips, Fault, QueuesTyped, Typed
    <2> QED BY <2>3, <2>4, <2>5, <2>6 DEF Typed
<1>26. CASE UNCHANGED vars
    BY <1>26 DEF vars, Typed, LedgerTyped, WorkersTyped, PublishersTyped, QueuesTyped
<1> QED
    BY <1>1, <1>2, <1>3, <1>4, <1>5, <1>6, <1>7, <1>8, <1>9, <1>10, <1>11, <1>12, <1>13, <1>14, <1>15, <1>16, <1>17, <1>18, <1>19, <1>20, <1>21, <1>22, <1>23, <1>24, <1>25, <1>26
       DEF Next, PublisherStep, WorkerStep

\* Every reachable state of the kernel is well typed.  What this says beyond
\* types: whoever retries, worker or recovery, no Job has more attempts than
\* policy_max_attempts.  It bounds no number of publishes.
THEOREM TypeCorrect == Spec => []TypeOK
<1>1. Spec => []Typed
    BY InitTyped, TypedStep, PTL DEF Spec
<1> QED BY <1>1, TypedImpliesTypeOK, PTL

-----------------------------------------------------------------------------
(* What a step does to a Job and its attempts.  Everything else the kernel  *)
(* does (dispatching, receiving, scanning) leaves them alone.               *)

LedgerKept == UNCHANGED <<status, active, callback>> /\
    \A j \in Jobs, n \in AttemptNos :
        attempt'[j][n].status = attempt[j][n].status

Starts(j, n) ==
    /\ Claimable(j, n)
    /\ status' = [status EXCEPT ![j] = "running"]
    /\ \A i \in Jobs, m \in AttemptNos :
          attempt'[i][m].status = IF i = j /\ m = n THEN "running" ELSE attempt[i][m].status
    /\ UNCHANGED <<active, callback>>

\* The attempt n that ends is the active one: waiting or running.
Ends(j, n) ==
    /\ active[j] = n
    /\ attempt[j][n].status \in {"pending", "running"}

Finishes(j, n, s) ==
    /\ Ends(j, n)
    /\ s = "succeeded" => attempt[j][n].status = "running"
    /\ \E f \in Phases : FinishJob(j, n, s, f)

Retries(j, n) ==
    /\ Ends(j, n) /\ attempt[j][n].status = "running"
    /\ n < MaxAttempts
    /\ \E f \in Phases : RetryJob(j, n, f)

LedgerStep ==
    \/ LedgerKept
    \/ \E j \in Jobs : Submit(j)
    \/ \E j \in Jobs, n \in AttemptNos :
          \/ Starts(j, n)
          \/ Retries(j, n)
          \/ \E s \in Terminal : Finishes(j, n, s)

LEMMA MarkAttemptFailedStep ==
    ASSUME ActiveAttemptAgrees,
           NEW j \in Jobs, NEW n \in AttemptNos, NEW t, NEW c, NEW f \in Phases,
           MayMarkFailed(j, n, t), MarkAttemptFailed(j, n, c, f)
    PROVE  LedgerStep
<1>1. Ends(j, n) /\ attempt[j][n].status = "running"
    BY DEF MayMarkFailed, Ends
<1>2. CASE CanRetry(j, n, c) /\ RetryJob(j, n, f)
    BY <1>1, <1>2 DEF LedgerStep, Retries, CanRetry
<1>3. CASE ~CanRetry(j, n, c) /\ FinishJob(j, n, "failed", f)
    BY <1>1, <1>3 DEF LedgerStep, Finishes, Terminal
<1>4. status[j] # "failed"
    BY <1>1 DEF Ends, ActiveAttemptAgrees
<1> QED BY <1>2, <1>3, <1>4 DEF MarkAttemptFailed

LEMMA KernelStep == Typed /\ ActiveAttemptAgrees /\ [Next]_vars => LedgerStep
<1> SUFFICES ASSUME Typed, ActiveAttemptAgrees, [Next]_vars PROVE LedgerStep
    OBVIOUS
<1>1. ASSUME UNCHANGED <<status, active, attempt, callback>> PROVE LedgerStep
    BY <1>1 DEF LedgerStep, LedgerKept
<1>2. ASSUME NEW j \in Jobs, Submit(j) PROVE LedgerStep
    BY <1>2 DEF LedgerStep
<1>3. ASSUME NEW p \in Publishers, PublisherStep(p) \/ PublisherCrash(p) PROVE LedgerStep
    BY <1>1, <1>3 DEF PublisherStep, BrokerAccepts, BrokerRejects, MarkDispatch,
       PublisherCrash, ledgerVars, jobVars
<1>4. ASSUME NEW w \in Workers, WorkerStep(w) PROVE LedgerStep
    <2> DEFINE j == worker[w].job
               n == worker[w].no
    <2>0. worker[w].pc # "idle" /\ j \in Jobs /\ n \in AttemptNos
        BY <1>4 DEF WorkerStep, Claim, ClaimMiss, Heartbeat, ExecutorReturns, ExecutorRaises,
           MarkSucceeded, SideEffectRaises, RecordFailure, Typed, WorkersTyped
    <2>1. CASE Claim(w)
        <3>1. attempt' = [attempt EXCEPT ![j][n] = Running(attempt[j][n], w)]
            BY <2>1 DEF Claim
        <3>2. attempt[j][n] \in Attempt
            BY <2>0 DEF Typed, LedgerTyped
        <3>3. Running(attempt[j][n], w).status = "running"
            BY <3>2 DEF Running, Attempt
        <3>4. \A i \in Jobs, m \in AttemptNos :
                attempt'[i][m].status = IF i = j /\ m = n THEN "running" ELSE attempt[i][m].status
            <4> HIDE DEF j, n
            <4> QED BY <2>0, <3>1, <3>3 DEF Typed, LedgerTyped
        <3>5. Starts(j, n)
            BY <2>1, <3>4 DEF Claim, Starts
        <3> QED BY <2>0, <3>5 DEF LedgerStep
    <2>2. CASE ClaimMiss(w) \/ ExecutorReturns(w) \/ ExecutorRaises(w)
        BY <1>1, <2>2 DEF ClaimMiss, ExecutorReturns, ExecutorRaises, ledgerVars
    <2>3. CASE Heartbeat(w)
        <3>1. CASE UNCHANGED attempt
            BY <1>1, <2>3, <3>1 DEF Heartbeat
        <3>2. CASE RenewLease(w)
            <4>1. attempt' = [attempt EXCEPT ![j][n] = WithLease(attempt[j][n], "live")]
                BY <3>2 DEF RenewLease
            <4>2. attempt[j][n] \in Attempt
                BY <2>0 DEF Typed, LedgerTyped
            <4>3. WithLease(attempt[j][n], "live").status = attempt[j][n].status
                BY <4>2, AttemptUpdates
            <4>4. \A i \in Jobs, m \in AttemptNos : attempt'[i][m].status = attempt[i][m].status
                <5> HIDE DEF j, n
                <5> QED BY <2>0, <4>1, <4>3 DEF Typed, LedgerTyped
            <4> QED BY <2>3, <4>4 DEF Heartbeat, LedgerStep, LedgerKept
        <3> QED BY <2>3, <3>1, <3>2 DEF Heartbeat
    <2>4. CASE MarkSucceeded(w)
        <3>1. CASE HoldsAttempt(w) /\ FinishJob(j, n, "succeeded", "none")
            BY <2>0, <3>1 DEF HoldsAttempt, LedgerStep, Finishes, Ends, Terminal, Phases
        <3> QED BY <1>1, <2>4, <3>1 DEF MarkSucceeded, ledgerVars
    <2>5. CASE SideEffectRaises(w)
        <3>1. CASE HoldsAttempt(w) /\ FinishJob(j, n, "failed", "none")
            BY <2>0, <3>1 DEF HoldsAttempt, LedgerStep, Finishes, Ends, Terminal, Phases
        <3> QED BY <1>1, <2>5, <3>1 DEF SideEffectRaises, ledgerVars
    <2>6. CASE RecordFailure(w)
        <3>1. CASE MayMarkFailed(j, n, w) /\ MarkAttemptFailed(j, n, worker[w].code, "execute")
            <4> HIDE DEF j, n
            <4> QED BY <2>0, <3>1, MarkAttemptFailedStep DEF Phases
        <3> QED BY <1>1, <2>6, <3>1 DEF RecordFailure, ledgerVars
    <2> QED BY <1>4, <2>1, <2>2, <2>3, <2>4, <2>5, <2>6 DEF WorkerStep
<1>5. ASSUME NEW w \in Workers, Redeliver(w) \/ WorkerCrash(w) PROVE LedgerStep
    BY <1>1, <1>5 DEF Redeliver, WorkerCrash, ledgerVars
<1>6. ASSUME NEW j \in Jobs, NEW n \in AttemptNos,
             \/ \E p \in Publishers : LeaseDispatch(p, j, n)
             \/ \E w \in Workers : Receive(w, j, n)
             \/ DispatchDue(j, n)
             \/ ReconcileDispatch(j, n)
             \/ ReplayDispatch(j, n)
      PROVE  LedgerStep
    BY <1>1, <1>6 DEF LeaseDispatch, Receive, DispatchDue, ReconcileDispatch, ReplayDispatch,
       ledgerVars, jobVars
<1>7. ASSUME NEW j \in Jobs, NEW n \in AttemptNos, LeaseExpires(j, n) PROVE LedgerStep
    <2>1. attempt[j][n] \in Attempt
        BY DEF Typed, LedgerTyped
    <2>2. WithLease(attempt[j][n], "expired").status = attempt[j][n].status
        BY <2>1, AttemptUpdates
    <2>3. \A i \in Jobs, m \in AttemptNos : attempt'[i][m].status = attempt[i][m].status
        BY <1>7, <2>2 DEF LeaseExpires, Typed, LedgerTyped
    <2> QED BY <1>7, <2>3 DEF LeaseExpires, LedgerStep, LedgerKept
<1>8. ASSUME NEW j \in Jobs, NEW n \in AttemptNos, FailDeadLettered(j, n) PROVE LedgerStep
    BY <1>8 DEF FailDeadLettered, DeadLettered, LedgerStep, Finishes, Ends, Terminal, Phases
<1>9. ASSUME RecoveryScan \/ \E s \in stale : RecoverySkips(s) PROVE LedgerStep
    BY <1>1, <1>9 DEF RecoveryScan, RecoverySkips, ledgerVars
<1>10. ASSUME NEW s \in stale, RecoverStale(s) PROVE LedgerStep
    <2>1. s.job \in Jobs /\ s.no \in AttemptNos
        BY <1>10 DEF Typed, QueuesTyped, StaleRow
    <2>2. CASE MayMarkFailed(s.job, s.no, s.token)
               /\ MarkAttemptFailed(s.job, s.no, "JOB_TIMEOUT", "lease")
        BY <2>1, <2>2, MarkAttemptFailedStep DEF Phases
    <2> QED BY <1>1, <1>10, <2>2 DEF RecoverStale, ledgerVars
<1>11. CASE UNCHANGED vars
    BY <1>1, <1>11 DEF vars
<1> QED BY <1>2, <1>3, <1>4, <1>5, <1>6, <1>7, <1>8, <1>9, <1>10, <1>11 DEF Next

-----------------------------------------------------------------------------
(* The Job, its active attempt and its chain of attempts agree.             *)

\* The callback rows of a Job are those of its terminal status, and a Job that
\* was not submitted has no attempts.
CallbackFollows ==
    \A j \in Jobs :
        /\ status[j] \in Terminal => callback[j] = {status[j]}
        /\ status[j] \notin Terminal => callback[j] = {}
        /\ status[j] = "absent" => \A n \in AttemptNos : attempt[j][n].status = "none"

ChainInv == ActiveAttemptAgrees /\ AttemptChain /\ CallbackFollows

LEMMA Numbers ==
    /\ 1 \in AttemptNos
    /\ \A n \in AttemptNos : n \in Nat /\ n >= 1 /\ n <= MaxAttempts /\ n # 0
    /\ \A n \in AttemptNos : n < MaxAttempts => n + 1 \in AttemptNos
    /\ \A n \in AttemptNos, m \in AttemptNos : m \in 1..(n - 1) <=> m < n
    /\ \A n \in AttemptNos : 1..(n - 1) \subseteq AttemptNos
BY KernelAssumption DEF AttemptNos

LEMMA NotTerminal ==
    "absent" \notin Terminal /\ "queued" \notin Terminal /\ "running" \notin Terminal
BY DEF Terminal

LEMMA InitChain == Init => ChainInv
<1> SUFFICES ASSUME Init PROVE ChainInv
    OBVIOUS
<1>1. ActiveAttemptAgrees
    BY Numbers DEF Init, ActiveAttemptAgrees, NoAttempt
<1>2. AttemptChain
    BY Numbers DEF Init, AttemptChain, NoAttempt
<1>3. CallbackFollows
    BY DEF Init, CallbackFollows, NoAttempt, Terminal
<1> QED BY <1>1, <1>2, <1>3 DEF ChainInv

LEMMA KeptChain ==
    ASSUME Typed, ChainInv, LedgerKept
    PROVE  ChainInv'
<1>1. ActiveAttemptAgrees'
    BY DEF ChainInv, LedgerKept, ActiveAttemptAgrees
<1>2. AttemptChain'
    BY Numbers DEF ChainInv, LedgerKept, AttemptChain
<1>3. CallbackFollows'
    BY DEF ChainInv, LedgerKept, CallbackFollows
<1> QED BY <1>1, <1>2, <1>3 DEF ChainInv

LEMMA SubmitChain ==
    ASSUME Typed, ChainInv, NEW j \in Jobs, Submit(j)
    PROVE  ChainInv'
<1>1. \A i \in Jobs, m \in AttemptNos :
        attempt'[i][m].status = IF i = j /\ m = 1 THEN "pending" ELSE attempt[i][m].status
    BY Numbers DEF Submit, NewAttempt, Typed, LedgerTyped
<1>2. \A i \in Jobs : /\ status'[i] = IF i = j THEN "queued" ELSE status[i]
                     /\ active'[i] = IF i = j THEN 1 ELSE active[i]
    BY DEF Submit, Typed, LedgerTyped
<1>3. status[j] = "absent" /\ \A m \in AttemptNos : attempt[j][m].status = "none"
    BY DEF Submit, ChainInv, CallbackFollows
<1>4. ActiveAttemptAgrees'
    BY Numbers, <1>1, <1>2, <1>3 DEF ChainInv, ActiveAttemptAgrees
<1>5. AttemptChain'
    BY Numbers, <1>1, <1>2, <1>3 DEF ChainInv, AttemptChain
<1>6. CallbackFollows'
    BY NotTerminal, <1>1, <1>2, <1>3 DEF ChainInv, CallbackFollows, Submit
<1> QED BY <1>4, <1>5, <1>6 DEF ChainInv

LEMMA StartsChain ==
    ASSUME Typed, ChainInv, NEW j \in Jobs, NEW n \in AttemptNos, Starts(j, n)
    PROVE  ChainInv'
<1>1. \A i \in Jobs : status'[i] = IF i = j THEN "running" ELSE status[i]
    BY DEF Starts, Typed, LedgerTyped
<1>2. /\ status[j] = "queued" /\ active[j] = n /\ attempt[j][n].status = "pending"
      /\ UNCHANGED <<active, callback>>
      /\ \A i \in Jobs, m \in AttemptNos :
           attempt'[i][m].status = IF i = j /\ m = n THEN "running" ELSE attempt[i][m].status
    BY DEF Starts, Claimable
<1>3. ActiveAttemptAgrees'
    BY Numbers, <1>1, <1>2 DEF ChainInv, ActiveAttemptAgrees
<1>4. AttemptChain'
    BY Numbers, <1>1, <1>2 DEF ChainInv, AttemptChain
<1>5. CallbackFollows'
    BY NotTerminal, <1>1, <1>2 DEF ChainInv, CallbackFollows
<1> QED BY <1>3, <1>4, <1>5 DEF ChainInv

LEMMA RetriesChain ==
    ASSUME Typed, ChainInv, NEW j \in Jobs, NEW n \in AttemptNos, Retries(j, n)
    PROVE  ChainInv'
<1>0. n + 1 \in AttemptNos /\ n + 1 # n
    BY Numbers DEF Retries
<1>1. \A i \in Jobs, m \in AttemptNos :
        attempt'[i][m].status = IF i = j /\ m = n THEN "failed"
                                ELSE IF i = j /\ m = n + 1 THEN "pending"
                                ELSE attempt[i][m].status
    BY <1>0 DEF Retries, RetryJob, EndedAttempt, NewAttempt, Typed, LedgerTyped
<1>2. /\ \A i \in Jobs : /\ status'[i] = IF i = j THEN "queued" ELSE status[i]
                        /\ active'[i] = IF i = j THEN n + 1 ELSE active[i]
      /\ UNCHANGED callback
    BY DEF Retries, RetryJob, Typed, LedgerTyped
<1>3. active[j] = n /\ attempt[j][n].status = "running" /\ status[j] = "running"
    BY DEF Retries, Ends, ChainInv, ActiveAttemptAgrees
<1>4. ActiveAttemptAgrees'
    BY Numbers, <1>0, <1>1, <1>2, <1>3 DEF ChainInv, ActiveAttemptAgrees
<1>5. AttemptChain'
    BY Numbers, <1>0, <1>1, <1>2, <1>3 DEF ChainInv, AttemptChain
<1>6. CallbackFollows'
    BY NotTerminal, <1>0, <1>1, <1>2, <1>3 DEF ChainInv, CallbackFollows
<1> QED BY <1>4, <1>5, <1>6 DEF ChainInv

LEMMA FinishesChain ==
    ASSUME Typed, ChainInv, NEW j \in Jobs, NEW n \in AttemptNos, NEW s \in Terminal,
           Finishes(j, n, s)
    PROVE  ChainInv'
<1>0. PICK f \in Phases : FinishJob(j, n, s, f)
    BY DEF Finishes
<1>1. \A i \in Jobs, m \in AttemptNos :
        attempt'[i][m].status = IF i = j /\ m = n THEN s ELSE attempt[i][m].status
    BY <1>0 DEF FinishJob, EndedAttempt, Typed, LedgerTyped
<1>2. \A i \in Jobs : /\ status'[i] = IF i = j THEN s ELSE status[i]
                     /\ active'[i] = IF i = j THEN 0 ELSE active[i]
    BY <1>0 DEF FinishJob, Typed, LedgerTyped
<1>3. /\ active[j] = n /\ s \in {"succeeded", "failed"}
      /\ status[j] \in {"queued", "running"}
    BY DEF Finishes, Ends, ChainInv, ActiveAttemptAgrees, Terminal
<1>4. ActiveAttemptAgrees'
    <2>1. \A m \in AttemptNos : m # n => attempt[j][m].status \notin {"pending", "running", "succeeded"}
        BY <1>3 DEF ChainInv, ActiveAttemptAgrees
    <2> QED BY Numbers, <1>1, <1>2, <1>3, <2>1 DEF ChainInv, ActiveAttemptAgrees
<1>5. AttemptChain'
    <2>1. \A m \in AttemptNos : m > n => attempt[j][m].status = "none"
        BY Numbers, <1>3 DEF ChainInv, AttemptChain
    <2>2. attempt[j][n].status # "none"
        BY DEF Finishes, Ends
    <2> QED BY Numbers, <1>1, <1>2, <1>3, <2>1, <2>2 DEF ChainInv, AttemptChain
<1>6. CallbackFollows'
    <2>1. callback[j] = {}
        BY <1>3, NotTerminal DEF ChainInv, CallbackFollows
    <2>2. \A i \in Jobs : callback'[i] = IF i = j THEN {s} ELSE callback[i]
        BY <1>0, <2>1 DEF FinishJob, EnsureCallback, Typed, LedgerTyped
    <2>3. s # "absent"
        BY NotTerminal
    <2> QED BY <1>1, <1>2, <2>2, <2>3 DEF ChainInv, CallbackFollows
<1> QED BY <1>4, <1>5, <1>6 DEF ChainInv

LEMMA ChainedStep == Typed /\ ChainInv /\ [Next]_vars => LedgerStep
BY KernelStep DEF ChainInv

LEMMA ChainStep == Typed /\ ChainInv /\ [Next]_vars => ChainInv'
BY ChainedStep, KeptChain, SubmitChain, StartsChain, RetriesChain, FinishesChain DEF LedgerStep

LEMMA ChainAlways == Spec => [](Typed /\ ChainInv)
BY InitTyped, TypedStep, InitChain, ChainStep, PTL DEF Spec

\* The status and active_attempt_id of a Job describe the same attempt, and no
\* other attempt of it is pending or running.
THEOREM ActiveAttemptCorrect == Spec => []ActiveAttemptAgrees
<1>1. ChainInv => ActiveAttemptAgrees
    BY DEF ChainInv
<1> QED BY <1>1, ChainAlways, PTL

\* The attempts of a Job form one chain of failures that ends in the active one.
THEOREM ChainCorrect == Spec => []AttemptChain
<1>1. ChainInv => AttemptChain
    BY DEF ChainInv
<1> QED BY <1>1, ChainAlways, PTL

-----------------------------------------------------------------------------
(* The kernel implements the lifecycle it promises.                         *)

LEMMA CreatedIsChain ==
    ASSUME Typed, ChainInv, NEW j \in Jobs, active[j] \in AttemptNos
    PROVE  Created[j] = 1..active[j]
<1>1. attempt[j][active[j]].status # "none"
    <2>1. status[j] \in {"queued", "running"}
        BY Numbers DEF Typed, LedgerTyped, JobStatus, ChainInv, ActiveAttemptAgrees
    <2> QED BY <2>1 DEF ChainInv, ActiveAttemptAgrees
<1>2. \A m \in AttemptNos : m < active[j] => attempt[j][m].status = "failed"
    BY <1>1, Numbers DEF ChainInv, AttemptChain
<1>3. \A m \in AttemptNos : m > active[j] => attempt[j][m].status = "none"
    BY Numbers DEF ChainInv, AttemptChain
<1>4. \A m \in AttemptNos : attempt[j][m].status # "none" <=> m \in 1..active[j]
    BY <1>1, <1>2, <1>3, Numbers
<1>5. 1..active[j] \subseteq AttemptNos
    BY KernelAssumption DEF AttemptNos
<1> QED BY <1>4, <1>5 DEF Created

LEMMA CreatedKept ==
    ASSUME NEW i \in Jobs,
           \A m \in AttemptNos : attempt'[i][m].status = attempt[i][m].status
    PROVE  Created'[i] = Created[i]
BY DEF Created

LEMMA LifecycleStep ==
    ASSUME Typed, ChainInv, ChainInv', [Next]_vars
    PROVE  [Lifecycle!Next]_<<status, Created, callback>>
<1> DEFINE Goal == [Lifecycle!Next]_<<status, Created, callback>>
<1>0. /\ \A j \in Jobs : Created[j] = {n \in AttemptNos : attempt[j][n].status # "none"}
      /\ \A j \in Jobs : Created'[j] = {n \in AttemptNos : attempt'[j][n].status # "none"}
      /\ Created = [j \in Jobs |-> Created[j]] /\ Created' = [j \in Jobs |-> Created'[j]]
    BY DEF Created
<1>1. CASE LedgerKept
    <2>1. Created' = Created
        BY <1>1 DEF LedgerKept, Created
    <2> QED BY <1>1, <2>1 DEF LedgerKept
<1>2. ASSUME NEW j \in Jobs, Submit(j) PROVE Goal
    <2>1. \A i \in Jobs, m \in AttemptNos :
            attempt'[i][m].status = IF i = j /\ m = 1 THEN "pending" ELSE attempt[i][m].status
        BY <1>2, Numbers DEF Submit, NewAttempt, Typed, LedgerTyped
    <2>2. \A m \in AttemptNos : attempt[j][m].status = "none"
        BY <1>2 DEF Submit, ChainInv, CallbackFollows
    <2>3. \A i \in Jobs : Created'[i] = IF i = j THEN {1} ELSE Created[i]
        <3>1. Created'[j] = {1}
            BY <2>1, <2>2, <1>0, Numbers
        <3>2. \A i \in Jobs : i # j => Created'[i] = Created[i]
            <4>1. \A i \in Jobs : i # j => \A m \in AttemptNos :
                    attempt'[i][m].status = attempt[i][m].status
                BY <2>1
            <4> QED BY <4>1, CreatedKept
        <3> QED BY <3>1, <3>2
    <2>4. Created' = [Created EXCEPT ![j] = {1}]
        BY <2>3, <1>0
    <2> QED BY <1>2, <2>4 DEF Submit, Lifecycle!Next, Lifecycle!Submit
<1>3. ASSUME NEW j \in Jobs, NEW n \in AttemptNos, Starts(j, n) PROVE Goal
    <2>1. \A i \in Jobs, m \in AttemptNos :
            attempt'[i][m].status = "none" <=> attempt[i][m].status = "none"
        BY <1>3 DEF Starts, Claimable
    <2>2. Created' = Created
        BY <2>1 DEF Created
    <2> QED BY <1>3, <2>2 DEF Starts, Claimable, Lifecycle!Next, Lifecycle!Start
<1>4. ASSUME NEW j \in Jobs, NEW n \in AttemptNos, Retries(j, n) PROVE Goal
    <2>0. /\ n + 1 \in AttemptNos /\ n + 1 # n /\ n + 1 \in 2..MaxAttempts
          /\ (n + 1) - 1 = n
        BY <1>4, KernelAssumption DEF Retries, AttemptNos
    <2>1. /\ active[j] = n /\ status[j] = "running" /\ active'[j] = n + 1
          /\ status' = [status EXCEPT ![j] = "queued"] /\ UNCHANGED callback
        BY <1>4 DEF Retries, RetryJob, Ends, ChainInv, ActiveAttemptAgrees, Typed, LedgerTyped
    <2>2. Created[j] = 1..n
        BY <2>1, CreatedIsChain
    <2>3. \A i \in Jobs, m \in AttemptNos : i # j => attempt'[i][m].status = attempt[i][m].status
        BY <1>4, <2>0 DEF Retries, RetryJob, Typed, LedgerTyped
    <2>4. \A m \in AttemptNos : attempt'[j][m].status # "none" <=>
                                m = n + 1 \/ attempt[j][m].status # "none"
        <3>1. attempt[j][n].status # "none"
            BY <1>4 DEF Retries
        <3>2. \A m \in AttemptNos :
                attempt'[j][m].status = IF m = n THEN "failed" ELSE IF m = n + 1 THEN "pending"
                                        ELSE attempt[j][m].status
            BY <1>4, <2>0 DEF Retries, RetryJob, EndedAttempt, NewAttempt, Typed, LedgerTyped
        <3> QED BY <3>1, <3>2
    <2>5. Created'[j] = 1..(n + 1)
        <3>1. Created'[j] = {n + 1} \cup Created[j]
            BY <2>0, <2>4, <1>0
        <3> QED BY <3>1, <2>0, <2>2, Numbers
    <2>6. \A i \in Jobs : Created'[i] = IF i = j THEN 1..(n + 1) ELSE Created[i]
        <3>1. \A i \in Jobs : i # j => Created'[i] = Created[i]
            BY <2>3, CreatedKept
        <3> QED BY <2>5, <3>1
    <2>7. Created' = [Created EXCEPT ![j] = 1..(n + 1)]
        BY <2>6, <1>0
    <2>8. Lifecycle!Requeue(j)
        BY <2>0, <2>1, <2>2, <2>7 DEF Lifecycle!Requeue
    <2> QED BY <2>8 DEF Lifecycle!Next
<1>5. ASSUME NEW j \in Jobs, NEW n \in AttemptNos, NEW s \in Terminal, Finishes(j, n, s)
      PROVE  Goal
    <2>0. PICK f \in Phases : FinishJob(j, n, s, f)
        BY <1>5 DEF Finishes
    <2>1. \A i \in Jobs, m \in AttemptNos :
            attempt'[i][m].status = IF i = j /\ m = n THEN s ELSE attempt[i][m].status
        BY <2>0 DEF FinishJob, EndedAttempt, Typed, LedgerTyped
    <2>2. s # "none" /\ attempt[j][n].status # "none"
        BY <1>5 DEF Finishes, Ends, Terminal
    <2>3. Created' = Created
        BY <2>1, <2>2 DEF Created
    <2>4. status[j] = "running" \/ (status[j] = "queued" /\ s = "failed")
        BY <1>5 DEF Finishes, Ends, Terminal, ChainInv, ActiveAttemptAgrees
    <2>5. callback[j] = {}
        BY <2>4, NotTerminal DEF ChainInv, CallbackFollows
    <2>6. callback' = [callback EXCEPT ![j] = {s}]
        BY <2>0, <2>5 DEF FinishJob, EnsureCallback
    <2>7. Lifecycle!Finish(j, s)
        BY <2>0, <2>3, <2>4, <2>6 DEF FinishJob, Lifecycle!Finish
    <2> QED BY <2>7 DEF Lifecycle!Next, Lifecycle!Terminal, Terminal
<1> QED BY <1>1, <1>2, <1>3, <1>4, <1>5, ChainedStep DEF LedgerStep

\* Every behaviour of the kernel is one of JobLifecycle: a terminal status is
\* final, its callback row appears with it, and every return to the queue uses
\* up one attempt of the budget.
THEOREM KernelImplementsLifecycle == Spec => ImplementsLifecycle
<1>1. Init => Lifecycle!Init
    BY DEF Init, Lifecycle!Init, Created, NoAttempt
<1>2. Typed /\ ChainInv /\ ChainInv' /\ [Next]_vars
        => [Lifecycle!Next]_<<status, Created, callback>>
    BY LifecycleStep
<1> QED BY <1>1, <1>2, ChainAlways, PTL DEF Spec, ImplementsLifecycle, Lifecycle!Spec

-----------------------------------------------------------------------------
(* One worker per attempt.                                                  *)

\* An attempt that was claimed never goes back to waiting.
LEMMA ClaimedStays ==
    ASSUME Typed, ChainInv, LedgerStep, NEW j \in Jobs, NEW n \in AttemptNos,
           attempt[j][n].status \notin {"none", "pending"}
    PROVE  attempt'[j][n].status \notin {"none", "pending"}
<1>1. CASE LedgerKept
    BY <1>1 DEF LedgerKept
<1>2. ASSUME NEW i \in Jobs, Submit(i) PROVE attempt'[j][n].status = attempt[j][n].status
    <2>1. i # j
        BY <1>2 DEF Submit, ChainInv, CallbackFollows
    <2> QED BY <1>2, <2>1 DEF Submit, Typed, LedgerTyped
<1>3. ASSUME NEW i \in Jobs, NEW m \in AttemptNos, Starts(i, m)
      PROVE  attempt'[j][n].status = attempt[j][n].status
    BY <1>3 DEF Starts, Claimable
<1>4. ASSUME NEW i \in Jobs, NEW m \in AttemptNos, Retries(i, m)
      PROVE  attempt'[j][n].status \notin {"none", "pending"}
    <2>1. PICK f \in Phases : RetryJob(i, m, f)
        BY <1>4 DEF Retries
    <2>2. m + 1 \in AttemptNos /\ m + 1 # m /\ active[i] = m /\ m # 0 /\ m + 1 > m
        BY <1>4, Numbers DEF Retries, Ends
    <2>3. attempt[i][m + 1].status = "none"
        BY <2>2 DEF ChainInv, AttemptChain
    <2>4. \A k \in AttemptNos :
            attempt'[i][k].status = IF k = m THEN "failed" ELSE IF k = m + 1 THEN "pending"
                                    ELSE attempt[i][k].status
        BY <2>1, <2>2 DEF RetryJob, EndedAttempt, NewAttempt, Typed, LedgerTyped
    <2>5. i # j => attempt'[j][n].status = attempt[j][n].status
        BY <2>1 DEF RetryJob, Typed, LedgerTyped
    <2> QED BY <2>3, <2>4, <2>5
<1>5. ASSUME NEW i \in Jobs, NEW m \in AttemptNos, NEW t \in Terminal, Finishes(i, m, t)
      PROVE  attempt'[j][n].status \notin {"none", "pending"}
    <2>1. PICK f \in Phases : FinishJob(i, m, t, f)
        BY <1>5 DEF Finishes
    <2>2. attempt'[j][n].status = IF j = i /\ n = m THEN t ELSE attempt[j][n].status
        BY <2>1 DEF FinishJob, EndedAttempt, Typed, LedgerTyped
    <2> QED BY <2>2 DEF Terminal
<1> QED BY <1>1, <1>2, <1>3, <1>4, <1>5 DEF LedgerStep

\* The token of a running attempt was there before, or this step claimed it.
TokenStep ==
    \A j \in Jobs, n \in AttemptNos :
        attempt'[j][n].status = "running" =>
            \/ attempt[j][n].status = "running" /\ attempt'[j][n].token = attempt[j][n].token
            \/ \E w \in Workers : Claim(w) /\ worker[w].job = j /\ worker[w].no = n

LEMMA TokenFinish ==
    ASSUME Typed, NEW j \in Jobs, NEW n \in AttemptNos, NEW s \in Terminal, NEW f \in Phases,
           FinishJob(j, n, s, f)
    PROVE  TokenStep
<1>1. \A i \in Jobs, m \in AttemptNos :
        attempt'[i][m] = IF i = j /\ m = n THEN EndedAttempt(s, f) ELSE attempt[i][m]
    BY DEF FinishJob, Typed, LedgerTyped
<1>2. EndedAttempt(s, f).status # "running"
    BY DEF EndedAttempt, Terminal
<1> QED BY <1>1, <1>2 DEF TokenStep

LEMMA TokenRetry ==
    ASSUME Typed, NEW j \in Jobs, NEW n \in AttemptNos, NEW f \in Phases, n < MaxAttempts,
           RetryJob(j, n, f)
    PROVE  TokenStep
<1>1. n + 1 \in AttemptNos
    BY Numbers
<1>2. \A i \in Jobs, m \in AttemptNos :
        attempt'[i][m] = IF i = j /\ m = n + 1 THEN NewAttempt
                         ELSE IF i = j /\ m = n THEN EndedAttempt("failed", f)
                         ELSE attempt[i][m]
    BY <1>1 DEF RetryJob, Typed, LedgerTyped
<1>3. EndedAttempt("failed", f).status # "running" /\ NewAttempt.status # "running"
    BY DEF EndedAttempt, NewAttempt
<1> QED BY <1>2, <1>3 DEF TokenStep

LEMMA TokenMarkFailed ==
    ASSUME Typed, NEW j \in Jobs, NEW n \in AttemptNos, NEW c, NEW f \in Phases,
           MarkAttemptFailed(j, n, c, f)
    PROVE  TokenStep
<1>1. CASE EndAttempt(j, n, f)
    <2>1. \A i \in Jobs, m \in AttemptNos :
            attempt'[i][m] = IF i = j /\ m = n THEN EndedAttempt("failed", f) ELSE attempt[i][m]
        BY <1>1 DEF EndAttempt, Typed, LedgerTyped
    <2>2. EndedAttempt("failed", f).status # "running"
        BY DEF EndedAttempt
    <2> QED BY <2>1, <2>2 DEF TokenStep
<1> QED BY <1>1, TokenFinish, TokenRetry DEF MarkAttemptFailed, CanRetry, Terminal

LEMMA TokenLease ==
    ASSUME Typed, NEW j \in Jobs, NEW n \in AttemptNos, NEW l \in {"live", "expired"},
           attempt' = [attempt EXCEPT ![j][n] = WithLease(attempt[j][n], l)]
    PROVE  TokenStep
<1>1. attempt[j][n] \in Attempt
    BY DEF Typed, LedgerTyped
<1>2. \A i \in Jobs, m \in AttemptNos :
        attempt'[i][m] = IF i = j /\ m = n THEN WithLease(attempt[j][n], l) ELSE attempt[i][m]
    BY DEF Typed, LedgerTyped
<1> QED BY <1>1, <1>2, AttemptUpdates DEF TokenStep

LEMMA TokensStep == Typed /\ [Next]_vars => TokenStep
<1> SUFFICES ASSUME Typed, [Next]_vars PROVE TokenStep
    OBVIOUS
<1>1. ASSUME UNCHANGED attempt PROVE TokenStep
    BY <1>1 DEF TokenStep
<1>2. ASSUME NEW j \in Jobs, Submit(j) PROVE TokenStep
    <2>1. \A i \in Jobs, m \in AttemptNos :
            attempt'[i][m] = IF i = j /\ m = 1 THEN NewAttempt ELSE attempt[i][m]
        BY <1>2, Numbers DEF Submit, Typed, LedgerTyped
    <2>2. NewAttempt.status # "running"
        BY DEF NewAttempt
    <2> QED BY <2>1, <2>2 DEF TokenStep
<1>3. ASSUME NEW p \in Publishers, PublisherStep(p) \/ PublisherCrash(p) PROVE TokenStep
    BY <1>1, <1>3 DEF PublisherStep, BrokerAccepts, BrokerRejects, MarkDispatch,
       PublisherCrash, ledgerVars, jobVars
<1>4. ASSUME NEW w \in Workers, WorkerStep(w) PROVE TokenStep
    <2> DEFINE j == worker[w].job
               n == worker[w].no
    <2>0. j \in Jobs /\ n \in AttemptNos
        BY <1>4 DEF WorkerStep, Claim, ClaimMiss, Heartbeat, ExecutorReturns, ExecutorRaises,
           MarkSucceeded, SideEffectRaises, RecordFailure, Typed, WorkersTyped
    <2>1. CASE Claim(w)
        <3>1. \A i \in Jobs, m \in AttemptNos : i # j \/ m # n => attempt'[i][m] = attempt[i][m]
            BY <2>0, <2>1 DEF Claim, Typed, LedgerTyped
        <3> QED BY <2>1, <3>1 DEF TokenStep
    <2>2. CASE ClaimMiss(w) \/ ExecutorReturns(w) \/ ExecutorRaises(w)
        BY <1>1, <2>2 DEF ClaimMiss, ExecutorReturns, ExecutorRaises, ledgerVars
    <2>3. CASE Heartbeat(w)
        BY <1>1, <2>0, <2>3, TokenLease DEF Heartbeat, RenewLease
    <2>4. CASE MarkSucceeded(w) \/ SideEffectRaises(w)
        BY <1>1, <2>0, <2>4, TokenFinish DEF MarkSucceeded, SideEffectRaises, ledgerVars,
           Terminal, Phases
    <2>5. CASE RecordFailure(w)
        BY <1>1, <2>0, <2>5, TokenMarkFailed DEF RecordFailure, ledgerVars, Phases
    <2> QED BY <1>4, <2>1, <2>2, <2>3, <2>4, <2>5 DEF WorkerStep
<1>5. ASSUME NEW w \in Workers, Redeliver(w) \/ WorkerCrash(w) PROVE TokenStep
    BY <1>1, <1>5 DEF Redeliver, WorkerCrash, ledgerVars
<1>6. ASSUME NEW j \in Jobs, NEW n \in AttemptNos,
             \/ \E p \in Publishers : LeaseDispatch(p, j, n)
             \/ \E w \in Workers : Receive(w, j, n)
             \/ DispatchDue(j, n)
             \/ ReconcileDispatch(j, n)
             \/ ReplayDispatch(j, n)
      PROVE  TokenStep
    BY <1>1, <1>6 DEF LeaseDispatch, Receive, DispatchDue, ReconcileDispatch, ReplayDispatch,
       ledgerVars, jobVars
<1>7. ASSUME NEW j \in Jobs, NEW n \in AttemptNos, LeaseExpires(j, n) PROVE TokenStep
    BY <1>7, TokenLease DEF LeaseExpires
<1>8. ASSUME NEW j \in Jobs, NEW n \in AttemptNos, FailDeadLettered(j, n) PROVE TokenStep
    BY <1>8, TokenFinish DEF FailDeadLettered, Terminal, Phases
<1>9. ASSUME RecoveryScan \/ \E s \in stale : RecoverySkips(s) PROVE TokenStep
    BY <1>1, <1>9 DEF RecoveryScan, RecoverySkips, ledgerVars
<1>10. ASSUME NEW s \in stale, RecoverStale(s) PROVE TokenStep
    <2>1. s.job \in Jobs /\ s.no \in AttemptNos
        BY <1>10 DEF Typed, QueuesTyped, StaleRow
    <2> QED BY <1>1, <1>10, <2>1, TokenMarkFailed DEF RecoverStale, ledgerVars, Phases
<1>11. CASE UNCHANGED vars
    BY <1>1, <1>11 DEF vars
<1> QED BY <1>2, <1>3, <1>4, <1>5, <1>6, <1>7, <1>8, <1>9, <1>10, <1>11 DEF Next

\* A worker that works on an attempt did so before, or this step claimed it.
LEMMA WorksStep ==
    ASSUME Typed, [Next]_vars, NEW v \in Workers, NEW j \in Jobs, NEW n \in AttemptNos,
           Works(v, j, n)'
    PROVE  Works(v, j, n) \/ (Claim(v) /\ worker[v].job = j /\ worker[v].no = n)
<1>1. ASSUME worker'[v] = worker[v] PROVE Works(v, j, n)
    BY <1>1 DEF Works
<1>2. ASSUME NEW w \in Workers, worker' = [worker EXCEPT ![w] = IdleWorker] PROVE Works(v, j, n)
    BY <1>2 DEF Works, Busy, IdleWorker, Typed, WorkersTyped
<1>3. ASSUME NEW w \in Workers, worker[w].pc \in Busy, NEW pc \in Busy,
             \/ worker' = [worker EXCEPT ![w].pc = pc]
             \/ \E c \in ErrorCodes : worker' = [worker EXCEPT ![w].pc = pc, ![w].code = c]
      PROVE  Works(v, j, n)
    <2>1. worker[w] \in Worker /\ worker[v] \in Worker
        BY DEF Typed, WorkersTyped
    <2>2. worker'[v].job = worker[v].job /\ worker'[v].no = worker[v].no
        BY <1>3, <2>1 DEF Typed, WorkersTyped, Worker
    <2>3. w # v => worker'[v] = worker[v]
        BY <1>3, <2>1 DEF Typed, WorkersTyped
    <2>4. worker[v].pc \in Busy
        BY <1>3, <2>3 DEF Works
    <2> QED BY <2>2, <2>4 DEF Works
<1>4. ASSUME NEW w \in Workers, WorkerStep(w), ~Claim(w) PROVE Works(v, j, n)
    <2>1. CASE ClaimMiss(w) \/ RecordFailure(w)
        BY <1>2, <2>1 DEF ClaimMiss, RecordFailure
    <2>2. CASE Heartbeat(w)
        BY <1>1, <1>3, <2>2 DEF Heartbeat, Raise, Busy, ErrorCodes
    <2>3. CASE ExecutorReturns(w) \/ ExecutorRaises(w)
        BY <1>3, <2>3 DEF ExecutorReturns, ExecutorRaises, Raise, Busy, ErrorCodes
    <2>4. CASE MarkSucceeded(w) \/ SideEffectRaises(w)
        BY <1>2, <1>3, <2>4 DEF MarkSucceeded, SideEffectRaises, Raise, Busy, ErrorCodes
    <2> QED BY <1>4, <2>1, <2>2, <2>3, <2>4 DEF WorkerStep
<1>5. ASSUME NEW w \in Workers, Claim(w)
      PROVE  Works(v, j, n) \/ (Claim(v) /\ worker[v].job = j /\ worker[v].no = n)
    <2>1. CASE w # v
        <3>1. worker'[v] = worker[v]
            BY <1>5, <2>1 DEF Claim, Typed, WorkersTyped
        <3> QED BY <1>1, <3>1
    <2>2. CASE w = v
        <3>1. worker'[v].job = worker[v].job /\ worker'[v].no = worker[v].no
            BY <1>5, <2>2 DEF Claim, Typed, WorkersTyped, Worker
        <3> QED BY <1>5, <2>2, <3>1 DEF Works
    <2> QED BY <2>1, <2>2
<1>6. ASSUME NEW w \in Workers, NEW i \in Jobs, NEW m \in AttemptNos, Receive(w, i, m)
      PROVE  Works(v, j, n)
    <2>1. CASE w # v
        BY <1>1, <1>6, <2>1 DEF Receive, Typed, WorkersTyped
    <2>2. CASE w = v
        BY <1>6, <2>2 DEF Receive, Works, Busy, Typed, WorkersTyped
    <2> QED BY <2>1, <2>2
<1>7. ASSUME NEW w \in Workers, Redeliver(w) \/ WorkerCrash(w) PROVE Works(v, j, n)
    BY <1>1, <1>2, <1>7 DEF Redeliver, WorkerCrash
<1>8. ASSUME UNCHANGED worker PROVE Works(v, j, n)
    BY <1>1, <1>8
<1>9. ASSUME NEW p \in Publishers, PublisherStep(p) \/ PublisherCrash(p) PROVE UNCHANGED worker
    BY <1>9 DEF PublisherStep, BrokerAccepts, BrokerRejects, MarkDispatch, PublisherCrash
<1>10. ASSUME NEW i \in Jobs, NEW m \in AttemptNos,
              \/ Submit(i)
              \/ \E p \in Publishers : LeaseDispatch(p, i, m)
              \/ DispatchDue(i, m)
              \/ LeaseExpires(i, m)
              \/ FailDeadLettered(i, m)
              \/ ReconcileDispatch(i, m)
              \/ ReplayDispatch(i, m)
       PROVE  UNCHANGED worker
    BY <1>10 DEF Submit, LeaseDispatch, DispatchDue, LeaseExpires, FailDeadLettered,
       ReconcileDispatch, ReplayDispatch
<1>11. ASSUME \/ RecoveryScan
              \/ \E s \in stale : RecoverStale(s) \/ RecoverySkips(s)
              \/ UNCHANGED vars
       PROVE  UNCHANGED worker
    BY <1>11 DEF RecoveryScan, RecoverStale, RecoverySkips, vars
<1>12. 1 \in AttemptNos
    BY Numbers
<1> QED BY <1>4, <1>5, <1>6, <1>7, <1>8, <1>9, <1>10, <1>11, <1>12 DEF Next

LEMMA ExecutionStep ==
    ASSUME Typed, ChainInv, SingleExecution, [Next]_vars
    PROVE  SingleExecution'
<1> SUFFICES ASSUME NEW j \in Jobs, NEW n \in AttemptNos, NEW w \in Workers, Works(w, j, n)'
             PROVE  /\ attempt'[j][n].status \notin {"none", "pending"}
                    /\ attempt'[j][n].status = "running" => attempt'[j][n].token = w
                    /\ \A v \in Workers \ {w} : ~Works(v, j, n)'
    BY DEF SingleExecution
<1>1. ASSUME NEW v \in Workers, Claim(v), worker[v].job = j, worker[v].no = n
      PROVE  /\ attempt[j][n].status = "pending"
             /\ attempt'[j][n].status = "running" /\ attempt'[j][n].token = v
             /\ \A u \in Workers \ {v} : worker'[u] = worker[u]
             /\ \A u \in Workers : ~Works(u, j, n)
    <2>1. attempt[j][n] \in Attempt
        BY DEF Typed, LedgerTyped
    <2>2. attempt'[j][n] = Running(attempt[j][n], v)
        BY <1>1 DEF Claim, Typed, LedgerTyped
    <2>3. attempt'[j][n].status = "running" /\ attempt'[j][n].token = v
        BY <2>1, <2>2 DEF Running, Attempt
    <2>4. attempt[j][n].status = "pending"
        BY <1>1 DEF Claim, Claimable
    <2>5. \A u \in Workers \ {v} : worker'[u] = worker[u]
        BY <1>1 DEF Claim, Typed, WorkersTyped
    <2> QED BY <2>3, <2>4, <2>5 DEF SingleExecution
<1>2. CASE Claim(w) /\ worker[w].job = j /\ worker[w].no = n
    <2>1. \A v \in Workers \ {w} : Works(v, j, n)' => Works(v, j, n)
        BY <1>1, <1>2 DEF Works
    <2> QED BY <1>1, <1>2, <2>1
<1>3. CASE Works(w, j, n)
    <2>1. /\ attempt[j][n].status \notin {"none", "pending"}
          /\ attempt[j][n].status = "running" => attempt[j][n].token = w
          /\ \A v \in Workers \ {w} : ~Works(v, j, n)
        BY <1>3 DEF SingleExecution
    <2>2. \A v \in Workers : ~(Claim(v) /\ worker[v].job = j /\ worker[v].no = n)
        BY <1>1, <1>3
    <2>3. attempt'[j][n].status \notin {"none", "pending"}
        BY <2>1, ClaimedStays, ChainedStep
    <2>4. attempt'[j][n].status = "running" => attempt'[j][n].token = w
        BY <2>1, <2>2, TokensStep DEF TokenStep
    <2>5. \A v \in Workers \ {w} : ~Works(v, j, n)'
        BY <2>1, <2>2, WorksStep
    <2> QED BY <2>3, <2>4, <2>5
<1> QED BY <1>2, <1>3, WorksStep

\* No two workers ever execute the same attempt, and while it runs its token is
\* that of the worker that executes it.
THEOREM SingleExecutionCorrect == Spec => []SingleExecution
<1>1. Init => SingleExecution
    BY DEF Init, SingleExecution, Works, Busy, IdleWorker
<1>2. Typed /\ ChainInv /\ SingleExecution /\ [Next]_vars => SingleExecution'
    BY ExecutionStep
<1> QED BY <1>1, <1>2, ChainAlways, PTL DEF Spec
=============================================================================
