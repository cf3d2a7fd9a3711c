------------------------- MODULE JobDispatchProofs -------------------------
(***************************************************************************)
(* Proofs about the dispatch rows of JobKernel: they exist while a Job is  *)
(* queued, their leases are fenced, and a Job is failed for its dispatch   *)
(* only if nobody ran it.                                                  *)
(***************************************************************************)
EXTENDS JobKernelProofs

\* A next attempt replaces the active one, which was running.
Retried(j, n) == n < MaxAttempts /\ active[j] = n /\ \E f \in Phases : RetryJob(j, n, f)

\* Every way in which a step may change a dispatch row.
DispatchStep ==
    \/ UNCHANGED dispatch
    \/ \E j \in Jobs : Submit(j)
    \/ \E p \in Publishers : MarkDispatch(p)
    \/ \E j \in Jobs, n \in AttemptNos :
          \/ Retried(j, n)
          \/ \E p \in Publishers : LeaseDispatch(p, j, n)
          \/ DispatchDue(j, n)
          \/ ReconcileDispatch(j, n)
          \/ ReplayDispatch(j, n)

LEMMA MarkFailedDispatch ==
    ASSUME NEW j \in Jobs, NEW n \in AttemptNos, NEW t, NEW c, NEW f \in Phases,
           MayMarkFailed(j, n, t), MarkAttemptFailed(j, n, c, f)
    PROVE  DispatchStep
<1>1. CASE CanRetry(j, n, c) /\ RetryJob(j, n, f)
    BY <1>1 DEF CanRetry, MayMarkFailed, Retried, DispatchStep
<1>2. CASE FinishJob(j, n, "failed", f) \/ EndAttempt(j, n, f)
    BY <1>2 DEF FinishJob, EndAttempt, DispatchStep
<1> QED BY <1>1, <1>2 DEF MarkAttemptFailed

LEMMA DispatchMoves == Typed /\ [Next]_vars => DispatchStep
<1> SUFFICES ASSUME Typed, [Next]_vars PROVE DispatchStep
    OBVIOUS
<1>1. ASSUME UNCHANGED dispatch PROVE DispatchStep
    BY <1>1 DEF DispatchStep
<1>2. ASSUME NEW j \in Jobs, Submit(j) PROVE DispatchStep
    BY <1>2 DEF DispatchStep
<1>3. ASSUME NEW p \in Publishers, PublisherStep(p) \/ PublisherCrash(p) PROVE DispatchStep
    BY <1>1, <1>3 DEF PublisherStep, BrokerAccepts, BrokerRejects, PublisherCrash,
       ledgerVars, DispatchStep
<1>4. ASSUME NEW w \in Workers, WorkerStep(w) PROVE DispatchStep
    <2>1. CASE Claim(w) \/ ClaimMiss(w) \/ Heartbeat(w) \/ ExecutorReturns(w) \/ ExecutorRaises(w)
        BY <1>1, <2>1 DEF Claim, ClaimMiss, Heartbeat, ExecutorReturns, ExecutorRaises, ledgerVars
    <2>2. CASE MarkSucceeded(w) \/ SideEffectRaises(w)
        BY <1>1, <2>2 DEF MarkSucceeded, SideEffectRaises, FinishJob, ledgerVars
    <2>3. CASE RecordFailure(w)
        <3>1. worker[w].job \in Jobs /\ worker[w].no \in AttemptNos
            BY <2>3 DEF RecordFailure, Typed, WorkersTyped
        <3> QED BY <1>1, <2>3, <3>1, MarkFailedDispatch DEF RecordFailure, ledgerVars, Phases
    <2> QED BY <1>4, <2>1, <2>2, <2>3 DEF WorkerStep
<1>5. ASSUME NEW w \in Workers, Redeliver(w) \/ WorkerCrash(w) PROVE DispatchStep
    BY <1>1, <1>5 DEF Redeliver, WorkerCrash, ledgerVars
<1>6. ASSUME NEW j \in Jobs, NEW n \in AttemptNos,
             \/ \E p \in Publishers : LeaseDispatch(p, j, n)
             \/ DispatchDue(j, n)
             \/ ReconcileDispatch(j, n)
             \/ ReplayDispatch(j, n)
      PROVE  DispatchStep
    BY <1>6 DEF DispatchStep
<1>7. ASSUME NEW j \in Jobs, NEW n \in AttemptNos,
             (\E w \in Workers : Receive(w, j, n)) \/ LeaseExpires(j, n) \/ FailDeadLettered(j, n)
      PROVE  DispatchStep
    BY <1>1, <1>7 DEF Receive, LeaseExpires, FailDeadLettered, FinishJob, ledgerVars
<1>8. ASSUME NEW s \in stale, RecoverStale(s) PROVE DispatchStep
    <2>1. s.job \in Jobs /\ s.no \in AttemptNos
        BY <1>8 DEF Typed, QueuesTyped, StaleRow
    <2> QED BY <1>1, <1>8, <2>1, MarkFailedDispatch DEF RecoverStale, ledgerVars, Phases
<1>9. ASSUME RecoveryScan \/ (\E s \in stale : RecoverySkips(s)) \/ UNCHANGED vars PROVE DispatchStep
    BY <1>1, <1>9 DEF RecoveryScan, RecoverySkips, ledgerVars, vars
<1> QED BY <1>2, <1>3, <1>4, <1>5, <1>6, <1>7, <1>8, <1>9 DEF Next

-----------------------------------------------------------------------------
(* A queued Job has a dispatch row.                                         *)

\* The rows that the steps write are rows.
LEMMA RowsWritten ==
    /\ \A due \in BOOLEAN : NewDispatch(due).status = "pending"
    /\ \A d \in Dispatch, p \in Publishers : Leased(d, p).status = "leased"
    /\ \A d \in Dispatch : /\ Published(d).status = "published"
                           /\ PublishFailed(d).status \in {"dead_letter", "retrying"}
                           /\ Settled(d).status = "published"
                           /\ [d EXCEPT !.due = TRUE].status = d.status
BY DEF NewDispatch, Leased, Published, PublishFailed, Settled, Dispatch

\* MarkDispatch changes the row whose token its dispatcher holds, or none.
LEMMA Marked ==
    ASSUME Typed, NEW p \in Publishers, MarkDispatch(p)
    PROVE  \/ UNCHANGED dispatch
           \/ \E j \in Jobs, n \in AttemptNos :
                 /\ publisher[p].job = j /\ publisher[p].no = n
                 /\ dispatch[j][n].status = "leased" /\ dispatch[j][n].token = p
                 /\ dispatch'[j][n] = IF publisher[p].pc = "accepted"
                                      THEN Published(dispatch[j][n])
                                      ELSE PublishFailed(dispatch[j][n])
                 /\ \A i \in Jobs, m \in AttemptNos :
                       i # j \/ m # n => dispatch'[i][m] = dispatch[i][m]
<1>1. CASE ~HoldsDispatch(p)
    BY <1>1 DEF MarkDispatch
<1>2. CASE HoldsDispatch(p)
    <2> DEFINE j == publisher[p].job
               n == publisher[p].no
               d == IF publisher[p].pc = "accepted"
                    THEN Published(dispatch[j][n]) ELSE PublishFailed(dispatch[j][n])
    <2>1. j \in Jobs /\ n \in AttemptNos
        BY DEF MarkDispatch, Typed, PublishersTyped
    <2>2. dispatch[j][n].status = "leased" /\ dispatch[j][n].token = p
        BY <1>2 DEF HoldsDispatch
    <2>3. dispatch' = [dispatch EXCEPT ![j][n] = d]
        BY <1>2 DEF MarkDispatch
    <2> HIDE DEF d
    <2>4. dispatch'[j][n] = d /\ \A i \in Jobs, m \in AttemptNos :
                                    i # j \/ m # n => dispatch'[i][m] = dispatch[i][m]
        <3> HIDE DEF j, n
        <3> QED BY <2>1, <2>3 DEF Typed, LedgerTyped
    <2> QED BY <2>1, <2>2, <2>4 DEF d
<1> QED BY <1>1, <1>2

\* What a step may do to one row.
RowNew(j, n) ==
    /\ dispatch'[j][n].status = "pending"
    /\ (Submit(j) /\ n = 1) \/ \E m \in AttemptNos : Retried(j, m) /\ n = m + 1

RowLeased(j, n) == dispatch'[j][n].status = "leased" /\ attempt[j][n].status = "pending"

RowMarked(j, n) ==
    /\ dispatch[j][n].status = "leased"
    /\ dispatch'[j][n].status \in {"published", "dead_letter", "retrying"}
    /\ LET p == dispatch[j][n].token
       IN  /\ publisher[p].job = j /\ publisher[p].no = n
           /\ publisher'[p].pc = "idle"
           /\ publisher[p].pc = "accepted" <=> dispatch'[j][n].status = "published"

RowKept(j, n) == dispatch'[j][n].status = dispatch[j][n].status

RowSettled(j, n) ==
    /\ attempt[j][n].status \in Terminal
    /\ dispatch[j][n].status # "none" /\ dispatch'[j][n].status = "published"

RowReplayed(j, n) ==
    dispatch[j][n].status = "dead_letter" /\ dispatch'[j][n].status = "retrying"

LEMMA RowEffects ==
    ASSUME Typed, [Next]_vars, NEW j \in Jobs, NEW n \in AttemptNos
    PROVE  RowKept(j, n) \/ RowNew(j, n) \/ RowLeased(j, n) \/ RowMarked(j, n)
           \/ RowSettled(j, n) \/ RowReplayed(j, n)
<1>0. dispatch[j][n] \in Dispatch /\ dispatch \in [Jobs -> [AttemptNos -> Dispatch]]
    BY DEF Typed, LedgerTyped
<1>1. CASE UNCHANGED dispatch
    BY <1>1 DEF RowKept
<1>2. ASSUME NEW i \in Jobs, Submit(i) PROVE RowKept(j, n) \/ RowNew(j, n)
    <2>1. dispatch'[j][n] = IF j = i /\ n = 1 THEN NewDispatch(TRUE) ELSE dispatch[j][n]
        BY <1>0, <1>2, Numbers DEF Submit
    <2> QED BY <1>2, <2>1, RowsWritten DEF RowKept, RowNew
<1>3. ASSUME NEW p \in Publishers, MarkDispatch(p) PROVE RowKept(j, n) \/ RowMarked(j, n)
    <2>1. CASE UNCHANGED dispatch
        BY <2>1 DEF RowKept
    <2>2. CASE \E i \in Jobs, m \in AttemptNos :
                 /\ publisher[p].job = i /\ publisher[p].no = m
                 /\ dispatch[i][m].status = "leased" /\ dispatch[i][m].token = p
                 /\ dispatch'[i][m] = IF publisher[p].pc = "accepted"
                                      THEN Published(dispatch[i][m])
                                      ELSE PublishFailed(dispatch[i][m])
                 /\ \A k \in Jobs, l \in AttemptNos :
                       k # i \/ l # m => dispatch'[k][l] = dispatch[k][l]
        <3>1. PICK i \in Jobs, m \in AttemptNos :
                 /\ publisher[p].job = i /\ publisher[p].no = m
                 /\ dispatch[i][m].status = "leased" /\ dispatch[i][m].token = p
                 /\ dispatch'[i][m] = IF publisher[p].pc = "accepted"
                                      THEN Published(dispatch[i][m])
                                      ELSE PublishFailed(dispatch[i][m])
                 /\ \A k \in Jobs, l \in AttemptNos :
                       k # i \/ l # m => dispatch'[k][l] = dispatch[k][l]
            BY <2>2
        <3>2. publisher'[p].pc = "idle"
            BY <1>3 DEF MarkDispatch, IdlePublisher, Typed, PublishersTyped
        <3>3. CASE i = j /\ m = n
            BY <1>0, <3>1, <3>2, <3>3, RowsWritten DEF RowMarked
        <3>4. CASE ~(i = j /\ m = n)
            BY <3>1, <3>4 DEF RowKept
        <3> QED BY <3>3, <3>4
    <2> QED BY <1>3, <2>1, <2>2, Marked
<1>4. ASSUME NEW i \in Jobs, NEW m \in AttemptNos, Retried(i, m)
      PROVE  RowKept(j, n) \/ RowNew(j, n)
    <2>1. dispatch' = [dispatch EXCEPT ![i][m + 1] = NewDispatch(FALSE)]
        BY <1>4 DEF Retried, RetryJob
    <2>2. m + 1 \in AttemptNos
        BY <1>4, Numbers DEF Retried
    <2>3. dispatch'[j][n] = IF j = i /\ n = m + 1 THEN NewDispatch(FALSE) ELSE dispatch[j][n]
        BY <1>0, <2>1, <2>2
    <2> QED BY <1>4, <2>3, RowsWritten DEF RowKept, RowNew
<1>5. ASSUME NEW i \in Jobs, NEW m \in AttemptNos, NEW p \in Publishers, LeaseDispatch(p, i, m)
      PROVE  RowKept(j, n) \/ RowLeased(j, n)
    <2>1. dispatch'[j][n] = IF j = i /\ n = m THEN Leased(dispatch[j][n], p) ELSE dispatch[j][n]
        BY <1>0, <1>5 DEF LeaseDispatch
    <2> QED BY <1>0, <1>5, <2>1, RowsWritten DEF LeaseDispatch, Publishable, RowKept, RowLeased
<1>6. ASSUME NEW i \in Jobs, NEW m \in AttemptNos, DispatchDue(i, m) PROVE RowKept(j, n)
    <2>1. dispatch'[j][n] = IF j = i /\ n = m THEN [dispatch[j][n] EXCEPT !.due = TRUE]
                            ELSE dispatch[j][n]
        BY <1>0, <1>6 DEF DispatchDue
    <2> QED BY <1>0, <2>1, RowsWritten DEF RowKept
<1>7. ASSUME NEW i \in Jobs, NEW m \in AttemptNos, ReconcileDispatch(i, m)
      PROVE  RowKept(j, n) \/ RowSettled(j, n)
    <2>1. dispatch'[j][n] = IF j = i /\ n = m THEN Settled(dispatch[j][n]) ELSE dispatch[j][n]
        BY <1>0, <1>7 DEF ReconcileDispatch
    <2> QED BY <1>0, <1>7, <2>1, RowsWritten DEF ReconcileDispatch, RanUnpublished, RowKept, RowSettled
<1>8. ASSUME NEW i \in Jobs, NEW m \in AttemptNos, ReplayDispatch(i, m)
      PROVE  RowKept(j, n) \/ RowReplayed(j, n)
    <2> DEFINE d == [status |-> "retrying", token |-> NoHolder, due |-> TRUE, tries |-> 0]
    <2>1. dispatch'[j][n] = IF j = i /\ n = m THEN d ELSE dispatch[j][n]
        BY <1>0, <1>8 DEF ReplayDispatch
    <2> QED BY <1>8, <2>1 DEF ReplayDispatch, DeadLettered, RowKept, RowReplayed
<1> QED BY <1>1, <1>2, <1>3, <1>4, <1>5, <1>6, <1>7, <1>8, DispatchMoves DEF DispatchStep

LEMMA QueuedStep ==
    ASSUME Typed, ChainInv, QueuedIsDispatchable, [Next]_vars
    PROVE  QueuedIsDispatchable'
<1> SUFFICES ASSUME NEW j \in Jobs, status'[j] = "queued"
             PROVE  dispatch'[j][active'[j]].status # "none"
    BY DEF QueuedIsDispatchable
<1>1. ASSUME status[j] = "queued", active'[j] = active[j] PROVE dispatch'[j][active'[j]].status # "none"
    <2>1. PICK n \in AttemptNos : n = active[j]
        BY <1>1 DEF ChainInv, ActiveAttemptAgrees, Typed, LedgerTyped, AttemptNos
    <2>2. dispatch[j][n].status # "none"
        BY <1>1, <2>1 DEF QueuedIsDispatchable
    <2>3. dispatch'[j][n].status # "none"
        BY <2>2, RowEffects DEF RowKept, RowNew, RowLeased, RowMarked, RowSettled, RowReplayed
    <2> QED BY <1>1, <2>1, <2>3
<1>2. CASE LedgerKept
    BY <1>1, <1>2 DEF LedgerKept
<1>3. ASSUME NEW i \in Jobs, Submit(i) PROVE dispatch'[j][active'[j]].status # "none"
    <2>1. CASE i = j
        BY <1>3, <2>1, RowsWritten, Numbers DEF Submit, Typed, LedgerTyped
    <2>2. CASE i # j
        BY <1>1, <1>3, <2>2 DEF Submit, Typed, LedgerTyped
    <2> QED BY <2>1, <2>2
<1>4. ASSUME NEW i \in Jobs, NEW m \in AttemptNos, Starts(i, m)
      PROVE  dispatch'[j][active'[j]].status # "none"
    <2>1. i # j
        BY <1>4 DEF Starts, Typed, LedgerTyped
    <2> QED BY <1>1, <1>4, <2>1 DEF Starts, Typed, LedgerTyped
<1>5. ASSUME NEW i \in Jobs, NEW m \in AttemptNos, Retries(i, m)
      PROVE  dispatch'[j][active'[j]].status # "none"
    <2>1. PICK f \in Phases : RetryJob(i, m, f)
        BY <1>5 DEF Retries
    <2>2. m + 1 \in AttemptNos
        BY <1>5, Numbers DEF Retries
    <2>3. CASE i = j
        BY <2>1, <2>2, <2>3, RowsWritten DEF RetryJob, Typed, LedgerTyped
    <2>4. CASE i # j
        BY <1>1, <2>1, <2>4 DEF RetryJob, Typed, LedgerTyped
    <2> QED BY <2>3, <2>4
<1>6. ASSUME NEW i \in Jobs, NEW m \in AttemptNos, NEW t \in Terminal, Finishes(i, m, t)
      PROVE  dispatch'[j][active'[j]].status # "none"
    <2>1. i # j
        BY <1>6, NotTerminal DEF Finishes, FinishJob, Typed, LedgerTyped
    <2> QED BY <1>1, <1>6, <2>1 DEF Finishes, FinishJob, Typed, LedgerTyped
<1> QED BY <1>2, <1>3, <1>4, <1>5, <1>6, ChainedStep DEF LedgerStep

\* A queued Job always has a dispatch row for its active attempt: create_retry
\* and submission write both in one transaction, and no row is ever removed.
THEOREM QueuedDispatchable == Spec => []QueuedIsDispatchable
<1>1. Init => QueuedIsDispatchable
    BY DEF Init, QueuedIsDispatchable
<1>2. Typed /\ ChainInv /\ QueuedIsDispatchable /\ [Next]_vars => QueuedIsDispatchable'
    BY QueuedStep
<1> QED BY <1>1, <1>2, ChainAlways, PTL DEF Spec

-----------------------------------------------------------------------------
(* The lease of a dispatch row is fenced.                                   *)

\* There is no dispatch row without its attempt.
DispatchFollows ==
    \A j \in Jobs, n \in AttemptNos :
        attempt[j][n].status = "none" => dispatch[j][n].status = "none"

\* A row is only created with a new attempt.
LEMMA NewRowIsNew ==
    ASSUME Typed, ChainInv, DispatchFollows, NEW j \in Jobs, NEW n \in AttemptNos, RowNew(j, n)
    PROVE  attempt'[j][n].status = "pending" /\ dispatch[j][n].status = "none"
<1>1. CASE Submit(j) /\ n = 1
    BY <1>1, Numbers DEF Submit, NewAttempt, ChainInv, CallbackFollows, DispatchFollows,
       Typed, LedgerTyped
<1>2. ASSUME NEW m \in AttemptNos, Retried(j, m), n = m + 1
      PROVE  attempt'[j][n].status = "pending" /\ dispatch[j][n].status = "none"
    <2>1. active[j] = m /\ m # 0 /\ n > m
        BY <1>2, Numbers DEF Retried
    <2>2. attempt[j][n].status = "none"
        BY <2>1 DEF ChainInv, AttemptChain
    <2>3. attempt'[j][n] = NewAttempt
        BY <1>2, <2>1 DEF Retried, RetryJob, Typed, LedgerTyped
    <2> QED BY <2>2, <2>3 DEF DispatchFollows, NewAttempt
<1> QED BY <1>1, <1>2 DEF RowNew

\* An attempt that exists stays.
LEMMA AttemptStays ==
    ASSUME Typed, ChainInv, [Next]_vars, NEW j \in Jobs, NEW n \in AttemptNos,
           attempt[j][n].status # "none"
    PROVE  attempt'[j][n].status # "none"
<1>1. CASE LedgerKept
    BY <1>1 DEF LedgerKept
<1>2. ASSUME NEW i \in Jobs, Submit(i) PROVE attempt'[j][n].status # "none"
    BY <1>2, Numbers DEF Submit, NewAttempt, Typed, LedgerTyped
<1>3. ASSUME NEW i \in Jobs, NEW m \in AttemptNos, Starts(i, m) PROVE attempt'[j][n].status # "none"
    BY <1>3 DEF Starts
<1>4. ASSUME NEW i \in Jobs, NEW m \in AttemptNos, Retries(i, m)
      PROVE  attempt'[j][n].status # "none"
    <2>1. PICK f \in Phases : RetryJob(i, m, f)
        BY <1>4 DEF Retries
    <2>2. m + 1 \in AttemptNos
        BY <1>4, Numbers DEF Retries
    <2> QED BY <2>1, <2>2 DEF RetryJob, EndedAttempt, NewAttempt, Typed, LedgerTyped
<1>5. ASSUME NEW i \in Jobs, NEW m \in AttemptNos, NEW t \in Terminal, Finishes(i, m, t)
      PROVE  attempt'[j][n].status # "none"
    BY <1>5 DEF Finishes, FinishJob, EndedAttempt, Terminal, Typed, LedgerTyped
<1> QED BY <1>1, <1>2, <1>3, <1>4, <1>5, ChainedStep DEF LedgerStep

LEMMA FollowsStep ==
    ASSUME Typed, ChainInv, DispatchFollows, [Next]_vars
    PROVE  DispatchFollows'
<1> SUFFICES ASSUME NEW j \in Jobs, NEW n \in AttemptNos, attempt'[j][n].status = "none"
             PROVE  dispatch'[j][n].status = "none"
    BY DEF DispatchFollows
<1>1. attempt[j][n].status = "none"
    BY AttemptStays
<1>2. dispatch[j][n].status = "none"
    BY <1>1 DEF DispatchFollows
<1>3. ~RowNew(j, n)
    BY NewRowIsNew
<1> QED BY <1>1, <1>2, <1>3, RowEffects DEF RowKept, RowLeased, RowMarked, RowSettled,
       RowReplayed, Terminal

\* A leased dispatch row changes by the dispatcher that holds its token, to the
\* outcome that dispatcher saw, or by recovery once the attempt has ended
\* (mark_dispatch_published, mark_dispatch_publish_failed).
THEOREM DispatchFencedCorrect == Spec => DispatchFenced
<1>1. ASSUME Typed, ChainInv, DispatchFollows, [Next]_vars, NEW j \in Jobs, NEW n \in AttemptNos,
             dispatch[j][n].status = "leased", dispatch'[j][n].status # "leased"
      PROVE  LET p == dispatch[j][n].token
             IN  \/ /\ publisher[p].job = j /\ publisher[p].no = n
                    /\ publisher'[p].pc = "idle"
                    /\ publisher[p].pc = "accepted" <=> dispatch'[j][n].status = "published"
                 \/ attempt[j][n].status \in Terminal
    <2>1. ~RowNew(j, n)
        BY <1>1, NewRowIsNew
    <2> QED BY <1>1, <2>1, RowEffects DEF RowKept, RowLeased, RowMarked, RowSettled, RowReplayed
<1>2. Init => DispatchFollows
    BY DEF Init, DispatchFollows, NoDispatch
<1>3. Typed /\ ChainInv /\ DispatchFollows /\ [Next]_vars => DispatchFollows'
    BY FollowsStep
<1>4. Typed /\ ChainInv /\ DispatchFollows /\ [Next]_vars =>
        \A j \in Jobs, n \in AttemptNos :
          dispatch[j][n].status = "leased" /\ dispatch'[j][n].status # "leased"
              => LET p == dispatch[j][n].token
                 IN  \/ /\ publisher[p].job = j /\ publisher[p].no = n
                        /\ publisher'[p].pc = "idle"
                        /\ publisher[p].pc = "accepted" <=> dispatch'[j][n].status = "published"
                     \/ attempt[j][n].status \in Terminal
    BY <1>1
<1> QED BY <1>2, <1>3, <1>4, ChainAlways, PTL DEF Spec, DispatchFenced

-----------------------------------------------------------------------------
(* An attempt is failed for its dispatch only if nobody ran it.             *)

\* Only FailDeadLettered charges a failure to the dispatch.
PhaseStep ==
    \A j \in Jobs, n \in AttemptNos :
        attempt'[j][n].phase = "dispatch" =>
            attempt[j][n].phase = "dispatch" \/ FailDeadLettered(j, n)

\* The ways in which the other actions write an attempt.
LEMMA PhaseRow ==
    ASSUME Typed, NEW j \in Jobs, NEW n \in AttemptNos, NEW a,
           a.phase = "dispatch" => attempt[j][n].phase = "dispatch",
           attempt' = [attempt EXCEPT ![j][n] = a]
    PROVE  PhaseStep
<1>1. \A i \in Jobs, m \in AttemptNos :
        attempt'[i][m] = IF i = j /\ m = n THEN a ELSE attempt[i][m]
    BY DEF Typed, LedgerTyped
<1> QED BY <1>1 DEF PhaseStep

LEMMA PhaseMarkFailed ==
    ASSUME Typed, NEW j \in Jobs, NEW n \in AttemptNos, NEW c, NEW f \in {"execute", "lease"},
           MarkAttemptFailed(j, n, c, f)
    PROVE  PhaseStep
<1>1. EndedAttempt("failed", f).phase # "dispatch" /\ NewAttempt.phase # "dispatch"
    BY DEF EndedAttempt, NewAttempt
<1>2. CASE FinishJob(j, n, "failed", f) \/ EndAttempt(j, n, f)
    BY <1>1, <1>2, PhaseRow DEF FinishJob, EndAttempt
<1>3. CASE RetryJob(j, n, f) /\ n < MaxAttempts
    <2>1. n + 1 \in AttemptNos
        BY <1>3, Numbers
    <2>2. \A i \in Jobs, m \in AttemptNos :
            attempt'[i][m] = IF i = j /\ m = n + 1 THEN NewAttempt
                             ELSE IF i = j /\ m = n THEN EndedAttempt("failed", f)
                             ELSE attempt[i][m]
        BY <1>3, <2>1 DEF RetryJob, Typed, LedgerTyped
    <2> QED BY <1>1, <2>2 DEF PhaseStep
<1> QED BY <1>2, <1>3 DEF MarkAttemptFailed, CanRetry

LEMMA PhasesStep == Typed /\ [Next]_vars => PhaseStep
<1> SUFFICES ASSUME Typed, [Next]_vars PROVE PhaseStep
    OBVIOUS
<1>1. ASSUME UNCHANGED attempt PROVE PhaseStep
    BY <1>1 DEF PhaseStep
<1>2. ASSUME NEW j \in Jobs, Submit(j) PROVE PhaseStep
    BY <1>2, PhaseRow, Numbers DEF Submit, NewAttempt
<1>3. ASSUME NEW p \in Publishers, PublisherStep(p) \/ PublisherCrash(p) PROVE PhaseStep
    BY <1>1, <1>3 DEF PublisherStep, BrokerAccepts, BrokerRejects, MarkDispatch,
       PublisherCrash, ledgerVars, jobVars
<1>4. ASSUME NEW w \in Workers, WorkerStep(w) PROVE PhaseStep
    <2> DEFINE j == worker[w].job
               n == worker[w].no
    <2>0. j \in Jobs /\ n \in AttemptNos
        BY <1>4 DEF WorkerStep, Claim, ClaimMiss, Heartbeat, ExecutorReturns, ExecutorRaises,
           MarkSucceeded, SideEffectRaises, RecordFailure, Typed, WorkersTyped
    <2>a. attempt[j][n] \in Attempt
        BY <2>0 DEF Typed, LedgerTyped
    <2>1. CASE Claim(w)
        <3>1. attempt' = [attempt EXCEPT ![j][n] = Running(attempt[j][n], w)]
            BY <2>1 DEF Claim
        <3>2. Running(attempt[j][n], w).phase = attempt[j][n].phase
            BY <2>a DEF Running, Attempt
        <3> HIDE DEF j, n
        <3> QED BY <2>0, <3>1, <3>2, PhaseRow
    <2>2. CASE ClaimMiss(w) \/ ExecutorReturns(w) \/ ExecutorRaises(w)
        BY <1>1, <2>2 DEF ClaimMiss, ExecutorReturns, ExecutorRaises, ledgerVars
    <2>3. CASE Heartbeat(w)
        <3>1. WithLease(attempt[j][n], "live").phase = attempt[j][n].phase
            BY <2>a DEF WithLease, Attempt
        <3>2. CASE RenewLease(w)
            <4>1. attempt' = [attempt EXCEPT ![j][n] = WithLease(attempt[j][n], "live")]
                BY <3>2 DEF RenewLease
            <4> HIDE DEF j, n
            <4> QED BY <2>0, <3>1, <4>1, PhaseRow
        <3> QED BY <1>1, <2>3, <3>2 DEF Heartbeat
    <2>4. CASE MarkSucceeded(w) \/ SideEffectRaises(w)
        <3>1. ASSUME NEW s, FinishJob(j, n, s, "none") PROVE PhaseStep
            <4>1. attempt' = [attempt EXCEPT ![j][n] = EndedAttempt(s, "none")]
                BY <3>1 DEF FinishJob
            <4>2. EndedAttempt(s, "none").phase = "none"
                BY DEF EndedAttempt
            <4> HIDE DEF j, n
            <4> QED BY <2>0, <4>1, <4>2, PhaseRow
        <3> QED BY <1>1, <2>4, <3>1 DEF MarkSucceeded, SideEffectRaises, ledgerVars
    <2>5. CASE RecordFailure(w)
        BY <1>1, <2>0, <2>5, PhaseMarkFailed DEF RecordFailure, ledgerVars
    <2> QED BY <1>4, <2>1, <2>2, <2>3, <2>4, <2>5 DEF WorkerStep
<1>5. ASSUME NEW w \in Workers, Redeliver(w) \/ WorkerCrash(w) PROVE PhaseStep
    BY <1>1, <1>5 DEF Redeliver, WorkerCrash, ledgerVars
<1>6. ASSUME NEW j \in Jobs, NEW n \in AttemptNos,
             \/ \E p \in Publishers : LeaseDispatch(p, j, n)
             \/ \E w \in Workers : Receive(w, j, n)
             \/ DispatchDue(j, n)
             \/ ReconcileDispatch(j, n)
             \/ ReplayDispatch(j, n)
      PROVE  PhaseStep
    BY <1>1, <1>6 DEF LeaseDispatch, Receive, DispatchDue, ReconcileDispatch, ReplayDispatch,
       ledgerVars, jobVars
<1>7. ASSUME NEW j \in Jobs, NEW n \in AttemptNos, LeaseExpires(j, n) PROVE PhaseStep
    <2>1. attempt[j][n] \in Attempt
        BY DEF Typed, LedgerTyped
    <2>2. WithLease(attempt[j][n], "expired").phase = attempt[j][n].phase
        BY <2>1 DEF WithLease, Attempt
    <2> QED BY <1>7, <2>2, PhaseRow DEF LeaseExpires
<1>8. ASSUME NEW j \in Jobs, NEW n \in AttemptNos, FailDeadLettered(j, n) PROVE PhaseStep
    <2>1. \A i \in Jobs, m \in AttemptNos : i # j \/ m # n => attempt'[i][m] = attempt[i][m]
        BY <1>8 DEF FailDeadLettered, FinishJob, Typed, LedgerTyped
    <2> QED BY <1>8, <2>1 DEF PhaseStep
<1>9. ASSUME RecoveryScan \/ (\E s \in stale : RecoverySkips(s)) \/ UNCHANGED vars PROVE PhaseStep
    BY <1>1, <1>9 DEF RecoveryScan, RecoverySkips, ledgerVars, vars
<1>10. ASSUME NEW s \in stale, RecoverStale(s) PROVE PhaseStep
    <2>1. s.job \in Jobs /\ s.no \in AttemptNos
        BY <1>10 DEF Typed, QueuesTyped, StaleRow
    <2> QED BY <1>1, <1>10, <2>1, PhaseMarkFailed DEF RecoverStale, ledgerVars
<1> QED BY <1>2, <1>3, <1>4, <1>5, <1>6, <1>7, <1>8, <1>9, <1>10 DEF Next

\* An attempt failed for its dispatch has ended.
FailedForDispatch ==
    \A j \in Jobs, n \in AttemptNos :
        attempt[j][n].phase = "dispatch" => attempt[j][n].status \notin {"none", "pending"}

LEMMA NeverRanStep ==
    ASSUME Typed, ChainInv, SingleExecution, FailedForDispatch, DispatchFailureNeverRan,
           [Next]_vars
    PROVE  FailedForDispatch' /\ DispatchFailureNeverRan'
<1> SUFFICES ASSUME NEW j \in Jobs, NEW n \in AttemptNos, attempt'[j][n].phase = "dispatch"
             PROVE  /\ attempt'[j][n].status \notin {"none", "pending"}
                    /\ \A w \in Workers : ~Works(w, j, n)'
    BY DEF FailedForDispatch, DispatchFailureNeverRan
<1>1. CASE attempt[j][n].phase = "dispatch"
    <2>1. attempt[j][n].status \notin {"none", "pending"}
        BY <1>1 DEF FailedForDispatch
    <2>2. attempt'[j][n].status \notin {"none", "pending"}
        BY <2>1, ClaimedStays, ChainedStep
    <2>3. ASSUME NEW w \in Workers, Works(w, j, n)' PROVE FALSE
        <3>1. ~Works(w, j, n)
            BY <1>1 DEF DispatchFailureNeverRan
        <3>2. Claim(w) /\ worker[w].job = j /\ worker[w].no = n
            BY <2>3, <3>1, WorksStep
        <3> QED BY <2>1, <3>2 DEF Claim, Claimable
    <2> QED BY <2>2, <2>3
<1>2. CASE FailDeadLettered(j, n)
    <2>1. attempt[j][n].status = "pending" /\ worker' = worker
        BY <1>2 DEF FailDeadLettered, DeadLettered
    <2>2. attempt'[j][n].status = "failed"
        BY <1>2 DEF FailDeadLettered, FinishJob, EndedAttempt, Typed, LedgerTyped
    <2>3. \A w \in Workers : ~Works(w, j, n)
        BY <2>1 DEF SingleExecution
    <2> QED BY <2>1, <2>2, <2>3 DEF Works
<1> QED BY <1>1, <1>2, PhasesStep DEF PhaseStep

\* An attempt that recovery has failed for its dispatch is run by no worker, then
\* or later, for any number of workers, dispatchers, messages and replays.
THEOREM NeverRanCorrect == Spec => []DispatchFailureNeverRan
<1>1. Init => FailedForDispatch /\ DispatchFailureNeverRan
    BY DEF Init, FailedForDispatch, DispatchFailureNeverRan, NoAttempt
<1>2. Typed /\ ChainInv /\ SingleExecution /\ FailedForDispatch /\ DispatchFailureNeverRan
        /\ [Next]_vars => FailedForDispatch' /\ DispatchFailureNeverRan'
    BY NeverRanStep
<1> QED BY <1>1, <1>2, ChainAlways, SingleExecutionCorrect, PTL DEF Spec
=============================================================================
