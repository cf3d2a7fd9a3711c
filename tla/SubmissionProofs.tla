-------------------------- MODULE SubmissionProofs --------------------------
(***************************************************************************)
(* Proofs about Submission, for any number of requests, workers, keys and  *)
(* Jobs: who may hold which lock, and what a holder may rely on.           *)
(***************************************************************************)
EXTENDS Submission, TLAPS

\* Processes have one role, and are not NoProc.
LEMMA OneRole ==
    /\ \A c \in Clients : c \in Procs /\ c \notin Workers /\ c # Operator /\ c # Reconciler /\ c # NoProc
    /\ \A w \in Workers : w \in Procs /\ w \notin Clients /\ w # Operator /\ w # Reconciler /\ w # NoProc
    /\ Operator \in Procs /\ Operator \notin Clients \cup Workers /\ Operator # NoProc
    /\ Reconciler \in Procs /\ Reconciler \notin Clients \cup Workers /\ Reconciler # NoProc
    /\ Operator # Reconciler
BY SubmissionAssumption DEF Procs

\* What a step of the other transactions may do to them: nothing.
Others(p) == \A q \in Procs : q # p => pc'[q] = pc[q] /\ name'[q] = name[q] /\ at'[q] = at[q]

-----------------------------------------------------------------------------
(* Type correctness.  TypeOK is inductive together with PassHasRoot.        *)

\* A pass that locks or fans out a root has one.
PassHasRoot == pc[Reconciler] \in {"root", "gate"} => at[Reconciler] \in Jobs

LEMMA JobRows ==
    /\ NoRow \in Job
    /\ \A n \in Names : NewJob(n) \in Job
    /\ \A d \in Job : Deleted(d) \in Job /\ Restored(d) \in Job
    /\ \A d \in Job, s, c \in BOOLEAN : Advanced(d, s, c) \in Job
<1>1. NoRow \in Job /\ \A n \in Names : NewJob(n) \in Job
    BY DEF NoRow, NewJob, Job
<1>2. ASSUME NEW d \in Job PROVE Deleted(d) \in Job /\ Restored(d) \in Job
    BY DEF Deleted, Restored, Job
<1>3. ASSUME NEW d \in Job, NEW s \in BOOLEAN, NEW c \in BOOLEAN PROVE Advanced(d, s, c) \in Job
    BY DEF Advanced, Job
<1> QED BY <1>1, <1>2, <1>3

LocksTyped ==
    /\ pc \in [Procs -> {"idle", "key", "gate", "root", "scan", "commit"}]
    /\ name \in [Procs -> Names \cup {NoName}]
    /\ at \in [Procs -> Jobs \cup {NoJob}]
    /\ keyLock \in [Names -> Procs \cup {NoProc}]
    /\ rowLock \in [Jobs -> Procs \cup {NoProc}]
    /\ gate \in Procs \cup {NoProc}
    /\ \A p \in Procs : pc[p] = "idle" =>
          gate # p /\ (\A n \in Names : keyLock[n] # p) /\ \A j \in Jobs : rowLock[j] # p

RowsTyped ==
    /\ job \in [Jobs -> Job]
    /\ todo \subseteq Jobs /\ spawned \subseteq Jobs /\ closed \subseteq Jobs
    /\ spawns \in 0..MaxSpawns

LEMMA Typed == TypeOK <=> LocksTyped /\ RowsTyped
BY DEF TypeOK, LocksTyped, RowsTyped

\* A transaction that ends leaves well-typed locks.
LEMMA EndTyped ==
    ASSUME LocksTyped, NEW p \in Procs, End(p)
    PROVE  LocksTyped'
<1>1. /\ pc' \in [Procs -> {"idle", "key", "gate", "root", "scan", "commit"}]
      /\ name' \in [Procs -> Names \cup {NoName}]
      /\ at' \in [Procs -> Jobs \cup {NoJob}]
      /\ gate' \in Procs \cup {NoProc}
    BY DEF End, Go, LocksTyped
<1>2. /\ keyLock' \in [Names -> Procs \cup {NoProc}]
      /\ rowLock' \in [Jobs -> Procs \cup {NoProc}]
    BY DEF End, LocksTyped
<1>3. ASSUME NEW q \in Procs, pc'[q] = "idle"
      PROVE  gate' # q /\ (\A n \in Names : keyLock'[n] # q) /\ \A j \in Jobs : rowLock'[j] # q
    <2>1. NoProc # q
        BY SubmissionAssumption
    <2>2. q = p \/ pc[q] = "idle"
        BY <1>3 DEF End, Go, LocksTyped
    <2> QED BY <2>1, <2>2 DEF End, LocksTyped
<1> QED BY <1>1, <1>2, <1>3 DEF LocksTyped

\* A transaction that takes a lock, or none, and goes on does not become idle.
LEMMA GoTyped ==
    ASSUME LocksTyped, NEW p \in Procs,
           NEW step \in {"key", "gate", "root", "scan", "commit"}, Go(p, step),
           name' \in [Procs -> Names \cup {NoName}], at' \in [Procs -> Jobs \cup {NoJob}],
           \/ UNCHANGED locks \/ LockKey(p) \/ LockGate(p) \/ \E j \in Jobs : LockRow(p, j)
    PROVE  LocksTyped'
<1>1. pc' \in [Procs -> {"idle", "key", "gate", "root", "scan", "commit"}]
    BY DEF Go, LocksTyped
<1>2. /\ keyLock' \in [Names -> Procs \cup {NoProc}]
      /\ rowLock' \in [Jobs -> Procs \cup {NoProc}]
      /\ gate' \in Procs \cup {NoProc}
    BY DEF LockKey, LockGate, LockRow, locks, LocksTyped
<1>3. ASSUME NEW q \in Procs, pc'[q] = "idle"
      PROVE  gate' # q /\ (\A n \in Names : keyLock'[n] # q) /\ \A j \in Jobs : rowLock'[j] # q
    <2>1. q # p /\ pc[q] = "idle"
        BY <1>3 DEF Go, LocksTyped
    <2> QED BY <2>1 DEF LockKey, LockGate, LockRow, locks, LocksTyped
<1> QED BY <1>1, <1>2, <1>3 DEF LocksTyped

LEMMA SubmissionTypeInit == Init => TypeOK
BY JobRows, SubmissionAssumption DEF Init, TypeOK, NoJob

LEMMA ReconciledTyped == ASSUME RowsTyped, NEW j \in Jobs PROVE Reconciled(j) \in Job /\ Cleaned(j) \in Job
<1>1. Reconciled(j) \in Job
    BY DEF Reconciled, RowsTyped, Job
<1> QED BY <1>1, JobRows DEF Cleaned

LEMMA RootStep == TypeOK /\ PassHasRoot /\ [Next]_vars => PassHasRoot'
<1> SUFFICES ASSUME LocksTyped, PassHasRoot, [Next]_vars PROVE PassHasRoot'
    BY Typed
<1> USE OneRole DEF PassHasRoot
<1>1. ASSUME NEW p \in Procs, p # Reconciler, Others(p) PROVE PassHasRoot'
    BY <1>1 DEF Others
<1>2. ASSUME NEW c \in Clients, Request(c) \/ ClientStep(c) \/ RequestFails(c) PROVE Others(c)
    BY <1>2 DEF Request, ClientStep, RequestFails, FindKey, AnswerExisting, Admit, QueueFull, Create,
       Begin, End, Go, LocksTyped, Others
<1>3. ASSUME OperatorStep \/ \E j \in Jobs : Restore(j) PROVE Others(Operator)
    BY <1>3 DEF OperatorStep, Restore, RestoreKey, RestoreRefused, RestoreCommits, Begin, End, Go,
       LocksTyped, Others
<1>4. ASSUME NEW w \in Workers, WorkerStep(w) \/ \E j \in Jobs : ChildEnds(w, j) PROVE Others(w)
    BY <1>4 DEF WorkerStep, ChildEnds, AdvanceRoot, AskGate, WorkerCommits, Begin, End, Go, LocksTyped, Others
<1>5. ASSUME NEW j \in Jobs, DeleteFamily(j) \/ Expire(j) \/ CallbackSettles(j) PROVE PassHasRoot'
    BY <1>5 DEF DeleteFamily, Expire, CallbackSettles
<1>6. ASSUME PassStarts \/ PassStep PROVE PassHasRoot'
    BY <1>6 DEF PassStarts, PassStep, PassTakes, PassLocks, PassAsksGate, PassCommits, PassFails, PassEnds,
       Begin, End, Go, LocksTyped
<1>7. ASSUME NEW p \in Procs, DeadlockVictim(p) PROVE PassHasRoot'
    <2>1. End(p)
        BY <1>7 DEF DeadlockVictim, PassEnds
    <2> QED BY <2>1 DEF End, Go, LocksTyped
<1>8. ASSUME UNCHANGED vars PROVE PassHasRoot'
    BY <1>8 DEF vars
<1> QED BY <1>1, <1>2, <1>3, <1>4, <1>5, <1>6, <1>7, <1>8 DEF Next

LEMMA SubmissionTypeStep == TypeOK /\ PassHasRoot /\ [Next]_vars => TypeOK'
<1> SUFFICES ASSUME LocksTyped, RowsTyped, PassHasRoot, [Next]_vars PROVE LocksTyped' /\ RowsTyped'
    BY Typed DEF TypeOK, LocksTyped, RowsTyped
<1> USE OneRole
<1>1. ASSUME NEW c \in Clients, Request(c) PROVE LocksTyped' /\ RowsTyped'
    <2>1. /\ Go(c, "key") /\ UNCHANGED locks
          /\ name' \in [Procs -> Names \cup {NoName}] /\ at' \in [Procs -> Jobs \cup {NoJob}]
        BY <1>1 DEF Request, Begin, LocksTyped
    <2> QED BY <1>1, <2>1, GoTyped DEF Request, RowsTyped, pass
<1>2. ASSUME NEW c \in Clients, FindKey(c) \/ Admit(c) PROVE LocksTyped' /\ RowsTyped'
    BY <1>2, GoTyped DEF FindKey, Admit, LocksTyped, RowsTyped, pass
<1>3. ASSUME NEW c \in Clients, AnswerExisting(c) \/ QueueFull(c) \/ RequestFails(c) PROVE LocksTyped' /\ RowsTyped'
    BY <1>3, EndTyped DEF AnswerExisting, QueueFull, RequestFails, RowsTyped, pass
<1>4. ASSUME NEW c \in Clients, Create(c) PROVE LocksTyped' /\ RowsTyped'
    <2>1. LocksTyped'
        BY <1>4, EndTyped DEF Create
    <2>2. PICK j \in Jobs : job' = [job EXCEPT ![j] = NewJob(name[c])]
        BY <1>4 DEF Create
    <2>3. NewJob(name[c]) \in Job
        <3>1. name[c] \in Names \cup {NoName}
            BY DEF LocksTyped
        <3> QED BY <3>1 DEF NewJob, Job
    <2> QED BY <1>4, <2>1, <2>2, <2>3 DEF Create, RowsTyped, pass
<1>5. ASSUME NEW j \in Jobs, DeleteFamily(j) PROVE LocksTyped' /\ RowsTyped'
    BY <1>5, JobRows DEF DeleteFamily, LocksTyped, RowsTyped, locks, pass
<1>6. ASSUME NEW j \in Jobs, Restore(j) PROVE LocksTyped' /\ RowsTyped'
    <2>1. job[j].name \in Names \cup {NoName}
        BY DEF RowsTyped, Job
    <2>2. /\ Go(Operator, "key") /\ LockRow(Operator, j)
          /\ name' \in [Procs -> Names \cup {NoName}] /\ at' \in [Procs -> Jobs \cup {NoJob}]
        BY <1>6, <2>1 DEF Restore, LockFamily, Begin, LocksTyped
    <2> QED BY <1>6, <2>2, GoTyped DEF Restore, RowsTyped, pass
<1>7. ASSUME RestoreKey PROVE LocksTyped' /\ RowsTyped'
    BY <1>7, GoTyped DEF RestoreKey, LocksTyped, RowsTyped, pass
<1>8. ASSUME RestoreRefused PROVE LocksTyped' /\ RowsTyped'
    BY <1>8, EndTyped DEF RestoreRefused, RowsTyped, pass
<1>9. ASSUME RestoreCommits PROVE LocksTyped' /\ RowsTyped'
    BY <1>9, EndTyped, JobRows DEF RestoreCommits, RowsTyped, pass
<1>10. ASSUME NEW w \in Workers, NEW j \in Jobs, ChildEnds(w, j) PROVE LocksTyped' /\ RowsTyped'
    <2>1. /\ Go(w, "root") /\ UNCHANGED locks
          /\ name' \in [Procs -> Names \cup {NoName}] /\ at' \in [Procs -> Jobs \cup {NoJob}]
        BY <1>10 DEF ChildEnds, Begin, LocksTyped
    <2> QED BY <1>10, <2>1, GoTyped DEF ChildEnds, RowsTyped, pass
<1>11. ASSUME NEW w \in Workers, AdvanceRoot(w) PROVE LocksTyped' /\ RowsTyped'
    <2>1. pc[w] = "root" /\ rowLock[at[w]] = NoProc /\ UNCHANGED <<keyLock, gate, name, at>>
          /\ rowLock' = [rowLock EXCEPT ![at[w]] = w] /\ (Go(w, "gate") \/ Go(w, "commit"))
        BY <1>11 DEF AdvanceRoot, LockRow
    <2>2. UNCHANGED locks \/ \E j \in Jobs : LockRow(w, j)
        BY <2>1 DEF LocksTyped, locks, LockRow
    <2> QED BY <1>11, <2>1, <2>2, GoTyped DEF AdvanceRoot, LocksTyped, RowsTyped, pass
<1>12. ASSUME NEW w \in Workers, AskGate(w) PROVE LocksTyped' /\ RowsTyped'
    BY <1>12, GoTyped DEF AskGate, LocksTyped, RowsTyped, pass
<1>13. ASSUME NEW w \in Workers, WorkerCommits(w) PROVE LocksTyped' /\ RowsTyped'
    <2>1. PICK spawn \in BOOLEAN, close \in BOOLEAN :
              /\ spawn => spawns < MaxSpawns
              /\ job' = [job EXCEPT ![at[w]] = Advanced(@, spawn, close)]
              /\ spawns' = IF spawn THEN spawns + 1 ELSE spawns
        BY <1>13 DEF WorkerCommits
    <2>2. job' \in [Jobs -> Job]
        BY <2>1, JobRows DEF RowsTyped
    <2>3. spawns' \in 0..MaxSpawns
        BY <2>1, SubmissionAssumption DEF RowsTyped
    <2> QED BY <1>13, <2>2, <2>3, EndTyped DEF WorkerCommits, RowsTyped, pass
<1>14. ASSUME PassStarts PROVE LocksTyped' /\ RowsTyped'
    <2>1. /\ Go(Reconciler, "scan") /\ UNCHANGED locks
          /\ name' \in [Procs -> Names \cup {NoName}] /\ at' \in [Procs -> Jobs \cup {NoJob}]
        BY <1>14 DEF PassStarts, Begin, LocksTyped, NoJob
    <2> QED BY <1>14, <2>1, GoTyped DEF PassStarts, RowsTyped
<1>15. ASSUME NEW j \in Jobs, PassTakes(j) PROVE LocksTyped' /\ RowsTyped'
    <2>1. /\ Go(Reconciler, "root") /\ UNCHANGED locks
          /\ name' \in [Procs -> Names \cup {NoName}] /\ at' \in [Procs -> Jobs \cup {NoJob}]
        BY <1>15 DEF PassTakes, LocksTyped
    <2> QED BY <1>15, <2>1, GoTyped DEF PassTakes, RowsTyped
<1>16. ASSUME PassLocks PROVE LocksTyped' /\ RowsTyped'
    <2>1. /\ rowLock[at[Reconciler]] = NoProc /\ UNCHANGED <<keyLock, gate, name, at, job, todo, spawned, spawns>>
          /\ rowLock' = [rowLock EXCEPT ![at[Reconciler]] = Reconciler]
          /\ Go(Reconciler, "gate") \/ Go(Reconciler, "scan")
          /\ closed' = closed \cup {at[Reconciler]} \/ closed' = closed
          /\ at[Reconciler] \in Jobs
        BY <1>16 DEF PassLocks, LockRow, PassHasRoot
    <2>2. UNCHANGED locks \/ \E j \in Jobs : LockRow(Reconciler, j)
        BY <2>1 DEF LocksTyped, locks, LockRow
    <2> QED BY <2>1, <2>2, GoTyped DEF LocksTyped, RowsTyped
<1>17. ASSUME PassAsksGate PROVE LocksTyped' /\ RowsTyped'
    <2>1. at[Reconciler] \in Jobs /\ UNCHANGED <<job, todo, closed>>
          /\ Go(Reconciler, "scan") /\ LockGate(Reconciler) /\ UNCHANGED <<name, at>>
        BY <1>17 DEF PassAsksGate, PassHasRoot
    <2>2. spawns' \in 0..MaxSpawns /\ (spawned' = spawned \cup {at[Reconciler]} \/ spawned' = spawned)
        BY <1>17, SubmissionAssumption DEF PassAsksGate, RowsTyped
    <2> QED BY <2>1, <2>2, GoTyped DEF LocksTyped, RowsTyped
<1>18. ASSUME PassCommits PROVE LocksTyped' /\ RowsTyped'
    BY <1>18, EndTyped, ReconciledTyped DEF PassCommits, PassEnds, RowsTyped
<1>19. ASSUME PassFails PROVE LocksTyped' /\ RowsTyped'
    BY <1>19, EndTyped DEF PassFails, PassEnds, RowsTyped
<1>20. ASSUME NEW p \in Procs, DeadlockVictim(p) PROVE LocksTyped' /\ RowsTyped'
    BY <1>20, EndTyped DEF DeadlockVictim, PassEnds, RowsTyped, pass
<1>21. ASSUME NEW j \in Jobs, Expire(j) \/ CallbackSettles(j) PROVE LocksTyped' /\ RowsTyped'
    <2>1. \A d \in Job : [d EXCEPT !.expired = TRUE] \in Job /\ [d EXCEPT !.phase = "settled"] \in Job
        BY DEF Job
    <2>2. job' \in [Jobs -> Job]
        <3>1. \/ job' = [job EXCEPT ![j] = [job[j] EXCEPT !.expired = TRUE]]
              \/ job' = [job EXCEPT ![j] = [job[j] EXCEPT !.phase = "settled"]]
            BY <1>21 DEF Expire, CallbackSettles
        <3>2. job[j] \in Job
            BY DEF RowsTyped
        <3> QED BY <2>1, <3>1, <3>2 DEF RowsTyped
    <2> QED BY <1>21, <2>2 DEF Expire, CallbackSettles, LocksTyped, RowsTyped, locks, pass
<1>22. ASSUME UNCHANGED vars PROVE LocksTyped' /\ RowsTyped'
    BY <1>22 DEF vars, LocksTyped, RowsTyped
<1> QED BY <1>1, <1>2, <1>3, <1>4, <1>5, <1>6, <1>7, <1>8, <1>9, <1>10, <1>11, <1>12, <1>13, <1>14,
           <1>15, <1>16, <1>17, <1>18, <1>19, <1>20, <1>21, <1>22
        DEF Next, ClientStep, OperatorStep, WorkerStep, PassStep

\* Every reachable state is well typed, and an idle process holds no lock.
THEOREM SubmissionTypeCorrect == Spec => []TypeOK
<1>1. Init => PassHasRoot
    BY OneRole DEF Init, PassHasRoot
<1> QED BY <1>1, SubmissionTypeInit, SubmissionTypeStep, RootStep, PTL DEF Spec

-----------------------------------------------------------------------------
(* Who does what, and who may hold which lock.                              *)

Roles ==
    /\ \A c \in Clients : pc[c] \in {"idle", "key", "gate", "commit"} /\ (pc[c] # "idle" => name[c] \in Names)
    /\ pc[Operator] \in {"idle", "key", "commit"}
    /\ \A w \in Workers : pc[w] \in {"idle", "root", "gate", "commit"}
    /\ pc[Reconciler] \in {"idle", "scan", "root", "gate"}

\* The transactions that have their key, and go on to write under it.
Claims(p) ==
    \/ p \in Clients /\ pc[p] \in {"gate", "commit"}
    \/ p = Operator /\ pc[p] = "commit"

HoldsRightly(p) ==
    /\ (\E n \in Names : keyLock[n] = p) => Claims(p)
    /\ gate = p => (p \in Clients \cup Workers /\ pc[p] = "commit") \/ p = Reconciler
    /\ (\E j \in Jobs : rowLock[j] = p) =>
           \/ p = Operator
           \/ p \in Workers /\ pc[p] \in {"gate", "commit"}
           \/ p = Reconciler

Holders == \A p \in Procs : HoldsRightly(p)

\* A step of p neither takes nor releases a lock of another transaction.
LocksKept(p) ==
    \A q \in Procs : q # p =>
        /\ \A n \in Names : keyLock'[n] = q <=> keyLock[n] = q
        /\ \A j \in Jobs : rowLock'[j] = q <=> rowLock[j] = q
        /\ gate' = q <=> gate = q

LEMMA EndMoves ==
    ASSUME LocksTyped, NEW p \in Procs, End(p)
    PROVE  Others(p) /\ LocksKept(p) /\ pc'[p] = "idle"
<1>1. Others(p) /\ pc'[p] = "idle"
    BY DEF End, Go, LocksTyped, Others
<1>2. LocksKept(p)
    BY SubmissionAssumption DEF End, LocksTyped, LocksKept
<1> QED BY <1>1, <1>2

LEMMA LockMoves ==
    ASSUME LocksTyped, NEW p \in Procs,
           \/ UNCHANGED locks \/ LockKey(p) \/ LockGate(p) \/ LockRow(p, at[p]) \/ \E j \in Jobs : LockRow(p, j)
    PROVE  LocksKept(p)
<1>1. NoProc \notin Procs
    BY SubmissionAssumption
<1>2. CASE UNCHANGED locks
    BY <1>2 DEF locks, LocksKept
<1>3. CASE LockKey(p)
    BY <1>1, <1>3 DEF LockKey, LocksKept, LocksTyped
<1>4. CASE LockGate(p)
    BY <1>1, <1>4 DEF LockGate, LocksKept, LocksTyped
<1>5. CASE LockRow(p, at[p]) \/ \E j \in Jobs : LockRow(p, j)
    BY <1>1, <1>5 DEF LockRow, LocksKept, LocksTyped
<1> QED BY <1>2, <1>3, <1>4, <1>5

LEMMA ClientMoves ==
    ASSUME LocksTyped, NEW c \in Clients, Request(c) \/ ClientStep(c) \/ RequestFails(c)
    PROVE  Others(c) /\ LocksKept(c)
<1> USE OneRole
<1>1. CASE Request(c) \/ FindKey(c) \/ Admit(c)
    <2>1. LocksKept(c)
        BY <1>1, LockMoves DEF Request, FindKey, Admit
    <2>2. Others(c)
        BY <1>1 DEF Request, FindKey, Admit, Begin, Go, LocksTyped, Others
    <2> QED BY <2>1, <2>2
<1>2. CASE AnswerExisting(c) \/ QueueFull(c) \/ Create(c) \/ RequestFails(c)
    BY <1>2, EndMoves DEF AnswerExisting, QueueFull, Create, RequestFails
<1> QED BY <1>1, <1>2 DEF ClientStep

LEMMA OperatorMoves ==
    ASSUME LocksTyped, OperatorStep \/ \E j \in Jobs : Restore(j)
    PROVE  Others(Operator) /\ LocksKept(Operator)
<1> USE OneRole
<1>1. CASE RestoreKey \/ \E j \in Jobs : Restore(j)
    <2>1. LocksKept(Operator)
        BY <1>1, LockMoves DEF Restore, LockFamily, RestoreKey
    <2>2. Others(Operator)
        BY <1>1 DEF Restore, RestoreKey, Begin, Go, LocksTyped, Others
    <2> QED BY <2>1, <2>2
<1>2. CASE RestoreRefused \/ RestoreCommits
    BY <1>2, EndMoves DEF RestoreRefused, RestoreCommits
<1> QED BY <1>1, <1>2 DEF OperatorStep

LEMMA WorkerMoves ==
    ASSUME LocksTyped, NEW w \in Workers, WorkerStep(w) \/ \E j \in Jobs : ChildEnds(w, j)
    PROVE  Others(w) /\ LocksKept(w)
<1> USE OneRole
<1>1. CASE AdvanceRoot(w) \/ AskGate(w) \/ \E j \in Jobs : ChildEnds(w, j)
    <2>1. LocksKept(w)
        BY <1>1, LockMoves DEF AdvanceRoot, AskGate, ChildEnds
    <2>2. Others(w)
        BY <1>1 DEF AdvanceRoot, AskGate, ChildEnds, Begin, Go, LocksTyped, Others
    <2> QED BY <2>1, <2>2
<1>2. CASE WorkerCommits(w)
    BY <1>2, EndMoves DEF WorkerCommits
<1> QED BY <1>1, <1>2 DEF WorkerStep

LEMMA PassMoves ==
    ASSUME LocksTyped, PassStarts \/ PassStep
    PROVE  Others(Reconciler) /\ LocksKept(Reconciler)
<1> USE OneRole
<1>1. CASE PassStarts \/ PassLocks \/ PassAsksGate \/ \E j \in Jobs : PassTakes(j)
    <2>1. LocksKept(Reconciler)
        BY <1>1, LockMoves DEF PassStarts, PassLocks, PassAsksGate, PassTakes
    <2>2. Others(Reconciler)
        BY <1>1 DEF PassStarts, PassLocks, PassAsksGate, PassTakes, Begin, Go, LocksTyped, Others
    <2> QED BY <2>1, <2>2
<1>2. CASE PassCommits \/ PassFails
    BY <1>2, EndMoves DEF PassCommits, PassFails, PassEnds
<1> QED BY <1>1, <1>2 DEF PassStep

LEMMA VictimMoves ==
    ASSUME LocksTyped, NEW p \in Procs, DeadlockVictim(p)
    PROVE  Others(p) /\ LocksKept(p) /\ End(p)
BY EndMoves DEF DeadlockVictim, PassEnds

\* A step that only changes one Job from the outside.
Outside == \E j \in Jobs : DeleteFamily(j) \/ Expire(j) \/ CallbackSettles(j)

LEMMA OutsideMoves == ASSUME Outside \/ UNCHANGED vars PROVE UNCHANGED <<pc, name, at, locks, pass, spawns>>
BY DEF Outside, DeleteFamily, Expire, CallbackSettles, vars, locks, pass

LEMMA NextCases ==
    ASSUME [Next]_vars
    PROVE  \/ \E c \in Clients : Request(c) \/ ClientStep(c) \/ RequestFails(c)
           \/ OperatorStep \/ \E j \in Jobs : Restore(j)
           \/ \E w \in Workers : WorkerStep(w) \/ \E j \in Jobs : ChildEnds(w, j)
           \/ PassStarts \/ PassStep
           \/ \E p \in Procs : DeadlockVictim(p)
           \/ Outside \/ UNCHANGED vars
BY DEF Next, Outside

LEMMA RolesStep == TypeOK /\ Roles /\ [Next]_vars => Roles'
<1> SUFFICES ASSUME LocksTyped, Roles, [Next]_vars PROVE Roles'
    BY Typed
<1> USE OneRole DEF Roles
<1>1. ASSUME NEW c \in Clients, Request(c) \/ ClientStep(c) \/ RequestFails(c) PROVE Roles'
    <2>1. Others(c)
        BY <1>1, ClientMoves
    <2>2. pc'[c] \in {"idle", "key", "gate", "commit"} /\ (pc'[c] # "idle" => name'[c] \in Names)
        BY <1>1 DEF Request, ClientStep, RequestFails, FindKey, AnswerExisting, Admit, QueueFull, Create,
           Begin, End, Go, LocksTyped
    <2> QED BY <2>1, <2>2 DEF Others
<1>2. ASSUME OperatorStep \/ \E j \in Jobs : Restore(j) PROVE Roles'
    <2>1. Others(Operator)
        BY <1>2, OperatorMoves
    <2>2. pc'[Operator] \in {"idle", "key", "commit"}
        BY <1>2 DEF OperatorStep, Restore, RestoreKey, RestoreRefused, RestoreCommits, Begin, End, Go, LocksTyped
    <2> QED BY <2>1, <2>2 DEF Others
<1>3. ASSUME NEW w \in Workers, WorkerStep(w) \/ \E j \in Jobs : ChildEnds(w, j) PROVE Roles'
    <2>1. Others(w)
        BY <1>3, WorkerMoves
    <2>2. pc'[w] \in {"idle", "root", "gate", "commit"}
        BY <1>3 DEF WorkerStep, ChildEnds, AdvanceRoot, AskGate, WorkerCommits, Begin, End, Go, LocksTyped
    <2> QED BY <2>1, <2>2 DEF Others
<1>4. ASSUME PassStarts \/ PassStep PROVE Roles'
    <2>1. Others(Reconciler)
        BY <1>4, PassMoves
    <2>2. pc'[Reconciler] \in {"idle", "scan", "root", "gate"}
        BY <1>4 DEF PassStarts, PassStep, PassTakes, PassLocks, PassAsksGate, PassCommits, PassFails, PassEnds,
           Begin, End, Go, LocksTyped
    <2> QED BY <2>1, <2>2 DEF Others
<1>5. ASSUME NEW p \in Procs, DeadlockVictim(p) PROVE Roles'
    <2>1. Others(p) /\ pc'[p] = "idle"
        BY <1>5, VictimMoves, EndMoves
    <2> QED BY <2>1 DEF Others
<1>6. ASSUME Outside \/ UNCHANGED vars PROVE Roles'
    BY <1>6, OutsideMoves
<1> QED BY NextCases, <1>1, <1>2, <1>3, <1>4, <1>5, <1>6

\* What holds of the others is not disturbed, so only the mover matters.
LEMMA OthersHold ==
    ASSUME Holders, NEW p \in Procs, Others(p), LocksKept(p), HoldsRightly(p)'
    PROVE  Holders'
<1> SUFFICES ASSUME NEW q \in Procs, q # p PROVE HoldsRightly(q)'
    BY DEF Holders
<1> QED BY DEF Holders, HoldsRightly, Claims, Others, LocksKept

LEMMA HoldersStep == TypeOK /\ TypeOK' /\ Roles /\ Holders /\ [Next]_vars => Holders'
<1> SUFFICES ASSUME LocksTyped, LocksTyped', Roles, Holders, [Next]_vars PROVE Holders'
    BY Typed DEF TypeOK, LocksTyped
<1> USE OneRole
<1>1. ASSUME NEW p \in Procs, pc'[p] = "idle" PROVE HoldsRightly(p)'
    BY <1>1 DEF LocksTyped, HoldsRightly
<1>2. ASSUME NEW c \in Clients, Request(c) \/ ClientStep(c) \/ RequestFails(c) PROVE HoldsRightly(c)'
    <2>1. HoldsRightly(c)
        BY DEF Holders
    <2>2. CASE Request(c) \/ FindKey(c) \/ Admit(c)
        BY <2>1, <2>2 DEF Request, FindKey, Admit, LockKey, LockGate, locks, Begin, Go, LocksTyped,
           HoldsRightly, Claims
    <2>3. CASE AnswerExisting(c) \/ QueueFull(c) \/ Create(c) \/ RequestFails(c)
        BY <1>1, <2>3, EndMoves DEF AnswerExisting, QueueFull, Create, RequestFails
    <2> QED BY <1>2, <2>2, <2>3 DEF ClientStep
<1>3. ASSUME OperatorStep \/ \E j \in Jobs : Restore(j) PROVE HoldsRightly(Operator)'
    <2>1. HoldsRightly(Operator)
        BY DEF Holders
    <2>2. CASE RestoreKey \/ \E j \in Jobs : Restore(j)
        BY <2>1, <2>2 DEF Restore, LockFamily, RestoreKey, LockKey, LockRow, Begin, Go, LocksTyped,
           HoldsRightly, Claims
    <2>3. CASE RestoreRefused \/ RestoreCommits
        BY <1>1, <2>3, EndMoves DEF RestoreRefused, RestoreCommits
    <2> QED BY <1>3, <2>2, <2>3 DEF OperatorStep
<1>4. ASSUME NEW w \in Workers, WorkerStep(w) \/ \E j \in Jobs : ChildEnds(w, j) PROVE HoldsRightly(w)'
    <2>1. HoldsRightly(w)
        BY DEF Holders
    <2>2. CASE AdvanceRoot(w) \/ AskGate(w) \/ \E j \in Jobs : ChildEnds(w, j)
        BY <2>1, <2>2 DEF ChildEnds, AdvanceRoot, AskGate, LockRow, LockGate, locks, Begin, Go, LocksTyped,
           HoldsRightly, Claims
    <2>3. CASE WorkerCommits(w)
        BY <1>1, <2>3, EndMoves DEF WorkerCommits
    <2> QED BY <1>4, <2>2, <2>3 DEF WorkerStep
<1>5. ASSUME PassStarts \/ PassStep PROVE HoldsRightly(Reconciler)'
    <2>1. HoldsRightly(Reconciler)
        BY DEF Holders
    <2>2. CASE PassStarts \/ PassLocks \/ PassAsksGate \/ \E j \in Jobs : PassTakes(j)
        BY <2>1, <2>2 DEF PassStarts, PassLocks, PassAsksGate, PassTakes, LockRow, LockGate, locks,
           HoldsRightly, Claims
    <2>3. CASE PassCommits \/ PassFails
        BY <1>1, <2>3, EndMoves DEF PassCommits, PassFails, PassEnds
    <2> QED BY <1>5, <2>2, <2>3 DEF PassStep
<1>6. ASSUME NEW c \in Clients, Request(c) \/ ClientStep(c) \/ RequestFails(c) PROVE Holders'
    BY <1>2, <1>6, ClientMoves, OthersHold
<1>7. ASSUME OperatorStep \/ \E j \in Jobs : Restore(j) PROVE Holders'
    BY <1>3, <1>7, OperatorMoves, OthersHold
<1>8. ASSUME NEW w \in Workers, WorkerStep(w) \/ \E j \in Jobs : ChildEnds(w, j) PROVE Holders'
    BY <1>4, <1>8, WorkerMoves, OthersHold
<1>9. ASSUME PassStarts \/ PassStep PROVE Holders'
    BY <1>5, <1>9, PassMoves, OthersHold
<1>10. ASSUME NEW p \in Procs, DeadlockVictim(p) PROVE Holders'
    BY <1>1, <1>10, VictimMoves, EndMoves, OthersHold
<1>11. ASSUME Outside \/ UNCHANGED vars PROVE Holders'
    BY <1>11, OutsideMoves DEF Holders, HoldsRightly, Claims, locks
<1> QED BY NextCases, <1>6, <1>7, <1>8, <1>9, <1>10, <1>11

-----------------------------------------------------------------------------
(* Families.                                                                *)

\* What FamilyAgrees says of one Job, and that every created Job has a name.
Sound(d) ==
    /\ IF d.deleted
       THEN d.phase = "settled" /\ d.key = "deleted" /\ d.child \in {"none", "deleted"}
       ELSE d.key # "deleted" /\ d.child # "deleted"
    /\ IF d.phase = "absent" THEN d.child = "none" ELSE d.name \in Names

Families == \A j \in Jobs : Sound(job[j])

\* A restore keeps its family locked and deleted until it commits.
RestorerHolds ==
    pc[Operator] # "idle" =>
        /\ at[Operator] \in Jobs /\ rowLock[at[Operator]] = Operator
        /\ job[at[Operator]].deleted /\ job[at[Operator]].name = name[Operator]

\* A worker has its root's active child to itself.
WorkersHold ==
    /\ \A w \in Workers : pc[w] # "idle" => at[w] \in Jobs /\ job[at[w]].child = "active"
    /\ \A v, w \in Workers : v # w /\ pc[v] # "idle" /\ pc[w] # "idle" => at[v] # at[w]

\* The roots the pass fans out are locked by it and not deleted.
PassHolds ==
    /\ \A j \in todo : job[j].phase # "absent"
    /\ pc[Reconciler] \in {"root", "gate"} => job[at[Reconciler]].phase # "absent"
    /\ pc[Reconciler] = "gate" => rowLock[at[Reconciler]] = Reconciler /\ ~job[at[Reconciler]].deleted
    /\ \A j \in spawned : rowLock[j] = Reconciler /\ ~job[j].deleted /\ job[j].phase # "absent"

LEMMA SoundRows ==
    ASSUME NEW d \in Job, Sound(d)
    PROVE  /\ Deletable(d) => Sound(Deleted(d))
           /\ d.deleted => Sound(Restored(d))
           /\ \A s, c \in BOOLEAN : d.child = "active" => Sound(Advanced(d, s, c))
           /\ d.phase = "settled" => Sound([d EXCEPT !.expired = TRUE])
           /\ d.phase = "ended" => Sound([d EXCEPT !.phase = "settled"])
<1> USE DEF Sound, Job
<1>1. Deletable(d) => Sound(Deleted(d))
    BY DEF Deletable, Deleted
<1>2. d.deleted => Sound(Restored(d))
    BY DEF Restored
<1>3. \A s, c \in BOOLEAN : d.child = "active" => Sound(Advanced(d, s, c))
    BY DEF Advanced
<1> QED BY <1>1, <1>2, <1>3

\* What a commit of the pass makes of one Job.
LEMMA CleanedRow ==
    ASSUME RowsTyped, Families, PassHolds, NEW j \in Jobs
    PROVE  /\ Sound(Cleaned(j))
           /\ Cleaned(j).name = job[j].name
           /\ job[j].phase # "absent" => Cleaned(j).phase # "absent"
           /\ job[j].child = "active" => Cleaned(j).child = "active"
           /\ job[j].deleted => Cleaned(j).deleted
           /\ Cleaned(j).deleted /\ ~job[j].deleted => rowLock[j] \in {NoProc, Reconciler}
           /\ Cleaned(j).key = "active" => job[j].key = "active"
<1> DEFINE d == Reconciled(j)
<1>1. job[j] \in Job /\ Sound(job[j]) /\ d \in Job
    BY ReconciledTyped DEF RowsTyped, Families
<1>2. j \in spawned => ~job[j].deleted /\ job[j].phase # "absent"
    BY DEF PassHolds
<1>3. /\ Sound(d) /\ d.name = job[j].name /\ d.key = job[j].key /\ d.deleted = job[j].deleted
      /\ job[j].phase # "absent" => d.phase # "absent"
      /\ job[j].child = "active" => d.child = "active"
    BY <1>1, <1>2 DEF Reconciled, Sound, Job
<1>4. CASE d.expired /\ Deletable(d) /\ rowLock[j] \in {NoProc, Reconciler}
    <2>1. Cleaned(j) = Deleted(d)
        BY <1>4 DEF Cleaned
    <2>2. Sound(Deleted(d))
        BY <1>1, <1>3, <1>4, SoundRows
    <2>3. d.child # "active"
        BY <1>4 DEF Deletable
    <2>4. /\ Deleted(d).name = d.name /\ Deleted(d).phase = d.phase
          /\ Deleted(d).deleted /\ Deleted(d).key = "deleted"
        BY <1>1 DEF Deleted, Job
    <2> QED BY <1>3, <1>4, <2>1, <2>2, <2>3, <2>4
<1>5. CASE ~(d.expired /\ Deletable(d) /\ rowLock[j] \in {NoProc, Reconciler})
    <2>1. Cleaned(j) = d
        BY <1>5 DEF Cleaned
    <2> QED BY <1>3, <2>1
<1> QED BY <1>4, <1>5

\* How any step changes one Job.
JobChange(j) ==
    /\ Sound(job[j])'
    /\ job[j].phase # "absent" => job'[j].phase # "absent" /\ job'[j].name = job[j].name
    /\ job[j].child = "active" =>
           job'[j].child = "active" \/ \E w \in Workers : pc[w] # "idle" /\ at[w] = j /\ pc'[w] = "idle"
    /\ job[j].deleted => job'[j].deleted \/ (at[Operator] = j /\ pc[Operator] # "idle" /\ pc'[Operator] = "idle")
    /\ job'[j].deleted /\ ~job[j].deleted =>
           rowLock[j] = NoProc \/ (PassEnds /\ rowLock[j] \in {NoProc, Reconciler})

LEMMA Unchanged ==
    ASSUME Families, NEW j \in Jobs, job'[j] = job[j]
    PROVE  JobChange(j)
BY DEF JobChange, Families, Sound

LEMMA JobStep ==
    ASSUME LocksTyped, RowsTyped, Roles, Families, RestorerHolds, WorkersHold, PassHolds, [Next]_vars,
           NEW j \in Jobs
    PROVE  JobChange(j)
<1> USE OneRole
<1>1. job[j] \in Job /\ Sound(job[j])
    BY DEF RowsTyped, Families
<1>2. ASSUME NEW c \in Clients, Create(c) PROVE JobChange(j)
    <2>1. PICK i \in Jobs : Fresh(i) /\ job' = [job EXCEPT ![i] = NewJob(name[c])]
        BY <1>2 DEF Create
    <2>2. CASE i = j
        <3>1. job'[j] = NewJob(name[c]) /\ job[j].phase = "absent" /\ job[j].child = "none" /\ ~job[j].deleted
            BY <1>1, <2>1, <2>2 DEF Fresh, Sound, RowsTyped
        <3>2. name[c] \in Names
            BY <1>2 DEF Create, Roles
        <3> QED BY <3>1, <3>2 DEF JobChange, Sound, NewJob
    <2>3. CASE i # j
        BY <2>1, <2>3, Unchanged DEF RowsTyped
    <2> QED BY <2>2, <2>3
<1>3. ASSUME NEW i \in Jobs, DeleteFamily(i) PROVE JobChange(j)
    <2>1. CASE i = j
        <3>1. job'[j] = Deleted(job[j]) /\ Deletable(job[j]) /\ rowLock[j] = NoProc
            BY <1>3, <2>1 DEF DeleteFamily, RowsTyped
        <3>2. Sound(job'[j])
            BY <1>1, <3>1, SoundRows
        <3>3. job[j].child # "active" /\ ~job[j].deleted /\ job'[j].name = job[j].name /\ job'[j].phase = job[j].phase
            BY <1>1, <3>1 DEF Deletable, Deleted, Job
        <3> QED BY <3>1, <3>2, <3>3 DEF JobChange
    <2>2. CASE i # j
        BY <1>3, <2>2, Unchanged DEF DeleteFamily, RowsTyped
    <2> QED BY <2>1, <2>2
<1>4. ASSUME RestoreCommits PROVE JobChange(j)
    <2>1. pc[Operator] = "commit" /\ pc'[Operator] = "idle"
        BY <1>4, EndMoves DEF RestoreCommits
    <2>2. CASE at[Operator] = j
        <3>1. job'[j] = Restored(job[j]) /\ job[j].deleted
            BY <1>4, <2>1, <2>2 DEF RestoreCommits, RestorerHolds, RowsTyped
        <3>2. Sound(job'[j])
            BY <1>1, <3>1, SoundRows
        <3>3. job[j].child # "active" /\ ~job'[j].deleted /\ job'[j].name = job[j].name /\ job'[j].phase = job[j].phase
            BY <1>1, <3>1 DEF Restored, Sound, Job
        <3> QED BY <2>1, <2>2, <3>1, <3>2, <3>3 DEF JobChange
    <2>3. CASE at[Operator] # j
        BY <1>4, <2>3, Unchanged DEF RestoreCommits, RowsTyped
    <2> QED BY <2>2, <2>3
<1>5. ASSUME NEW w \in Workers, WorkerCommits(w) PROVE JobChange(j)
    <2>1. pc[w] = "commit" /\ pc'[w] = "idle"
        BY <1>5, EndMoves DEF WorkerCommits
    <2>2. PICK s \in BOOLEAN, c \in BOOLEAN : job' = [job EXCEPT ![at[w]] = Advanced(@, s, c)]
        BY <1>5 DEF WorkerCommits
    <2>3. CASE at[w] = j
        <3>1. job'[j] = Advanced(job[j], s, c) /\ job[j].child = "active"
            BY <2>1, <2>2, <2>3 DEF WorkersHold, RowsTyped
        <3>2. Sound(job'[j])
            BY <1>1, <3>1, SoundRows
        <3>3. ~job[j].deleted /\ ~job'[j].deleted /\ job'[j].name = job[j].name
              /\ (job[j].phase # "absent" => job'[j].phase # "absent")
            BY <1>1, <3>1 DEF Advanced, Sound, Job
        <3> QED BY <2>1, <2>3, <3>2, <3>3 DEF JobChange
    <2>4. CASE at[w] # j
        BY <2>2, <2>4, Unchanged DEF RowsTyped
    <2> QED BY <2>3, <2>4
<1>6. ASSUME PassCommits PROVE JobChange(j)
    <2>1. job'[j] = Cleaned(j) /\ PassEnds
        BY <1>6 DEF PassCommits
    <2> QED BY <2>1, CleanedRow DEF JobChange
<1>7. ASSUME NEW i \in Jobs, Expire(i) \/ CallbackSettles(i) PROVE JobChange(j)
    <2>1. CASE i = j
        <3>1. \/ job[j].phase = "settled" /\ job'[j] = [job[j] EXCEPT !.expired = TRUE]
              \/ job[j].phase = "ended" /\ job'[j] = [job[j] EXCEPT !.phase = "settled"]
            BY <1>7, <2>1 DEF Expire, CallbackSettles, RowsTyped
        <3>2. Sound(job'[j])
            BY <1>1, <3>1, SoundRows
        <3>3. job'[j].deleted = job[j].deleted /\ job'[j].name = job[j].name /\ job'[j].child = job[j].child
              /\ job'[j].phase # "absent"
            BY <1>1, <3>1 DEF Job
        <3> QED BY <3>2, <3>3 DEF JobChange
    <2>2. CASE i # j
        BY <1>7, <2>2, Unchanged DEF Expire, CallbackSettles, RowsTyped
    <2> QED BY <2>1, <2>2
<1>8. ASSUME UNCHANGED job PROVE JobChange(j)
    BY <1>8, Unchanged
<1> QED BY <1>2, <1>3, <1>4, <1>5, <1>6, <1>7, <1>8
        DEF Next, vars, ClientStep, OperatorStep, WorkerStep, PassStep, Request, RequestFails, FindKey,
            AnswerExisting, Admit, QueueFull, Restore, RestoreKey, RestoreRefused, ChildEnds, AdvanceRoot,
            AskGate, PassStarts, PassTakes, PassLocks, PassAsksGate, PassFails, DeadlockVictim

\* The four invariants hold together.
FamilyInv == Families /\ RestorerHolds /\ WorkersHold /\ PassHolds

LEMMA RestorerStep ==
    ASSUME LocksTyped, LocksTyped', RowsTyped, Roles, FamilyInv, [Next]_vars
    PROVE  RestorerHolds'
<1> USE OneRole DEF FamilyInv
<1>1. \A j \in Jobs : JobChange(j)
    BY JobStep
<1>2. \A j \in Jobs : job[j].deleted => job[j].phase = "settled" /\ job[j].name \in Names
    BY DEF Families, Sound
<1>3. ASSUME NEW p \in Procs, p # Operator, Others(p), LocksKept(p) PROVE RestorerHolds'
    BY <1>1, <1>2, <1>3 DEF Others, LocksKept, RestorerHolds, JobChange
<1>4. ASSUME NEW j \in Jobs, Restore(j) PROVE RestorerHolds'
    BY <1>4 DEF Restore, LockFamily, LockRow, Begin, Go, LocksTyped, RestorerHolds
<1>5. ASSUME RestoreKey PROVE RestorerHolds'
    BY <1>5 DEF RestoreKey, LockKey, Go, LocksTyped, RestorerHolds
<1>6. ASSUME RestoreRefused \/ RestoreCommits PROVE RestorerHolds'
    BY <1>6, EndMoves DEF RestoreRefused, RestoreCommits, RestorerHolds
<1>7. ASSUME NEW p \in Procs, DeadlockVictim(p) PROVE RestorerHolds'
    <2>1. Others(p) /\ LocksKept(p) /\ pc'[p] = "idle"
        BY <1>7, VictimMoves, EndMoves
    <2> QED BY <1>3, <2>1 DEF RestorerHolds
<1>8. ASSUME Outside \/ UNCHANGED vars PROVE RestorerHolds'
    <2>1. UNCHANGED <<pc, name, at, locks>>
        BY <1>8, OutsideMoves
    <2> QED BY <1>1, <1>2, <2>1 DEF RestorerHolds, JobChange, locks
<1> QED BY NextCases, <1>3, <1>4, <1>5, <1>6, <1>7, <1>8, ClientMoves, WorkerMoves, PassMoves DEF OperatorStep

LEMMA WorkersStep ==
    ASSUME LocksTyped, LocksTyped', RowsTyped, Roles, FamilyInv, [Next]_vars
    PROVE  WorkersHold'
<1> USE OneRole DEF FamilyInv
<1>1. \A j \in Jobs : JobChange(j)
    BY JobStep
<1>2. ASSUME NEW v \in Workers, pc'[v] # "idle", at'[v] = at[v], pc[v] # "idle"
      PROVE  at'[v] \in Jobs /\ job'[at'[v]].child = "active"
    <2>1. at[v] \in Jobs /\ job[at[v]].child = "active"
        BY <1>2 DEF WorkersHold
    <2>2. ~ \E w \in Workers : pc[w] # "idle" /\ at[w] = at[v] /\ pc'[w] = "idle"
        BY <1>2 DEF WorkersHold
    <2> QED BY <1>1, <1>2, <2>1, <2>2 DEF JobChange
<1>3. ASSUME \A v \in Workers : pc'[v] # "idle" => pc[v] # "idle" /\ at'[v] = at[v]
      PROVE  WorkersHold'
    BY <1>2, <1>3 DEF WorkersHold
<1>4. ASSUME NEW p \in Procs, p \notin Workers, Others(p) PROVE WorkersHold'
    BY <1>3, <1>4 DEF Others
<1>5. ASSUME NEW w \in Workers, NEW j \in Jobs, ChildEnds(w, j) PROVE WorkersHold'
    <2>1. /\ job' = job /\ job[j].child = "active" /\ \A v \in Workers : at[v] # j
          /\ pc' = [pc EXCEPT ![w] = "root"] /\ at' = [at EXCEPT ![w] = j]
        BY <1>5 DEF ChildEnds, Begin, Go
    <2>2. at'[w] = j /\ \A v \in Workers : v # w => at'[v] = at[v] /\ pc'[v] = pc[v]
        BY <2>1 DEF LocksTyped
    <2> QED BY <2>1, <2>2 DEF WorkersHold
<1>6. ASSUME NEW w \in Workers, AdvanceRoot(w) \/ AskGate(w) PROVE WorkersHold'
    <2>1. Others(w)
        BY <1>6, WorkerMoves DEF WorkerStep
    <2>2. at' = at /\ pc[w] # "idle"
        BY <1>6 DEF AdvanceRoot, AskGate
    <2> QED BY <1>3, <2>1, <2>2 DEF Others
<1>7. ASSUME NEW p \in Procs, End(p) PROVE WorkersHold'
    <2>1. Others(p) /\ pc'[p] = "idle"
        BY <1>7, EndMoves
    <2> QED BY <1>3, <2>1 DEF Others
<1>8. ASSUME Outside \/ UNCHANGED vars PROVE WorkersHold'
    <2>1. UNCHANGED <<pc, at>>
        BY <1>8, OutsideMoves
    <2> QED BY <1>3, <2>1
<1> QED BY NextCases, <1>4, <1>5, <1>6, <1>7, <1>8, ClientMoves, OperatorMoves, PassMoves, VictimMoves
        DEF WorkerStep, WorkerCommits

LEMMA PassHoldsStep ==
    ASSUME LocksTyped, LocksTyped', RowsTyped, PassHasRoot, Roles, FamilyInv, [Next]_vars
    PROVE  PassHolds'
<1> USE OneRole DEF FamilyInv
<1>1. \A j \in Jobs : JobChange(j)
    BY JobStep
<1>2. Reconciler # NoProc /\ todo \subseteq Jobs /\ spawned \subseteq Jobs
    BY DEF RowsTyped
\* While the pass holds a row and goes on, nobody else deletes its Job.
<1>3. ASSUME NEW j \in Jobs, rowLock[j] = Reconciler, ~job[j].deleted, ~PassEnds PROVE ~job'[j].deleted
    BY <1>1, <1>2, <1>3 DEF JobChange
<1>4. ASSUME ~PassEnds, UNCHANGED <<todo, spawned>>, pc'[Reconciler] = pc[Reconciler],
             at'[Reconciler] = at[Reconciler],
             \A j \in Jobs : rowLock[j] = Reconciler => rowLock'[j] = Reconciler
      PROVE  PassHolds'
    <2>1. \A j \in Jobs : job[j].phase # "absent" => job'[j].phase # "absent"
        BY <1>1 DEF JobChange
    <2>2. pc[Reconciler] \in {"root", "gate"} => at[Reconciler] \in Jobs
        BY DEF PassHasRoot
    <2> QED BY <1>2, <1>3, <1>4, <2>1, <2>2 DEF PassHolds
<1>5. ASSUME NEW p \in Procs, p # Reconciler, Others(p), LocksKept(p), UNCHANGED pass, ~PassEnds PROVE PassHolds'
    BY <1>4, <1>5 DEF Others, LocksKept, pass
<1>6. ASSUME PassEnds PROVE PassHolds'
    BY <1>6, EndMoves DEF PassEnds, PassHolds
<1>7. ASSUME NEW c \in Clients, Request(c) \/ ClientStep(c) \/ RequestFails(c) PROVE PassHolds'
    <2>1. UNCHANGED pass
        BY <1>7 DEF Request, ClientStep, RequestFails, FindKey, AnswerExisting, Admit, QueueFull, Create
    <2> QED BY <1>5, <1>6, <1>7, <2>1, ClientMoves
<1>8. ASSUME OperatorStep \/ \E j \in Jobs : Restore(j) PROVE PassHolds'
    <2>1. UNCHANGED pass
        BY <1>8 DEF OperatorStep, Restore, RestoreKey, RestoreRefused, RestoreCommits
    <2> QED BY <1>5, <1>6, <1>8, <2>1, OperatorMoves
<1>9. ASSUME NEW w \in Workers, WorkerStep(w) \/ \E j \in Jobs : ChildEnds(w, j) PROVE PassHolds'
    <2>1. UNCHANGED pass
        BY <1>9 DEF WorkerStep, ChildEnds, AdvanceRoot, AskGate, WorkerCommits
    <2> QED BY <1>5, <1>6, <1>9, <2>1, WorkerMoves
<1>10. ASSUME PassStarts PROVE PassHolds'
    <2>1. /\ pc[Reconciler] = "idle" /\ pc' = [pc EXCEPT ![Reconciler] = "scan"] /\ job' = job
          /\ todo' = {j \in Jobs : job[j].phase = "open" /\ ~job[j].deleted} /\ spawned' = spawned
        BY <1>10 DEF PassStarts, Begin, Go
    <2>2. spawned = {}
        BY <1>2, <2>1 DEF LocksTyped, PassHolds
    <2> QED BY <2>1, <2>2 DEF LocksTyped, PassHolds
<1>11. ASSUME NEW j \in Jobs, PassTakes(j) PROVE PassHolds'
    <2>1. /\ pc'[Reconciler] = "root" /\ at'[Reconciler] = j /\ job' = job /\ j \in todo
          /\ todo' = todo \ {j} /\ spawned' = spawned /\ rowLock' = rowLock
        BY <1>11 DEF PassTakes, Go, LocksTyped, locks
    <2> QED BY <2>1 DEF PassHolds
<1>12. ASSUME PassLocks PROVE PassHolds'
    <2>1. /\ pc[Reconciler] = "root" /\ pc'[Reconciler] \in {"scan", "gate"} /\ at' = at /\ job' = job
          /\ todo' = todo /\ spawned' = spawned /\ ~job[at[Reconciler]].deleted
          /\ rowLock' = [rowLock EXCEPT ![at[Reconciler]] = Reconciler]
        BY <1>12 DEF PassLocks, LockRow, Go, LocksTyped
    <2>2. at[Reconciler] \in Jobs
        BY <2>1 DEF PassHasRoot
    <2> QED BY <1>2, <2>1, <2>2 DEF LocksTyped, PassHolds
<1>13. ASSUME PassAsksGate PROVE PassHolds'
    <2>1. /\ pc[Reconciler] = "gate" /\ pc'[Reconciler] = "scan" /\ job' = job /\ todo' = todo /\ rowLock' = rowLock
          /\ (spawned' = spawned \cup {at[Reconciler]} \/ spawned' = spawned)
        BY <1>13 DEF PassAsksGate, LockGate, Go, LocksTyped
    <2> QED BY <2>1 DEF PassHolds
<1>14. ASSUME NEW p \in Procs, DeadlockVictim(p) PROVE PassHolds'
    <2>1. CASE p = Reconciler
        BY <1>6, <1>14, <2>1 DEF DeadlockVictim
    <2>2. CASE p # Reconciler
        BY <1>5, <1>6, <1>14, <2>2, VictimMoves DEF DeadlockVictim
    <2> QED BY <2>1, <2>2
<1>15. ASSUME Outside \/ UNCHANGED vars PROVE PassHolds'
    <2>1. UNCHANGED <<pc, at, rowLock, todo, spawned>>
        BY <1>15, OutsideMoves DEF locks, pass
    <2> QED BY <1>4, <1>6, <2>1
<1> QED BY NextCases, <1>6, <1>7, <1>8, <1>9, <1>10, <1>11, <1>12, <1>13, <1>14, <1>15
        DEF PassStep, PassCommits, PassFails

LEMMA FamilyStep ==
    TypeOK /\ TypeOK' /\ PassHasRoot /\ Roles /\ FamilyInv /\ [Next]_vars => FamilyInv'
<1> SUFFICES ASSUME LocksTyped, LocksTyped', RowsTyped, PassHasRoot, Roles, FamilyInv, [Next]_vars
             PROVE  FamilyInv'
    BY Typed DEF TypeOK, LocksTyped
<1>1. Families'
    BY JobStep DEF FamilyInv, JobChange, Families
<1> QED BY <1>1, RestorerStep, WorkersStep, PassHoldsStep DEF FamilyInv

LEMMA FamilyInit == Init => PassHasRoot /\ Roles /\ FamilyInv
<1> SUFFICES ASSUME Init PROVE PassHasRoot /\ Roles /\ FamilyInv
    OBVIOUS
<1> USE OneRole DEF Init
<1>1. PassHasRoot /\ Roles
    BY DEF PassHasRoot, Roles
<1>2. Families
    BY DEF Families, Sound, NoRow
<1>3. RestorerHolds /\ WorkersHold /\ PassHolds
    BY DEF RestorerHolds, WorkersHold, PassHolds
<1> QED BY <1>1, <1>2, <1>3 DEF FamilyInv

\* Families are deleted and restored whole, and only when they have settled, for
\* any number of Jobs, workers and operators' and passes' interleavings.
THEOREM FamilyCorrect == Spec => []FamilyAgrees
<1>1. FamilyInv => FamilyAgrees
    BY DEF FamilyInv, Families, Sound, FamilyAgrees
<1>2. Init => TypeOK /\ PassHasRoot /\ Roles /\ FamilyInv
    BY SubmissionTypeInit, FamilyInit
<1>3. TypeOK /\ PassHasRoot /\ Roles /\ FamilyInv /\ [Next]_vars
        => (TypeOK /\ PassHasRoot /\ Roles /\ FamilyInv)'
    BY SubmissionTypeStep, RootStep, RolesStep, FamilyStep
<1> QED BY <1>1, <1>2, <1>3, PTL DEF Spec

-----------------------------------------------------------------------------
(* Keys.                                                                    *)

\* A claimant holds its key's lock and nobody owns the key; a key has one owner.
KeysClaimed ==
    /\ \A p \in Procs : Claims(p) =>
          /\ name[p] \in Names /\ keyLock[name[p]] = p
          /\ \A j \in Jobs : ~Owns(j, name[p])
    /\ \A n \in Names, i, j \in Jobs : Owns(i, n) /\ Owns(j, n) => i = j

\* Only the commit of a claimant makes a Job own a key.
LEMMA NewOwner ==
    ASSUME LocksTyped, RowsTyped, Roles, FamilyInv, [Next]_vars,
           NEW j \in Jobs, NEW n \in Names, Owns(j, n)', ~Owns(j, n)
    PROVE  /\ \E p \in Procs : Claims(p) /\ name[p] = n /\ End(p) /\ Others(p) /\ pc'[p] = "idle"
           /\ \A i \in Jobs : i # j => job'[i] = job[i]
<1> USE OneRole DEF FamilyInv
<1>1. ASSUME NEW c \in Clients, Create(c)
      PROVE  /\ Claims(c) /\ name[c] = n /\ End(c)
             /\ \A i \in Jobs : i # j => job'[i] = job[i]
    <2>1. PICK i \in Jobs : job' = [job EXCEPT ![i] = NewJob(name[c])]
        BY <1>1 DEF Create
    <2>2. i = j
        BY <2>1 DEF Owns, RowsTyped
    <2>3. job'[j] = NewJob(name[c])
        BY <2>1, <2>2 DEF RowsTyped
    <2>4. name[c] = n
        BY <2>3 DEF Owns, NewJob
    <2> QED BY <1>1, <2>1, <2>2, <2>4 DEF Create, Claims, RowsTyped
<1>2. ASSUME RestoreCommits
      PROVE  /\ Claims(Operator) /\ name[Operator] = n /\ End(Operator)
             /\ \A i \in Jobs : i # j => job'[i] = job[i]
    <2>1. pc[Operator] = "commit" /\ job' = [job EXCEPT ![at[Operator]] = Restored(@)] /\ End(Operator)
        BY <1>2 DEF RestoreCommits
    <2>2. at[Operator] = j
        BY <2>1 DEF Owns, RowsTyped
    <2>3. job[j].name = name[Operator] /\ job'[j] = Restored(job[j]) /\ job[j] \in Job
        BY <2>1, <2>2 DEF RestorerHolds, RowsTyped
    <2>4. job'[j].name = job[j].name
        BY <2>3 DEF Restored, Job
    <2> QED BY <2>1, <2>2, <2>3, <2>4 DEF Owns, Claims, RowsTyped
<1>3. job[j] \in Job
    BY DEF RowsTyped
<1>4. ASSUME NEW i \in Jobs, DeleteFamily(i) PROVE FALSE
    <2>1. job'[j] = job[j] \/ job'[j] = Deleted(job[j])
        BY <1>4 DEF DeleteFamily, RowsTyped
    <2> QED BY <1>3, <2>1 DEF Owns, Deleted, Job
<1>5. ASSUME NEW i \in Jobs, Expire(i) \/ CallbackSettles(i) PROVE FALSE
    <2>1. job'[j].name = job[j].name /\ job'[j].key = job[j].key /\ job'[j].deleted = job[j].deleted
        BY <1>3, <1>5 DEF Expire, CallbackSettles, RowsTyped, Job
    <2> QED BY <2>1 DEF Owns
<1>6. ASSUME NEW w \in Workers, WorkerCommits(w) PROVE FALSE
    <2>1. PICK s \in BOOLEAN, c \in BOOLEAN : job' = [job EXCEPT ![at[w]] = Advanced(@, s, c)]
        BY <1>6 DEF WorkerCommits
    <2>2. job'[j] = job[j] \/ job'[j] = Advanced(job[j], s, c)
        BY <2>1 DEF RowsTyped
    <2>3. LET a == Advanced(job[j], s, c)
          IN  a.name = job[j].name /\ a.key = job[j].key /\ a.deleted = job[j].deleted
        BY <1>3 DEF Advanced, Job
    <2> QED BY <2>2, <2>3 DEF Owns
<1>7. ASSUME PassCommits PROVE FALSE
    <2>1. job'[j] = Cleaned(j)
        BY <1>7 DEF PassCommits
    <2>2. /\ Cleaned(j).name = job[j].name
          /\ job[j].deleted => Cleaned(j).deleted
          /\ Cleaned(j).key = "active" => job[j].key = "active"
        BY CleanedRow
    <2> QED BY <2>1, <2>2 DEF Owns
<1>8. ASSUME UNCHANGED job PROVE FALSE
    BY <1>8 DEF Owns
<1>9. \/ \E c \in Clients : Create(c)
      \/ RestoreCommits
    BY <1>4, <1>5, <1>6, <1>7, <1>8
       DEF Next, vars, ClientStep, OperatorStep, WorkerStep, PassStep, Request, RequestFails, FindKey,
            AnswerExisting, Admit, QueueFull, Restore, RestoreKey, RestoreRefused, ChildEnds, AdvanceRoot,
            AskGate, PassStarts, PassTakes, PassLocks, PassAsksGate, PassFails, DeadlockVictim
<1> QED BY <1>1, <1>2, <1>9, EndMoves

\* Whoever becomes a claimant has just locked a key without owner.
LEMMA NewClaim ==
    ASSUME LocksTyped, RowsTyped, Roles, FamilyInv, [Next]_vars, NEW p \in Procs, Claims(p)'
    PROVE  \/ Claims(p) /\ name'[p] = name[p]
              /\ \A n \in Names : keyLock[n] = p => keyLock'[n] = p
           \/ /\ name[p] \in Names /\ keyLock'[name[p]] = p /\ name' = name /\ job' = job
              /\ \A j \in Jobs : ~Owns(j, name[p])
<1> USE OneRole DEF FamilyInv
<1> DEFINE Goal == \/ Claims(p) /\ name'[p] = name[p]
                      /\ \A n \in Names : keyLock[n] = p => keyLock'[n] = p
                   \/ /\ name[p] \in Names /\ keyLock'[name[p]] = p /\ name' = name /\ job' = job
                      /\ \A j \in Jobs : ~Owns(j, name[p])
<1>1. ASSUME NEW q \in Procs, q # p, Others(q), LocksKept(q) PROVE Goal
    BY <1>1 DEF Others, LocksKept, Claims
<1>2. ASSUME pc'[p] = "idle" PROVE Goal
    BY <1>2 DEF Claims
<1>3. ASSUME p \in Clients, Request(p) PROVE Goal
    BY <1>3 DEF Request, Begin, Go, LocksTyped, Claims
<1>4. ASSUME p \in Clients, FindKey(p) PROVE Goal
    <2>1. name[p] \in Names
        BY <1>4 DEF FindKey, Roles
    <2> QED BY <1>4, <2>1 DEF FindKey, LockKey, LocksTyped
<1>5. ASSUME p \in Clients, Admit(p) PROVE Goal
    BY <1>5 DEF Admit, LockGate, Claims
<1>6. ASSUME p = Operator, RestoreKey PROVE Goal
    <2>1. name[p] \in Names
        BY <1>6 DEF RestoreKey, RestorerHolds, Families, Sound
    <2> QED BY <1>6, <2>1 DEF RestoreKey, LockKey, LocksTyped
<1>7. ASSUME p = Operator, NEW j \in Jobs, Restore(j) PROVE Goal
    BY <1>7 DEF Restore, Begin, Go, LocksTyped, Claims
<1>8. ASSUME p \notin Clients, p # Operator PROVE Goal
    BY <1>8 DEF Claims
<1>9. ASSUME NEW c \in Clients, Request(c) \/ ClientStep(c) \/ RequestFails(c) PROVE Goal
    <2>1. CASE c = p
        BY <1>2, <1>3, <1>4, <1>5, <1>9, <2>1, EndMoves
           DEF ClientStep, AnswerExisting, QueueFull, Create, RequestFails
    <2> QED BY <1>1, <1>9, <2>1, ClientMoves
<1>10. ASSUME OperatorStep \/ \E j \in Jobs : Restore(j) PROVE Goal
    <2>1. CASE p = Operator
        BY <1>2, <1>6, <1>7, <1>10, <2>1, EndMoves DEF OperatorStep, RestoreRefused, RestoreCommits
    <2> QED BY <1>1, <1>10, <2>1, OperatorMoves
<1>11. ASSUME NEW w \in Workers, WorkerStep(w) \/ \E j \in Jobs : ChildEnds(w, j) PROVE Goal
    BY <1>1, <1>8, <1>11, WorkerMoves
<1>12. ASSUME PassStarts \/ PassStep PROVE Goal
    BY <1>1, <1>8, <1>12, PassMoves
<1>13. ASSUME NEW q \in Procs, DeadlockVictim(q) PROVE Goal
    BY <1>1, <1>2, <1>13, VictimMoves, EndMoves
<1>14. ASSUME Outside \/ UNCHANGED vars PROVE Goal
    BY <1>14, OutsideMoves DEF Claims, locks
<1> QED BY NextCases, <1>9, <1>10, <1>11, <1>12, <1>13, <1>14

LEMMA KeysStep ==
    TypeOK /\ Roles /\ FamilyInv /\ KeysClaimed /\ [Next]_vars => KeysClaimed'
<1> SUFFICES ASSUME LocksTyped, RowsTyped, Roles, FamilyInv, KeysClaimed, [Next]_vars PROVE KeysClaimed'
    BY Typed
<1> DEFINE OwnsNext(j, n) == job'[j].name = n /\ job'[j].key = "active" /\ ~job'[j].deleted
<1>1. ASSUME NEW p \in Procs, Claims(p)'
      PROVE  name'[p] \in Names /\ keyLock'[name'[p]] = p /\ \A j \in Jobs : ~OwnsNext(j, name'[p])
    <2>1. CASE /\ name[p] \in Names /\ keyLock'[name[p]] = p /\ name' = name /\ job' = job
               /\ \A j \in Jobs : ~Owns(j, name[p])
        BY <2>1 DEF Owns
    <2>2. CASE Claims(p) /\ name'[p] = name[p] /\ \A n \in Names : keyLock[n] = p => keyLock'[n] = p
        <3>1. name[p] \in Names /\ keyLock[name[p]] = p /\ \A j \in Jobs : ~Owns(j, name[p])
            BY <2>2 DEF KeysClaimed
        <3>2. ASSUME NEW j \in Jobs, OwnsNext(j, name[p]) PROVE FALSE
            <4>1. PICK n \in Names : n = name[p]
                BY <3>1
            <4>2. Owns(j, n)' /\ ~Owns(j, n)
                BY <3>1, <3>2, <4>1 DEF Owns
            <4>3. PICK q \in Procs : Claims(q) /\ name[q] = n /\ pc'[q] = "idle"
                BY <4>2, NewOwner
            <4>4. q = p
                BY <3>1, <4>1, <4>3 DEF KeysClaimed
            <4> QED BY <1>1, <4>3, <4>4 DEF Claims
        <3> QED BY <2>2, <3>1, <3>2
    <2> QED BY <1>1, <2>1, <2>2, NewClaim
<1>2. ASSUME NEW n \in Names, NEW i \in Jobs, NEW j \in Jobs, Owns(i, n)', Owns(j, n)', i # j PROVE FALSE
    <2>1. CASE Owns(i, n) /\ Owns(j, n)
        BY <1>2, <2>1 DEF KeysClaimed
    <2>2. ASSUME NEW k \in Jobs, NEW l \in Jobs, k # l, Owns(k, n)', Owns(l, n)', ~Owns(k, n) PROVE FALSE
        <3>1. PICK p \in Procs : Claims(p) /\ name[p] = n
            BY <2>2, NewOwner
        <3>2. ~Owns(l, n)
            BY <3>1 DEF KeysClaimed
        <3>3. job'[l] = job[l]
            BY <2>2, NewOwner
        <3> QED BY <2>2, <3>2, <3>3 DEF Owns
    <2> QED BY <1>2, <2>1, <2>2
<1>3. \A p \in Procs : Claims(p)' =>
          name'[p] \in Names /\ keyLock'[name'[p]] = p /\ \A j \in Jobs : ~Owns(j, name[p])'
    BY <1>1 DEF Owns
<1> QED BY <1>2, <1>3 DEF KeysClaimed

\* A key is claimed by at most one request, restore or Job at a time, for any
\* number of them: the unique index on active keys is never what decides.
THEOREM KeyCorrect == Spec => []KeyClaimedOnce
<1>1. Init => KeysClaimed
    BY OneRole DEF Init, KeysClaimed, Claims, Owns, NoRow
<1>2. KeysClaimed => KeyClaimedOnce
    <2> SUFFICES ASSUME KeysClaimed, NEW n \in Names
                 PROVE  /\ \A i, j \in {k \in Jobs : Owns(k, n)} : i = j
                        /\ \A p, q \in {r \in Clients \cup {Operator} : pc[r] = "commit" /\ name[r] = n} : p = q
                        /\ \/ {k \in Jobs : Owns(k, n)} = {}
                           \/ {r \in Clients \cup {Operator} : pc[r] = "commit" /\ name[r] = n} = {}
        BY DEF KeyClaimedOnce
    <2>1. \A r \in Clients \cup {Operator} : pc[r] = "commit" /\ name[r] = n =>
              keyLock[n] = r /\ \A j \in Jobs : ~Owns(j, n)
        BY OneRole DEF KeysClaimed, Claims
    <2> QED BY <2>1 DEF KeysClaimed
<1>3. Init => TypeOK /\ PassHasRoot /\ Roles /\ FamilyInv
    BY SubmissionTypeInit, FamilyInit
<1>4. TypeOK /\ PassHasRoot /\ Roles /\ FamilyInv /\ KeysClaimed /\ [Next]_vars
        => (TypeOK /\ PassHasRoot /\ Roles /\ FamilyInv /\ KeysClaimed)'
    BY SubmissionTypeStep, RootStep, RolesStep, FamilyStep, KeysStep
<1> QED BY <1>1, <1>2, <1>3, <1>4, PTL DEF Spec

-----------------------------------------------------------------------------
(* Deadlocks.                                                               *)

\* The pass never waits for a root it has itself locked.
PassLocksOnce ==
    /\ \A j \in todo : rowLock[j] # Reconciler
    /\ pc[Reconciler] = "root" => at[Reconciler] \notin todo /\ rowLock[at[Reconciler]] # Reconciler
    /\ pc[Reconciler] = "gate" => at[Reconciler] \notin todo

LEMMA PassLocksOnceStep ==
    TypeOK /\ PassHasRoot /\ Roles /\ PassLocksOnce /\ [Next]_vars => PassLocksOnce'
<1> SUFFICES ASSUME LocksTyped, RowsTyped, PassHasRoot, Roles, PassLocksOnce, [Next]_vars PROVE PassLocksOnce'
    BY Typed
<1> USE OneRole
<1>1. ASSUME NEW p \in Procs, p # Reconciler, Others(p), LocksKept(p), UNCHANGED todo PROVE PassLocksOnce'
    BY <1>1 DEF Others, LocksKept, PassLocksOnce, PassHasRoot, RowsTyped
<1>2. ASSUME NEW c \in Clients, Request(c) \/ ClientStep(c) \/ RequestFails(c) PROVE PassLocksOnce'
    <2>1. UNCHANGED todo
        BY <1>2 DEF Request, ClientStep, RequestFails, FindKey, AnswerExisting, Admit, QueueFull, Create, pass
    <2> QED BY <1>1, <1>2, <2>1, ClientMoves
<1>3. ASSUME OperatorStep \/ \E j \in Jobs : Restore(j) PROVE PassLocksOnce'
    <2>1. UNCHANGED todo
        BY <1>3 DEF OperatorStep, Restore, RestoreKey, RestoreRefused, RestoreCommits, pass
    <2> QED BY <1>1, <1>3, <2>1, OperatorMoves
<1>4. ASSUME NEW w \in Workers, WorkerStep(w) \/ \E j \in Jobs : ChildEnds(w, j) PROVE PassLocksOnce'
    <2>1. UNCHANGED todo
        BY <1>4 DEF WorkerStep, ChildEnds, AdvanceRoot, AskGate, WorkerCommits, pass
    <2> QED BY <1>1, <1>4, <2>1, WorkerMoves
<1>5. ASSUME PassStarts PROVE PassLocksOnce'
    BY <1>5 DEF PassStarts, Begin, Go, locks, LocksTyped, PassLocksOnce
<1>6. ASSUME NEW j \in Jobs, PassTakes(j) PROVE PassLocksOnce'
    BY <1>6 DEF PassTakes, Go, locks, LocksTyped, PassLocksOnce
<1>7. ASSUME PassLocks PROVE PassLocksOnce'
    <2>1. at[Reconciler] \in Jobs /\ at[Reconciler] \notin todo /\ UNCHANGED <<todo, at>>
          /\ rowLock' = [rowLock EXCEPT ![at[Reconciler]] = Reconciler]
          /\ (Go(Reconciler, "scan") \/ Go(Reconciler, "gate"))
        BY <1>7 DEF PassLocks, LockRow, PassHasRoot, PassLocksOnce
    <2> QED BY <2>1 DEF Go, LocksTyped, RowsTyped, PassLocksOnce
<1>8. ASSUME PassAsksGate PROVE PassLocksOnce'
    BY <1>8 DEF PassAsksGate, LockGate, Go, LocksTyped, PassLocksOnce
<1>9. ASSUME PassEnds PROVE PassLocksOnce'
    BY <1>9, EndMoves DEF PassEnds, PassLocksOnce
<1>10. ASSUME NEW p \in Procs, DeadlockVictim(p) PROVE PassLocksOnce'
    BY <1>1, <1>9, <1>10, VictimMoves DEF DeadlockVictim, pass
<1>11. ASSUME Outside \/ UNCHANGED vars PROVE PassLocksOnce'
    BY <1>11, OutsideMoves DEF PassLocksOnce, locks, pass
<1> QED BY NextCases, <1>2, <1>3, <1>4, <1>5, <1>6, <1>7, <1>8, <1>9, <1>10, <1>11
        DEF PassStep, PassCommits, PassFails

\* A transaction of a cycle waits and is waited for.  The only one that waits
\* while it holds the gate is the pass, and without a gate holder in the cycle
\* all of it waits for rows, which the pass alone holds while it waits for one.
LEMMA CycleIsThePass ==
    ASSUME TypeOK, PassHasRoot, Roles, FamilyInv, Holders, PassLocksOnce
    PROVE  DeadlocksAreThePass
<1> SUFFICES ASSUME NEW S \in SUBSET Waiting, Deadlocked(S),
                    ~(Reconciler \in S /\ gate = Reconciler /\ pc[Reconciler] = "root")
             PROVE  FALSE
    BY DEF DeadlocksAreThePass
<1> USE OneRole
<1>1. LocksTyped
    BY Typed
<1>2. \A p \in S : p \in Procs /\ Blocker(p) # NoProc /\ Blocker(p) \in S
    BY DEF Deadlocked, Waiting
<1>3. \A p \in S : pc[p] \in {"key", "root", "gate"}
    BY <1>2 DEF Blocker
<1>4. \A p \in S : HoldsRightly(p)
    BY <1>2 DEF Holders
<1>5. \A p \in S : pc[p] # "gate"
    <2> SUFFICES ASSUME NEW p \in S, pc[p] = "gate" PROVE FALSE
        OBVIOUS
    <2>1. Blocker(p) = gate /\ gate # p
        BY <1>2 DEF Blocker
    <2>2. gate \in S
        BY <1>2, <2>1
    <2>3. gate = Reconciler
        BY <1>3, <1>4, <2>2 DEF HoldsRightly
    <2>4. pc[Reconciler] = "root"
        <3>1. pc[Reconciler] # "key"
            BY DEF Roles
        <3>2. pc[Reconciler] = "gate" => Blocker(Reconciler) = NoProc
            BY <2>3 DEF Blocker
        <3> QED BY <1>2, <1>3, <2>2, <2>3, <3>1, <3>2
    <2> QED BY <2>2, <2>3, <2>4
<1>6. \A p \in S : pc[p] # "key"
    <2> SUFFICES ASSUME NEW p \in S, pc[p] = "key" PROVE FALSE
        OBVIOUS
    <2>1. Blocker(p) = keyLock[name[p]]
        BY DEF Blocker
    <2>2. name[p] \in Names
        <3>1. CASE p \in Clients
            BY <3>1 DEF Roles
        <3>2. CASE p \notin Clients
            <4>1. p = Operator
                BY <1>2, <3>2 DEF Roles, Procs
            <4> QED BY <4>1 DEF FamilyInv, RestorerHolds, Families, Sound
        <3> QED BY <3>1, <3>2
    <2>3. Claims(keyLock[name[p]]) /\ keyLock[name[p]] \in S
        BY <1>2, <1>4, <2>1, <2>2 DEF HoldsRightly
    <2> QED BY <1>3, <1>5, <2>3 DEF Claims
<1>7. \A p \in S : Blocker(p) = Reconciler
    <2> SUFFICES ASSUME NEW p \in S PROVE Blocker(p) = Reconciler
        OBVIOUS
    <2>1. pc[p] = "root" /\ Blocker(p) = rowLock[at[p]]
        BY <1>3, <1>5, <1>6 DEF Blocker
    <2>2. at[p] \in Jobs
        <3>1. p \in Workers \/ p = Reconciler
            BY <1>2, <2>1 DEF Roles, Procs
        <3> QED BY <2>1, <3>1 DEF FamilyInv, WorkersHold, PassHasRoot
    <2>3. pc[Blocker(p)] = "root" /\ HoldsRightly(Blocker(p)) /\ rowLock[at[p]] = Blocker(p)
        BY <1>2, <1>3, <1>4, <1>5, <1>6, <2>1
    <2>4. Blocker(p) # Operator
        BY <2>3 DEF Roles
    <2> QED BY <2>2, <2>3, <2>4 DEF HoldsRightly
<1>8. Reconciler \in S /\ Blocker(Reconciler) = Reconciler
    BY <1>2, <1>7 DEF Deadlocked
<1>9. pc[Reconciler] = "root" /\ rowLock[at[Reconciler]] = Reconciler
    BY <1>3, <1>5, <1>6, <1>8 DEF Blocker
<1> QED BY <1>9 DEF PassLocksOnce

\* Any deadlock of this service's transactions is the recovery pass's, holding
\* the capacity gate from one root while it waits for the next: for any number
\* of requests, workers and Jobs, and any cycle of waits.
THEOREM DeadlockCorrect == Spec => []DeadlocksAreThePass
<1>1. Init => Holders /\ PassLocksOnce
    <2> SUFFICES ASSUME Init PROVE Holders /\ PassLocksOnce
        OBVIOUS
    <2>1. Holders
        BY SubmissionAssumption DEF Init, Holders, HoldsRightly
    <2>2. PassLocksOnce
        BY OneRole DEF Init, PassLocksOnce
    <2> QED BY <2>1, <2>2
<1>2. Init => TypeOK /\ PassHasRoot /\ Roles /\ FamilyInv
    BY SubmissionTypeInit, FamilyInit
<1>3. TypeOK /\ PassHasRoot /\ Roles /\ FamilyInv /\ Holders /\ PassLocksOnce /\ [Next]_vars
        => (TypeOK /\ PassHasRoot /\ Roles /\ FamilyInv /\ Holders /\ PassLocksOnce)'
    BY SubmissionTypeStep, RootStep, RolesStep, FamilyStep, HoldersStep, PassLocksOnceStep
<1> QED BY <1>1, <1>2, <1>3, CycleIsThePass, PTL DEF Spec
=============================================================================
