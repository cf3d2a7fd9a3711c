----------------------------- MODULE Submission -----------------------------
(***************************************************************************)
(* Who owns a client_request_id, and who waits for whom: submission,       *)
(* soft delete, restore and cleanup of Job families, workflow advances and *)
(* the recovery pass, as transactions that take database locks one by one  *)
(* and make their writes visible at their commit.                          *)
(*                                                                         *)
(* Locks: an advisory lock per (caller_id, client_request_id), the         *)
(* advisory lock of the capacity gate, and the row of each root Job.  All  *)
(* are held until the transaction ends.  Delete and cleanup skip a locked  *)
(* row; every other lock is waited for, and PostgreSQL aborts one          *)
(* transaction of a cycle of waits.                                        *)
(*                                                                         *)
(* What the gate answers and what a workflow decides is WorkflowKernel's   *)
(* subject: here both are free choices.  The internal children of a root   *)
(* are one status.  A request that finds its key in use writes nothing,    *)
(* whether it is answered with the existing Job or with a conflict.        *)
(***************************************************************************)
EXTENDS Naturals, FiniteSets

CONSTANTS
    Clients, Workers, Operator, Reconciler,     \* the processes
    NoProc,
    Names, NoName,      \* (caller_id, client_request_id) pairs
    MaxJobs,            \* bound on the Jobs that are ever created
    MaxSpawns,          \* bound on the fan-outs of workflows
    Disabled            \* Jobs whose workflow has a node that is not enabled any more

Procs == Clients \cup Workers \cup {Operator, Reconciler}
Jobs  == 1..MaxJobs
NoJob == 0

ASSUME SubmissionAssumption ==
    /\ NoProc \notin Procs /\ NoName \notin Names
    /\ Operator # Reconciler
    /\ Clients \cap Workers = {}
    /\ {Operator, Reconciler} \cap (Clients \cup Workers) = {}
    /\ MaxJobs \in Nat \ {0} /\ MaxSpawns \in Nat
    /\ Disabled \subseteq Jobs

VARIABLES
    job,        \* the public root Jobs with their keys and children
    pc, name, at,   \* what each transaction does next, for which key and Job
    keyLock, rowLock, gate,     \* the holder of each lock
    todo,       \* roots the recovery pass has listed and not yet locked
    spawned, closed,    \* roots given a child, and roots ended, by the pass
    spawns      \* fan-outs so far

vars == <<job, pc, name, at, keyLock, rowLock, gate, todo, spawned, closed, spawns>>
locks == <<keyLock, rowLock, gate>>
pass  == <<todo, spawned, closed>>

\* "open": running workflow root without an attempt; "settled": ended, and its
\* callback delivered, skipped, dead-lettered or never wanted.
Job == [phase   : {"absent", "open", "ended", "settled"},
        name    : Names \cup {NoName},
        key     : {"none", "active", "deleted"},
        child   : {"none", "active", "ended", "deleted"},
        deleted : BOOLEAN,
        expired : BOOLEAN]

\* Types, and every process holds or wants what its transaction is about.
TypeOK ==
    /\ job \in [Jobs -> Job]
    /\ pc \in [Procs -> {"idle", "key", "gate", "root", "scan", "commit"}]
    /\ name \in [Procs -> Names \cup {NoName}]
    /\ at \in [Procs -> Jobs \cup {NoJob}]
    /\ keyLock \in [Names -> Procs \cup {NoProc}]
    /\ rowLock \in [Jobs -> Procs \cup {NoProc}]
    /\ gate \in Procs \cup {NoProc}
    /\ todo \subseteq Jobs /\ spawned \subseteq Jobs /\ closed \subseteq Jobs
    /\ spawns \in 0..MaxSpawns
    /\ \A p \in Procs : pc[p] = "idle" =>
          gate # p /\ (\A n \in Names : keyLock[n] # p) /\ \A j \in Jobs : rowLock[j] # p

NoRow == [phase |-> "absent", name |-> NoName, key |-> "none", child |-> "none",
          deleted |-> FALSE, expired |-> FALSE]

Init ==
    /\ job  = [j \in Jobs |-> NoRow]
    /\ pc   = [p \in Procs |-> "idle"]
    /\ name = [p \in Procs |-> NoName]
    /\ at   = [p \in Procs |-> NoJob]
    /\ keyLock = [n \in Names |-> NoProc]
    /\ rowLock = [j \in Jobs |-> NoProc]
    /\ gate = NoProc
    /\ todo = {} /\ spawned = {} /\ closed = {}
    /\ spawns = 0

-----------------------------------------------------------------------------
(* Transactions and locks.                                                  *)

Go(p, step) == pc' = [pc EXCEPT ![p] = step]

Begin(p, step, n, j) ==
    /\ pc[p] = "idle"
    /\ Go(p, step)
    /\ name' = [name EXCEPT ![p] = n]
    /\ at' = [at EXCEPT ![p] = j]

\* Mutant: the gate is a session lock and is not released.
MutantEnd(p) ==
    /\ Go(p, "idle")
    /\ name' = [name EXCEPT ![p] = NoName]
    /\ at' = [at EXCEPT ![p] = NoJob]
    /\ keyLock' = [n \in Names |-> IF keyLock[n] = p THEN NoProc ELSE keyLock[n]]
    /\ rowLock' = [j \in Jobs |-> IF rowLock[j] = p THEN NoProc ELSE rowLock[j]]
    /\ UNCHANGED gate

\* Commit or rollback: all locks of p are released.
End(p) ==
    /\ Go(p, "idle")
    /\ name' = [name EXCEPT ![p] = NoName]
    /\ at' = [at EXCEPT ![p] = NoJob]
    /\ keyLock' = [n \in Names |-> IF keyLock[n] = p THEN NoProc ELSE keyLock[n]]
    /\ rowLock' = [j \in Jobs |-> IF rowLock[j] = p THEN NoProc ELSE rowLock[j]]
    /\ gate' = IF gate = p THEN NoProc ELSE gate

\* Mutant: the key is used without its advisory lock.
MutantLockKey(p) == UNCHANGED locks

LockKey(p) ==
    /\ keyLock[name[p]] = NoProc
    /\ keyLock' = [keyLock EXCEPT ![name[p]] = p]
    /\ UNCHANGED <<rowLock, gate>>

LockRow(p, j) ==
    /\ rowLock[j] = NoProc
    /\ rowLock' = [rowLock EXCEPT ![j] = p]
    /\ UNCHANGED <<keyLock, gate>>

LockGate(p) ==
    /\ gate \in {NoProc, p}
    /\ gate' = p
    /\ UNCHANGED <<keyLock, rowLock>>

\* The process whose lock p waits for.
Blocker(p) ==
    CASE pc[p] = "key"  -> keyLock[name[p]]
      [] pc[p] = "root" -> rowLock[at[p]]
      [] pc[p] = "gate" -> IF gate = p THEN NoProc ELSE gate
      [] OTHER          -> NoProc

Waiting == {p \in Procs : Blocker(p) # NoProc}

\* A set of processes that wait for one another in cycles.
Deadlocked(S) == S # {} /\ {Blocker(p) : p \in S} = S

-----------------------------------------------------------------------------
(* create_job.                                                              *)

Owns(j, n) == job[j].name = n /\ job[j].key = "active" /\ ~job[j].deleted

Request(c) ==
    /\ \E n \in Names : Begin(c, "key", n, NoJob)
    /\ UNCHANGED <<job, locks, pass, spawns>>

\* The key is locked, then looked up.
FindKey(c) ==
    /\ pc[c] = "key"
    /\ LockKey(c)
    /\ \A j \in Jobs : ~Owns(j, name[c])
    /\ Go(c, "gate")
    /\ UNCHANGED <<job, name, at, pass, spawns>>

\* The key is in use: the existing Job or CLIENT_REQUEST_ID_CONFLICT.
AnswerExisting(c) ==
    /\ pc[c] = "key"
    /\ keyLock[name[c]] = NoProc
    /\ \E j \in Jobs : Owns(j, name[c])
    /\ End(c)
    /\ UNCHANGED <<job, pass, spawns>>

\* The next unused Job id.
Fresh(j) == job[j].phase = "absent" /\ \A i \in 1..(j - 1) : job[i].phase # "absent"

Admit(c) ==
    /\ pc[c] = "gate"
    /\ \E j \in Jobs : Fresh(j)
    /\ LockGate(c)
    /\ Go(c, "commit")
    /\ UNCHANGED <<job, name, at, pass, spawns>>

QueueFull(c) ==
    /\ pc[c] = "gate"
    /\ gate = NoProc
    /\ End(c)
    /\ UNCHANGED <<job, pass, spawns>>

\* A created Job reaches "open" by its orchestration attempt, not modelled here.
NewJob(n) == [phase |-> "open", name |-> n, key |-> "active", child |-> "none",
              deleted |-> FALSE, expired |-> FALSE]

Create(c) ==
    /\ pc[c] = "commit"
    /\ \E j \in Jobs : Fresh(j) /\ job' = [job EXCEPT ![j] = NewJob(name[c])]
    /\ End(c)
    /\ UNCHANGED <<pass, spawns>>

\* The connection is lost, or anything raises, before the commit.
RequestFails(c) ==
    /\ pc[c] # "idle"
    /\ End(c)
    /\ UNCHANGED <<job, pass, spawns>>

-----------------------------------------------------------------------------
(* soft_delete_root_family, restore_root_family, cleanup_expired_jobs.      *)

\* Mutant: internal children are not looked at.
MutantDeletable(d) == ~d.deleted /\ d.phase = "settled" /\ d.key = "active"

Deletable(d) ==
    /\ ~d.deleted
    /\ d.phase = "settled"
    /\ d.key = "active"
    /\ d.child # "active"

Deleted(d) == [d EXCEPT !.deleted = TRUE, !.key = "deleted",
                        !.child = IF @ = "ended" THEN "deleted" ELSE @]

\* delete_family: no other lock is waited for, so this is one step.
DeleteFamily(j) ==
    /\ pc[Operator] = "idle"
    /\ rowLock[j] = NoProc
    /\ Deletable(job[j])
    /\ job' = [job EXCEPT ![j] = Deleted(@)]
    /\ UNCHANGED <<pc, name, at, locks, pass, spawns>>

\* Mutant: the restored Job is first admitted by the capacity gate.
MutantLockFamily(j) ==
    /\ rowLock[j] = NoProc /\ gate = NoProc
    /\ rowLock' = [rowLock EXCEPT ![j] = Operator]
    /\ gate' = Operator
    /\ UNCHANGED keyLock

LockFamily(j) == LockRow(Operator, j)

Restore(j) ==
    /\ job[j].deleted
    /\ LockFamily(j)
    /\ Begin(Operator, "key", job[j].name, j)
    /\ UNCHANGED <<job, pass, spawns>>

RestoreKey ==
    /\ pc[Operator] = "key"
    /\ LockKey(Operator)
    /\ \A j \in Jobs : ~Owns(j, name[Operator])
    /\ Go(Operator, "commit")
    /\ UNCHANGED <<job, name, at, pass, spawns>>

\* An active Job uses the key: nothing is restored.
RestoreRefused ==
    /\ pc[Operator] = "key"
    /\ keyLock[name[Operator]] = NoProc
    /\ \E j \in Jobs : Owns(j, name[Operator])
    /\ End(Operator)
    /\ UNCHANGED <<job, pass, spawns>>

Restored(d) == [d EXCEPT !.deleted = FALSE, !.key = "active",
                         !.child = IF @ = "deleted" THEN "ended" ELSE @]

\* expires_at is left as it is: the next pass may delete the family again.
RestoreCommits ==
    /\ pc[Operator] = "commit"
    /\ job' = [job EXCEPT ![at[Operator]] = Restored(@)]
    /\ End(Operator)
    /\ UNCHANGED <<pass, spawns>>

-----------------------------------------------------------------------------
(* A worker ends a child of a workflow and advances its root.               *)

ChildEnds(w, j) ==
    /\ job[j].child = "active"
    /\ \A v \in Workers : at[v] # j
    /\ Begin(w, "root", NoName, j)
    /\ UNCHANGED <<job, locks, pass, spawns>>

\* An open root may be fanned out, for which the gate is asked.
AdvanceRoot(w) ==
    /\ pc[w] = "root"
    /\ LockRow(w, at[w])
    /\ \/ job[at[w]].phase = "open" /\ Go(w, "gate")
       \/ Go(w, "commit")
    /\ UNCHANGED <<job, name, at, pass, spawns>>

AskGate(w) ==
    /\ pc[w] = "gate"
    /\ LockGate(w)
    /\ Go(w, "commit")
    /\ UNCHANGED <<job, name, at, pass, spawns>>

\* The root gets another child, is ended, or stays as it is.
Advanced(d, spawn, close) ==
    [d EXCEPT !.child = IF spawn THEN "active" ELSE "ended",
              !.phase = IF close /\ @ = "open" THEN "ended" ELSE @]

WorkerCommits(w) ==
    /\ pc[w] = "commit"
    /\ \E spawn, close \in BOOLEAN :
          /\ spawn => gate = w /\ spawns < MaxSpawns /\ ~close
          /\ job' = [job EXCEPT ![at[w]] = Advanced(@, spawn, close)]
          /\ spawns' = IF spawn THEN spawns + 1 ELSE spawns
    /\ End(w)
    /\ UNCHANGED pass

-----------------------------------------------------------------------------
(* _run_recovery: one transaction over all the roots it lists.  The session *)
(* advisory lock leaves one such pass at a time.                            *)

PassStarts ==
    /\ Begin(Reconciler, "scan", NoName, NoJob)
    /\ todo' = {j \in Jobs : job[j].phase = "open" /\ ~job[j].deleted}
    /\ UNCHANGED <<job, locks, spawned, closed, spawns>>

PassTakes(j) ==
    /\ pc[Reconciler] = "scan"
    /\ j \in todo
    /\ todo' = todo \ {j}
    /\ at' = [at EXCEPT ![Reconciler] = j]
    /\ Go(Reconciler, "root")
    /\ UNCHANGED <<job, name, locks, spawned, closed, spawns>>

\* The locked root is ended, left alone, or fanned out; the last also for a
\* root that was ended meanwhile, for the session still has it as running.
PassLocks ==
    LET j == at[Reconciler]
    IN  /\ pc[Reconciler] = "root"
        /\ ~job[j].deleted
        /\ LockRow(Reconciler, j)
        /\ \/ /\ job[j].phase = "open"
              /\ closed' = closed \cup {j}
              /\ Go(Reconciler, "scan")
           \/ Go(Reconciler, "scan") /\ UNCHANGED closed
           \/ Go(Reconciler, "gate") /\ UNCHANGED closed
        /\ UNCHANGED <<job, name, at, todo, spawned, spawns>>

PassAsksGate ==
    /\ pc[Reconciler] = "gate"
    /\ LockGate(Reconciler)
    /\ Go(Reconciler, "scan")
    /\ \E spawn \in BOOLEAN :
          /\ spawn => spawns < MaxSpawns
          /\ spawned' = IF spawn THEN spawned \cup {at[Reconciler]} ELSE spawned
          /\ spawns' = IF spawn THEN spawns + 1 ELSE spawns
    /\ UNCHANGED <<job, name, at, todo, closed>>

\* The root as the transaction of the pass sees it before it cleans up.
Reconciled(j) ==
    [job[j] EXCEPT !.child = IF j \in spawned THEN "active" ELSE @,
                   !.phase = IF j \in closed /\ @ = "open" THEN "ended" ELSE @]

\* Mutant: the cleanup joins the roots with their children.
MutantCleaned(j) ==
    LET d == Reconciled(j)
    IN  IF d.expired /\ Deletable(d) /\ d.child = "ended" /\ rowLock[j] \in {NoProc, Reconciler}
        THEN Deleted(d) ELSE d

\* cleanup_expired_jobs ends the pass; it skips rows others have locked.
Cleaned(j) ==
    LET d == Reconciled(j)
    IN  IF d.expired /\ Deletable(d) /\ rowLock[j] \in {NoProc, Reconciler}
        THEN Deleted(d) ELSE d

PassEnds ==
    /\ End(Reconciler)
    /\ todo' = {} /\ spawned' = {} /\ closed' = {}

PassCommits ==
    /\ pc[Reconciler] = "scan"
    /\ todo = {}
    /\ job' = [j \in Jobs |-> Cleaned(j)]
    /\ PassEnds
    /\ UNCHANGED spawns

\* The whole pass is rolled back when a root was deleted after it was listed
\* (RUNTIME_REF_INVALID), and when the child to create is not enabled any more
\* (INVALID_JOB_TYPE).
PassFails ==
    /\ \/ /\ pc[Reconciler] = "root"
          /\ job[at[Reconciler]].deleted
          /\ rowLock[at[Reconciler]] = NoProc
       \/ /\ pc[Reconciler] = "gate"
          /\ at[Reconciler] \in Disabled
          /\ gate \in {NoProc, Reconciler}
    /\ PassEnds
    /\ UNCHANGED <<job, spawns>>

-----------------------------------------------------------------------------
(* The rest of the system.                                                  *)

\* deadlock_timeout: PostgreSQL aborts one transaction of the cycle.
DeadlockVictim(p) ==
    /\ \E S \in SUBSET Waiting : p \in S /\ Deadlocked(S)
    /\ IF p = Reconciler THEN PassEnds ELSE End(p) /\ UNCHANGED pass
    /\ UNCHANGED <<job, spawns>>

\* expires_at passes; it only matters once the family has settled.
Expire(j) ==
    /\ job[j].phase = "settled" /\ ~job[j].expired
    /\ job' = [job EXCEPT ![j].expired = TRUE]
    /\ UNCHANGED <<pc, name, at, locks, pass, spawns>>

CallbackSettles(j) ==
    /\ job[j].phase = "ended"
    /\ job' = [job EXCEPT ![j].phase = "settled"]
    /\ UNCHANGED <<pc, name, at, locks, pass, spawns>>

ClientStep(c) == FindKey(c) \/ AnswerExisting(c) \/ Admit(c) \/ QueueFull(c) \/ Create(c)
OperatorStep == RestoreKey \/ RestoreRefused \/ RestoreCommits
WorkerStep(w) == AdvanceRoot(w) \/ AskGate(w) \/ WorkerCommits(w)
PassStep == (\E j \in Jobs : PassTakes(j)) \/ PassLocks \/ PassAsksGate \/ PassCommits \/ PassFails

Next ==
    \/ \E c \in Clients : Request(c) \/ ClientStep(c) \/ RequestFails(c)
    \/ \E j \in Jobs : DeleteFamily(j) \/ Restore(j) \/ Expire(j) \/ CallbackSettles(j)
    \/ OperatorStep
    \/ \E w \in Workers : WorkerStep(w) \/ \E j \in Jobs : ChildEnds(w, j)
    \/ PassStarts \/ PassStep
    \/ \E p \in Procs : DeadlockVictim(p)

Spec == Init /\ [][Next]_vars

-----------------------------------------------------------------------------
(* Safety.                                                                  *)

\* At no time do two transactions and Jobs claim the same key, in whatever
\* order requests, deletions, restores and cleanups of it interleave: what a
\* request or a restore has read about its key still holds when it writes, and
\* the unique index on active keys is never what stops a second Job.
KeyClaimedOnce ==
    \A n \in Names :
        LET owners  == {j \in Jobs : Owns(j, n)}
            writers == {p \in Clients \cup {Operator} : pc[p] = "commit" /\ name[p] = n}
        IN  /\ \A i, j \in owners : i = j
            /\ \A p, q \in writers : p = q
            /\ owners = {} \/ writers = {}

\* A root, its key and its children are deleted and restored together, and only
\* once all of them are settled, although a pass may still give a child to a
\* root it has listed as open long ago.
FamilyAgrees ==
    \A j \in Jobs :
        LET d == job[j]
        IN  IF d.deleted
            THEN d.phase = "settled" /\ d.key = "deleted" /\ d.child \in {"none", "deleted"}
            ELSE d.key # "deleted" /\ d.child # "deleted"

\* Transactions wait for one another in a cycle only through a recovery pass
\* that holds the capacity gate from one root while it waits for the next:
\* submissions, restores and workers alone never deadlock.
DeadlocksAreThePass ==
    \A S \in SUBSET Waiting :
        Deadlocked(S) => Reconciler \in S /\ gate = Reconciler /\ pc[Reconciler] = "root"

-----------------------------------------------------------------------------
(* Liveness.  Lock queues are first come, first served; the role loops run  *)
(* for ever.                                                                *)

Fairness ==
    /\ \A c \in Clients : SF_vars(ClientStep(c))
    /\ SF_vars(OperatorStep)
    /\ \A w \in Workers : SF_vars(WorkerStep(w) \/ \E j \in Jobs : ChildEnds(w, j))
    /\ SF_vars(PassStarts \/ PassStep)
    /\ WF_vars(\E p \in Procs : DeadlockVictim(p))

FairSpec == Spec /\ Fairness

\* Every expired family that has settled is deleted, although passes fail on
\* roots deleted under them and are aborted in deadlocks.  Only a workflow with
\* a disabled node can stop the cleanup, and it stops the cleanup of all others.
ExpiredCleaned ==
    \A j \in Jobs :
        job[j].expired /\ job[j].phase = "settled" /\ ~job[j].deleted
            ~> job[j].deleted \/ \E i \in Disabled : job[i].phase = "open"
=============================================================================
