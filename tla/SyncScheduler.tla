--------------------------- MODULE SyncScheduler ----------------------------
(***************************************************************************)
(* The background usage sync (backend/app/services/                        *)
(* usage_sync_scheduler.py): every API process runs a tick loop that       *)
(* dispatches a job for each organization that is due, guarded by a set in *)
(* the process and a Redis lock with a time to live.                       *)
(*                                                                         *)
(* One action runs from one await to the next.  Redis and the database are *)
(* external: one command or transaction is atomic.  A job is one database  *)
(* transaction, so its run rows, by which "due" is computed, appear with   *)
(* its commit.                                                             *)
(***************************************************************************)
EXTENDS Naturals, FiniteSets

CONSTANTS
    Processes,      \* API processes
    Orgs,           \* organizations with auto sync enabled
    MaxConcurrent,  \* max_concurrent_orgs
    NoOne,          \* the lock is free
    RedisFaults,    \* a Redis command may fail
    MaxCrashes      \* bound: how often a process may die

ASSUME SchedulerAssumption ==
    /\ MaxConcurrent \in Nat \ {0} /\ MaxCrashes \in Nat
    /\ RedisFaults \in BOOLEAN
    /\ NoOne \notin Processes /\ Orgs # {}

VARIABLES
    due,      \* organizations whose interval has passed since their last run
    lock,     \* lock[o]: the process that set scheduler:lock:org:o (the
              \* value stored is "1", nobody can read the owner back)
    running,  \* running[p]: _running_org_ids
    tick,     \* tick[p]: asleep, looking, or locking
    at,       \* at[p]: the organization it is locking
    left,     \* left[p]: organizations of this tick still to look at
    job,      \* job[p][o]: the job of o in p, by _run_job's progress
    ending,   \* ending[p]: organizations whose job in p is done and has
              \* still to release the lock
    unguarded, \* organizations a job of which is, or was, without its lock,
               \* until all their jobs are over
    crashes

tickVars == <<tick, at, left>>
jobVars  == <<running, job, ending>>
schedulerVars == <<due, lock, tickVars, jobVars, unguarded, crashes>>

Syncing(o) == {p \in Processes : job[p][o] = "syncing"}

(* The permits of p's semaphore in use: one is held until the lock is gone. *)
InSync(p) == {o \in Orgs : job[p][o] = "syncing"}
Permits(p) == Cardinality(InSync(p)) + Cardinality(ending[p])

(* p still has a job of o, or its epilogue, to run.                        *)
WorksOn(p, o) == job[p][o] # "none" \/ o \in ending[p]

(* Of the organizations of S, those that some process still works on.      *)
Unguarded(S) == unguarded' = {o \in S : \E p \in Processes : WorksOn(p, o)'}
-----------------------------------------------------------------------------
SchedulerInit ==
    /\ due \in SUBSET Orgs
    /\ lock = [o \in Orgs |-> NoOne]
    /\ tick = [p \in Processes |-> "asleep"]
    /\ at = [p \in Processes |-> CHOOSE o \in Orgs : TRUE]
    /\ left = [p \in Processes |-> {}]
    /\ running = [p \in Processes |-> {}]
    /\ job = [p \in Processes |-> [o \in Orgs |-> "none"]]
    /\ ending = [p \in Processes |-> {}]
    /\ unguarded = {}
    /\ crashes = 0
-----------------------------------------------------------------------------
(* The tick loop of one process                                            *)

StartTick(p) ==
    /\ tick[p] = "asleep"
    /\ tick' = [tick EXCEPT ![p] = "looking"]
    /\ left' = [left EXCEPT ![p] = Orgs]
    /\ UNCHANGED <<due, lock, at, jobVars, unguarded, crashes>>

LookAt(p, o) ==
    /\ tick[p] = "looking"
    /\ o \in left[p]
    /\ left' = [left EXCEPT ![p] = @ \ {o}]
    /\ UNCHANGED <<due, lock, jobVars, unguarded, crashes>>

(* in _running_org_ids, or _is_due answers False                           *)
Skip(p, o) ==
    /\ LookAt(p, o)
    /\ o \in running[p] \/ o \notin due
    /\ UNCHANGED <<tick, at>>

FindDue(p, o) ==
    /\ LookAt(p, o)
    /\ o \notin running[p] /\ o \in due
    /\ tick' = [tick EXCEPT ![p] = "locking"]
    /\ at' = [at EXCEPT ![p] = o]

EndTick(p) ==
    /\ tick[p] = "looking"
    /\ left[p] = {}
    /\ tick' = [tick EXCEPT ![p] = "asleep"]
    /\ UNCHANGED <<due, lock, at, left, jobVars, unguarded, crashes>>

Locking(p) ==
    /\ tick[p] = "locking"
    /\ tick' = [tick EXCEPT ![p] = "looking"]
    /\ UNCHANGED <<due, at, left, ending, crashes>>

(* the job record is queued and its task created                           *)
Dispatch(p) ==
    /\ running' = [running EXCEPT ![p] = @ \cup {at[p]}]
    /\ job' = [job EXCEPT ![p][at[p]] = "queued"]

(* Mutation: SET without NX.                                             *)
AcquireAnyway(p) ==
    /\ Locking(p)
    /\ lock' = [lock EXCEPT ![at[p]] = p]
    /\ Dispatch(p)
    /\ UNCHANGED unguarded

(* SET key "1" NX EX ttl                                                   *)
AcquireLock(p) ==
    /\ Locking(p)
    /\ lock[at[p]] = NoOne
    /\ lock' = [lock EXCEPT ![at[p]] = p]
    /\ Dispatch(p)
    /\ UNCHANGED unguarded

LockedElsewhere(p) ==
    /\ Locking(p)
    /\ lock[at[p]] # NoOne
    /\ UNCHANGED <<lock, running, job, unguarded>>

(* Redis unreachable: the job is dispatched without a lock.                *)
FailOpen(p) ==
    /\ RedisFaults
    /\ Locking(p)
    /\ UNCHANGED lock
    /\ Dispatch(p)
    /\ Unguarded(unguarded \cup {at[p]})

Tick(p) ==
    \/ StartTick(p) \/ EndTick(p)
    \/ \E o \in Orgs : Skip(p, o) \/ FindDue(p, o)
    \/ AcquireLock(p) \/ LockedElsewhere(p) \/ FailOpen(p)
-----------------------------------------------------------------------------
(* _run_job                                                                *)

StartJob(p, o) ==
    /\ job[p][o] = "queued"
    /\ Permits(p) < MaxConcurrent
    /\ job' = [job EXCEPT ![p][o] = "syncing"]
    /\ UNCHANGED <<due, lock, tickVars, running, ending, unguarded, crashes>>

(* The epilogue of one job is over before the next job of o in p is done.  *)
EndJob(p, o) ==
    /\ job[p][o] = "syncing"
    /\ o \notin ending[p]
    /\ job' = [job EXCEPT ![p][o] = "none"]
    /\ running' = [running EXCEPT ![p] = @ \ {o}]
    /\ ending' = [ending EXCEPT ![p] = @ \cup {o}]
    /\ UNCHANGED <<lock, tickVars, unguarded, crashes>>

(* session.begin() commits the runs, completed or failed.                  *)
JobCommits(p, o) == EndJob(p, o) /\ due' = due \ {o}

(* The transaction is rolled back, or the organization has no connection   *)
(* to sync: there is no run row to count the interval from.                *)
JobLeavesNoRun(p, o) == EndJob(p, o) /\ UNCHANGED due

(* DEL, whoever set the key; an error is suppressed.                       *)
ReleaseLock(p, o) ==
    /\ o \in ending[p]
    /\ ending' = [ending EXCEPT ![p] = @ \ {o}]
    /\ \/ lock' = [lock EXCEPT ![o] = NoOne]
       \/ RedisFaults /\ UNCHANGED lock
    /\ UNCHANGED <<due, tickVars, running, job, crashes>>
    /\ Unguarded(unguarded)

RunJob(p, o) ==
    StartJob(p, o) \/ JobCommits(p, o) \/ JobLeavesNoRun(p, o) \/ ReleaseLock(p, o)
-----------------------------------------------------------------------------
(* time, and processes that come and go                                    *)

IntervalPasses(o) ==
    /\ o \notin due
    /\ due' = due \cup {o}
    /\ UNCHANGED <<lock, tickVars, jobVars, unguarded, crashes>>

(* Mutation: the lock has no time to live.                               *)
LockStays(o) == lock[o] # NoOne /\ UNCHANGED schedulerVars

(* The time to live counts from the SET, a job has no time limit.          *)
LockExpires(o) ==
    /\ lock[o] # NoOne
    /\ lock' = [lock EXCEPT ![o] = NoOne]
    /\ UNCHANGED <<due, tickVars, jobVars, crashes>>
    /\ Unguarded(unguarded \cup {o})

(* A process is replaced.  Killed, it leaves its locks behind; stopped,    *)
(* jobs that were syncing may still get to delete their key, whoever set   *)
(* it.                                                                     *)
Restart(p) ==
    /\ crashes < MaxCrashes
    /\ crashes' = crashes + 1
    /\ \E freed \in SUBSET (InSync(p) \cup ending[p]) :
          lock' = [o \in Orgs |-> IF o \in freed THEN NoOne ELSE lock[o]]
    /\ tick' = [tick EXCEPT ![p] = "asleep"]
    /\ left' = [left EXCEPT ![p] = {}]
    /\ running' = [running EXCEPT ![p] = {}]
    /\ job' = [job EXCEPT ![p] = [o \in Orgs |-> "none"]]
    /\ ending' = [ending EXCEPT ![p] = {}]
    /\ Unguarded(unguarded)
    /\ UNCHANGED <<due, at>>
-----------------------------------------------------------------------------
SchedulerNext ==
    \/ \E p \in Processes : Tick(p) \/ Restart(p) \/ \E o \in Orgs : RunJob(p, o)
    \/ \E o \in Orgs : IntervalPasses(o) \/ LockExpires(o)

SchedulerSpec == SchedulerInit /\ [][SchedulerNext]_schedulerVars

(* Loops and jobs run, a job that is run again and again commits in the    *)
(* end, Redis answers now and then, and keys nobody works under expire.    *)
SchedulerFairness ==
    /\ \A p \in Processes : WF_schedulerVars(Tick(p))
    /\ \A o \in Orgs :
          /\ WF_schedulerVars(LockExpires(o) /\ ~WorksOn(lock[o], o))
          /\ SF_schedulerVars(\E p \in Processes : JobCommits(p, o))
          /\ \A p \in Processes : WF_schedulerVars(RunJob(p, o))

SchedulerFairSpec == SchedulerSpec /\ SchedulerFairness
-----------------------------------------------------------------------------
SchedulerTypeOK ==
    /\ due \subseteq Orgs
    /\ lock \in [Orgs -> Processes \cup {NoOne}]
    /\ tick \in [Processes -> {"asleep", "looking", "locking"}]
    /\ at \in [Processes -> Orgs]
    /\ left \in [Processes -> SUBSET Orgs]
    /\ running \in [Processes -> SUBSET Orgs]
    /\ job \in [Processes -> [Orgs -> {"none", "queued", "syncing"}]]
    /\ ending \in [Processes -> SUBSET Orgs]
    /\ \A p \in Processes : Permits(p) <= MaxConcurrent
    /\ unguarded \subseteq Orgs
    /\ crashes \in 0..MaxCrashes

(* Two processes sync one organization at the same time only once its lock *)
(* has run out under a job or Redis has not answered, and only until the   *)
(* jobs of then are over: no late DEL, of a key another process set, opens *)
(* the organization again.  And a process holds the in-process guard of    *)
(* just the organizations it has a job for: no leaked entry keeps one from *)
(* syncing, and no second job is dispatched beside the first, also not by  *)
(* a tick that looked before and locked after.                             *)
SyncedApart == \A o \in Orgs \ unguarded : Cardinality(Syncing(o)) <= 1

GuardIsExact ==
    \A p \in Processes :
        /\ running[p] = {o \in Orgs : job[p][o] # "none"}
        /\ tick[p] = "locking" => at[p] \notin running[p]

OneSyncPerOrg == SyncedApart /\ GuardIsExact

(* "Resume-after-interruption, and recovery-after-deployment-restart":     *)
(* an organization that is due is synced, also after the process that held *)
(* its lock died.                                                          *)
EveryDueOrgIsSynced == \A o \in Orgs : o \in due ~> o \notin due
=============================================================================
