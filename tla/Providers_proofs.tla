-------------------------- MODULE Providers_proofs ---------------------------
(***************************************************************************)
(* The syncs of provider connections: who may run one, and what the runs   *)
(* of one connection leave behind; the edits of a connection, what the     *)
(* calls to providers charge for, and what usage costs.                    *)
(*                                                                         *)
(* The scheduler, for any number of processes and organizations: the       *)
(* in-process guard and the semaphore whatever fails, and the Redis lock,  *)
(* which keeps syncs apart but for the jobs it runs out under, or that     *)
(* were dispatched while Redis did not answer.                             *)
(*                                                                         *)
(* The checkpoint of a provider connection never passes usage that is not  *)
(* stored, for any number of overlapping runs, any page limit and any      *)
(* failures.  The argument: what a run will not ask for again, because it  *)
(* is before its window or before its cursor, is excused or among what it  *)
(* wrote; the page it holds has everything of its window up to the page's  *)
(* last unit; so the checkpoint it is about to commit passes only what it  *)
(* commits.                                                                *)
(***************************************************************************)
EXTENDS SyncScheduler, UsageCollection, ProviderConnections, ProviderCalls, UsagePricing,
        FiniteSetTheorems, SequenceTheorems, WellFoundedInduction, TLAPS

-----------------------------------------------------------------------------
(* The scheduler                                                           *)

SchedulerTypes ==
    /\ due \subseteq Orgs
    /\ lock \in [Orgs -> Processes \cup {NoOne}]
    /\ tick \in [Processes -> {"asleep", "looking", "locking"}]
    /\ at \in [Processes -> Orgs]
    /\ left \in [Processes -> SUBSET Orgs]
    /\ running \in [Processes -> SUBSET Orgs]
    /\ job \in [Processes -> [Orgs -> {"none", "queued", "syncing"}]]
    /\ ending \in [Processes -> SUBSET Orgs]
    /\ unguarded \subseteq Orgs
    /\ crashes \in 0..MaxCrashes

(* What it takes to count permits, of any number of organizations.         *)
PermitsAreCounted ==
    \A p \in Processes :
        /\ IsFiniteSet(InSync(p)) /\ IsFiniteSet(ending[p])
        /\ Permits(p) <= MaxConcurrent

SchedulerInv == SchedulerTypes /\ GuardIsExact /\ PermitsAreCounted

LEMMA InitSchedulerInv == SchedulerInit => SchedulerInv
<1> SUFFICES ASSUME SchedulerInit PROVE SchedulerInv
  OBVIOUS
<1>1. ASSUME NEW p \in Processes PROVE InSync(p) = {} /\ ending[p] = {}
  <2>1. ending[p] = {} /\ \A o \in Orgs : job[p][o] = "none"
    BY DEF SchedulerInit
  <2>2. QED
    BY <2>1 DEF InSync
<1>2. PermitsAreCounted
  BY <1>1, FS_EmptySet, SchedulerAssumption DEF PermitsAreCounted, Permits
<1>3. SchedulerTypes /\ GuardIsExact
  BY SchedulerAssumption DEF SchedulerInit, SchedulerTypes, GuardIsExact
<1>4. QED
  BY <1>2, <1>3 DEF SchedulerInv

(* The tick loop creates a job only for what the guard does not name.      *)
LEMMA TickKeepsSchedulerInv ==
    ASSUME SchedulerInv, NEW p \in Processes, Tick(p)
    PROVE  SchedulerInv'
<1>1. SchedulerTypes' /\ GuardIsExact' /\ (\A q \in Processes : UNCHANGED <<InSync(q), ending>>)
  <2>1. CASE StartTick(p)
    BY <2>1 DEF StartTick, jobVars, SchedulerInv, SchedulerTypes, GuardIsExact, InSync
  <2>2. CASE EndTick(p)
    BY <2>2 DEF EndTick, jobVars, SchedulerInv, SchedulerTypes, GuardIsExact, InSync
  <2>3. CASE \E o \in Orgs : Skip(p, o)
    BY <2>3 DEF Skip, LookAt, jobVars, SchedulerInv, SchedulerTypes, GuardIsExact, InSync
  <2>4. CASE \E o \in Orgs : FindDue(p, o)
    BY <2>4 DEF FindDue, LookAt, jobVars, SchedulerInv, SchedulerTypes, GuardIsExact, InSync
  <2>5. CASE LockedElsewhere(p)
    BY <2>5 DEF LockedElsewhere, Locking, SchedulerInv, SchedulerTypes, GuardIsExact, InSync
  <2>6. CASE AcquireLock(p) \/ FailOpen(p)
    <3>1. /\ tick[p] = "locking" /\ tick' = [tick EXCEPT ![p] = "looking"]
          /\ UNCHANGED <<due, at, left, ending, crashes>>
          /\ running' = [running EXCEPT ![p] = @ \cup {at[p]}]
          /\ job' = [job EXCEPT ![p][at[p]] = "queued"]
          /\ lock' \in {lock, [lock EXCEPT ![at[p]] = p]} /\ unguarded' \subseteq unguarded \cup {at[p]}
      BY <2>6 DEF AcquireLock, FailOpen, Locking, Dispatch, Unguarded
    <3>2. SchedulerTypes'
      BY <3>1 DEF SchedulerInv, SchedulerTypes
    <3>3. job[p][at[p]] = "none"
      BY <3>1 DEF SchedulerInv, SchedulerTypes, GuardIsExact
    <3>4. GuardIsExact'
      BY <3>1 DEF SchedulerInv, SchedulerTypes, GuardIsExact
    <3>5. \A q \in Processes : InSync(q)' = InSync(q)
      BY <3>1, <3>3 DEF SchedulerInv, SchedulerTypes, InSync
    <3>6. QED
      BY <3>1, <3>2, <3>4, <3>5
  <2>7. QED
    BY <2>1, <2>2, <2>3, <2>4, <2>5, <2>6 DEF Tick
<1>2. PermitsAreCounted'
  BY <1>1 DEF SchedulerInv, PermitsAreCounted, Permits
<1>3. QED
  BY <1>1, <1>2 DEF SchedulerInv

(* A job takes a permit when it starts and gives it back when the lock is  *)
(* gone.                                                                   *)
LEMMA JobKeepsSchedulerInv ==
    ASSUME SchedulerInv, NEW p \in Processes, NEW o \in Orgs, RunJob(p, o)
    PROVE  SchedulerInv'
<1> USE DEF SchedulerInv
<1>1. SchedulerTypes'
  <2>1. CASE StartJob(p, o)
    BY <2>1 DEF StartJob, tickVars, SchedulerTypes
  <2>2. CASE JobCommits(p, o) \/ JobLeavesNoRun(p, o)
    <3>1. /\ UNCHANGED <<lock, tick, at, left, unguarded, crashes>> /\ due' \subseteq Orgs
          /\ job' = [job EXCEPT ![p][o] = "none"]
      BY <2>2 DEF JobCommits, JobLeavesNoRun, EndJob, tickVars, SchedulerTypes
    <3>2. running' = [running EXCEPT ![p] = @ \ {o}] /\ ending' = [ending EXCEPT ![p] = @ \cup {o}]
      BY <2>2 DEF JobCommits, JobLeavesNoRun, EndJob
    <3>3. running' \in [Processes -> SUBSET Orgs] /\ ending' \in [Processes -> SUBSET Orgs]
      BY <3>2 DEF SchedulerTypes
    <3>4. QED
      BY <3>1, <3>3 DEF SchedulerTypes
  <2>3. CASE ReleaseLock(p, o)
    BY <2>3 DEF ReleaseLock, Unguarded, tickVars, SchedulerTypes
  <2>4. QED
    BY <2>1, <2>2, <2>3 DEF RunJob
<1>2. GuardIsExact'
  <2>1. CASE StartJob(p, o)
    BY <2>1 DEF StartJob, tickVars, SchedulerTypes, GuardIsExact
  <2>2. CASE JobCommits(p, o) \/ JobLeavesNoRun(p, o)
    <3>1. /\ job' = [job EXCEPT ![p][o] = "none"]
          /\ running' = [running EXCEPT ![p] = @ \ {o}]
          /\ UNCHANGED <<tick, at>>
      BY <2>2 DEF JobCommits, JobLeavesNoRun, EndJob, tickVars
    <3>2. QED
      BY <3>1 DEF SchedulerTypes, GuardIsExact
  <2>3. CASE ReleaseLock(p, o)
    BY <2>3 DEF ReleaseLock, tickVars, GuardIsExact
  <2>4. QED
    BY <2>1, <2>2, <2>3 DEF RunJob
<1>3. /\ IsFiniteSet(InSync(p)) /\ IsFiniteSet(ending[p])
      /\ Cardinality(InSync(p)) \in Nat /\ Cardinality(ending[p]) \in Nat
      /\ Permits(p) <= MaxConcurrent
  BY FS_CardinalityType DEF PermitsAreCounted
<1>4. \A q \in Processes \ {p} : UNCHANGED <<InSync(q), ending[q]>>
  BY DEF RunJob, StartJob, JobCommits, JobLeavesNoRun, EndJob, ReleaseLock, SchedulerTypes, InSync
<1>5. IsFiniteSet(InSync(p)') /\ IsFiniteSet(ending'[p]) /\ Permits(p)' <= MaxConcurrent
  <2>1. CASE StartJob(p, o)
    <3>1. InSync(p)' = InSync(p) \cup {o} /\ o \notin InSync(p) /\ ending' = ending
          /\ Permits(p) < MaxConcurrent
      BY <2>1 DEF StartJob, SchedulerTypes, InSync
    <3>2. IsFiniteSet(InSync(p) \cup {o}) /\ Cardinality(InSync(p) \cup {o}) = Cardinality(InSync(p)) + 1
      BY <1>3, <3>1, FS_AddElement
    <3>3. QED
      BY <1>3, <3>1, <3>2, SchedulerAssumption DEF Permits
  <2>2. CASE JobCommits(p, o) \/ JobLeavesNoRun(p, o)
    <3>1. /\ InSync(p)' = InSync(p) \ {o} /\ o \in InSync(p)
          /\ ending'[p] = ending[p] \cup {o} /\ o \notin ending[p]
      BY <2>2 DEF JobCommits, JobLeavesNoRun, EndJob, SchedulerTypes, InSync
    <3>2. IsFiniteSet(InSync(p) \ {o}) /\ Cardinality(InSync(p) \ {o}) = Cardinality(InSync(p)) - 1
      BY <1>3, <3>1, FS_RemoveElement
    <3>3. IsFiniteSet(ending[p] \cup {o}) /\ Cardinality(ending[p] \cup {o}) = Cardinality(ending[p]) + 1
      BY <1>3, <3>1, FS_AddElement
    <3>4. QED
      BY <1>3, <3>1, <3>2, <3>3, SchedulerAssumption DEF Permits
  <2>3. CASE ReleaseLock(p, o)
    <3>1. InSync(p)' = InSync(p) /\ ending'[p] = ending[p] \ {o} /\ o \in ending[p]
      BY <2>3 DEF ReleaseLock, SchedulerTypes, InSync
    <3>2. IsFiniteSet(ending[p] \ {o}) /\ Cardinality(ending[p] \ {o}) = Cardinality(ending[p]) - 1
      BY <1>3, <3>1, FS_RemoveElement
    <3>3. QED
      BY <1>3, <3>1, <3>2, SchedulerAssumption DEF Permits
  <2>4. QED
    BY <2>1, <2>2, <2>3 DEF RunJob
<1>6. PermitsAreCounted'
  BY <1>4, <1>5 DEF PermitsAreCounted, Permits
<1>7. QED
  BY <1>1, <1>2, <1>6

LEMMA RestartKeepsSchedulerInv ==
    ASSUME SchedulerInv, NEW p \in Processes, Restart(p)
    PROVE  SchedulerInv'
<1> USE DEF SchedulerInv
<1>1. /\ lock' \in [Orgs -> Processes \cup {NoOne}] /\ crashes' \in 0..MaxCrashes
      /\ job'[p] = [o \in Orgs |-> "none"] /\ running'[p] = {} /\ ending'[p] = {}
      /\ tick'[p] = "asleep"
      /\ \A q \in Processes \ {p} : /\ job'[q] = job[q] /\ running'[q] = running[q]
                                    /\ ending'[q] = ending[q] /\ tick'[q] = tick[q]
      /\ UNCHANGED <<due, at>>
  BY SchedulerAssumption DEF Restart, SchedulerTypes
<1>2. SchedulerTypes'
  BY <1>1 DEF Restart, Unguarded, SchedulerTypes
<1>3. GuardIsExact'
  BY <1>1 DEF GuardIsExact
<1>4. InSync(p)' = {} /\ \A q \in Processes \ {p} : InSync(q)' = InSync(q)
  BY <1>1 DEF InSync
<1>5. PermitsAreCounted'
  <2>1. IsFiniteSet(InSync(p)') /\ IsFiniteSet(ending'[p]) /\ Permits(p)' = 0
    BY <1>1, <1>4, FS_EmptySet DEF Permits
  <2>2. \A q \in Processes \ {p} : UNCHANGED <<InSync(q), ending[q], Permits(q)>>
    BY <1>1, <1>4 DEF Permits
  <2>3. QED
    BY <2>1, <2>2, SchedulerAssumption DEF PermitsAreCounted
<1>6. QED
  BY <1>2, <1>3, <1>5

LEMMA SchedulerInvStep == SchedulerInv /\ [SchedulerNext]_schedulerVars => SchedulerInv'
<1> SUFFICES ASSUME SchedulerInv, [SchedulerNext]_schedulerVars PROVE SchedulerInv'
  OBVIOUS
<1>1. CASE UNCHANGED schedulerVars
  BY <1>1 DEF schedulerVars, tickVars, jobVars, SchedulerInv, SchedulerTypes, GuardIsExact,
              PermitsAreCounted, Permits, InSync
<1>2. CASE \E p \in Processes : Tick(p) \/ Restart(p) \/ \E o \in Orgs : RunJob(p, o)
  BY <1>2, TickKeepsSchedulerInv, RestartKeepsSchedulerInv, JobKeepsSchedulerInv
<1>3. CASE \E o \in Orgs : IntervalPasses(o) \/ LockExpires(o)
  <2>1. /\ UNCHANGED <<tick, at, left, running, job, ending, crashes>>
        /\ due' \subseteq Orgs /\ lock' \in [Orgs -> Processes \cup {NoOne}] /\ unguarded' \subseteq Orgs
    BY <1>3 DEF IntervalPasses, LockExpires, Unguarded, tickVars, jobVars, SchedulerInv, SchedulerTypes
  <2>2. SchedulerTypes' /\ GuardIsExact'
    BY <2>1 DEF SchedulerInv, SchedulerTypes, GuardIsExact
  <2>3. PermitsAreCounted'
    BY <2>1 DEF SchedulerInv, PermitsAreCounted, Permits, InSync
  <2>4. QED
    BY <2>2, <2>3 DEF SchedulerInv
<1>4. QED
  BY <1>1, <1>2, <1>3 DEF SchedulerNext

LEMMA SchedulerInvHolds == SchedulerSpec => []SchedulerInv
BY InitSchedulerInv, SchedulerInvStep, PTL DEF SchedulerSpec

(* The state keeps its types, and never more than max_concurrent_orgs jobs *)
(* of a process are between _run_job's first line and the lock's release,  *)
(* whatever Redis answers and however long a job takes.                    *)
THEOREM SchedulerTypeCorrect == SchedulerSpec => []SchedulerTypeOK
<1>1. SchedulerInv => SchedulerTypeOK
  BY DEF SchedulerInv, SchedulerTypes, PermitsAreCounted, SchedulerTypeOK
<1>2. QED
  BY <1>1, SchedulerInvHolds, PTL

(* One process never has two jobs of an organization, and never keeps one  *)
(* from a job by an entry of _running_org_ids it left behind: the guard    *)
(* needs neither Redis nor its lock.                                       *)
THEOREM SchedulerGuardIsExact == SchedulerSpec => []GuardIsExact
<1>1. SchedulerInv => GuardIsExact
  BY DEF SchedulerInv
<1>2. QED
  BY <1>1, SchedulerInvHolds, PTL
-----------------------------------------------------------------------------
(* The lock of an organization is its setter's until he is done with it,   *)
(* and there is nothing between the end of a job and the release of its    *)
(* lock but that release -- unless the organization is unguarded.          *)
Guarded(o) ==
    \A p \in Processes :
        /\ WorksOn(p, o) => lock[o] = p
        /\ o \in ending[p] => job[p][o] = "none"

WorkHoldsLock == \A o \in Orgs \ unguarded : Guarded(o)

(* What is left of the guarded ones is so because nobody works on it.      *)
LEMMA UnguardedStep ==
    ASSUME SchedulerTypes, NEW S, Unguarded(S),
           \A o \in Orgs \ S : Guarded(o)'
    PROVE  WorkHoldsLock'
<1> SUFFICES ASSUME NEW o \in Orgs \ unguarded' PROVE Guarded(o)'
  BY DEF WorkHoldsLock
<1>1. CASE o \notin S
  BY <1>1
<1>2. CASE o \in S
  <2>1. \A p \in Processes : ~WorksOn(p, o)'
    BY <1>2 DEF Unguarded
  <2>2. QED
    BY <2>1 DEF Guarded, WorksOn
<1>3. QED
  BY <1>1, <1>2

LEMMA WorkHoldsLockStep ==
    ASSUME SchedulerInv, WorkHoldsLock, [SchedulerNext]_schedulerVars
    PROVE  WorkHoldsLock'
<1> USE DEF SchedulerInv
<1>1. CASE UNCHANGED schedulerVars
  BY <1>1 DEF schedulerVars, tickVars, jobVars, WorkHoldsLock, Guarded, WorksOn
<1>2. ASSUME NEW p \in Processes, Tick(p) PROVE WorkHoldsLock'
  <2>1. CASE UNCHANGED <<lock, job, ending, unguarded>>
    BY <2>1 DEF WorkHoldsLock, Guarded, WorksOn
  <2>2. CASE AcquireLock(p)
    <3>1. /\ at[p] \in Orgs /\ lock[at[p]] = NoOne /\ lock' = [lock EXCEPT ![at[p]] = p]
          /\ job' = [job EXCEPT ![p][at[p]] = "queued"] /\ UNCHANGED <<ending, unguarded>>
      BY <2>2 DEF AcquireLock, Locking, Dispatch, SchedulerTypes
    <3>2. at[p] \notin unguarded => \A q \in Processes : ~WorksOn(q, at[p])
      BY <3>1, SchedulerAssumption DEF WorkHoldsLock, Guarded
    <3>3. QED
      BY <3>1, <3>2 DEF WorkHoldsLock, Guarded, WorksOn, SchedulerTypes
  <2>3. CASE FailOpen(p)
    <3>1. /\ at[p] \in Orgs /\ UNCHANGED <<lock, ending>> /\ Unguarded(unguarded \cup {at[p]})
          /\ job' = [job EXCEPT ![p][at[p]] = "queued"]
      BY <2>3 DEF FailOpen, Locking, Dispatch, SchedulerTypes
    <3>2. \A o \in Orgs \ (unguarded \cup {at[p]}) : Guarded(o)'
      BY <3>1 DEF WorkHoldsLock, Guarded, WorksOn, SchedulerTypes
    <3>3. QED
      BY <3>1, <3>2, UnguardedStep
  <2>4. QED
    BY <1>2, <2>1, <2>2, <2>3
       DEF Tick, StartTick, EndTick, Skip, FindDue, LookAt, LockedElsewhere, Locking, jobVars
<1>3. ASSUME NEW p \in Processes, NEW o \in Orgs, RunJob(p, o) PROVE WorkHoldsLock'
  <2>1. CASE StartJob(p, o)
    BY <2>1 DEF StartJob, WorkHoldsLock, Guarded, WorksOn, SchedulerTypes
  <2>2. CASE JobCommits(p, o) \/ JobLeavesNoRun(p, o)
    <3>1. /\ job[p][o] = "syncing" /\ job' = [job EXCEPT ![p][o] = "none"]
          /\ ending' = [ending EXCEPT ![p] = @ \cup {o}] /\ UNCHANGED <<lock, unguarded>>
      BY <2>2 DEF JobCommits, JobLeavesNoRun, EndJob
    <3>2. \A q \in Processes, r \in Orgs \ unguarded :
             /\ WorksOn(q, r)' => WorksOn(q, r)
             /\ r \in ending'[q] => job'[q][r] = "none"
      BY <3>1 DEF WorkHoldsLock, Guarded, WorksOn, SchedulerTypes
    <3>3. QED
      BY <3>1, <3>2 DEF WorkHoldsLock, Guarded
  <2>3. CASE ReleaseLock(p, o)
    <3>1. /\ o \in ending[p] /\ ending' = [ending EXCEPT ![p] = @ \ {o}]
          /\ lock' = [lock EXCEPT ![o] = NoOne] \/ lock' = lock
          /\ UNCHANGED job /\ Unguarded(unguarded)
      BY <2>3 DEF ReleaseLock
    <3>2. ASSUME NEW r \in Orgs \ unguarded PROVE Guarded(r)'
      <4>1. Guarded(r)
        BY DEF WorkHoldsLock
      <4>2. CASE r # o
        BY <3>1, <4>1, <4>2 DEF Guarded, WorksOn, SchedulerTypes
      <4>3. CASE r = o
        <5>1. lock[o] = p /\ job[p][o] = "none"
          BY <3>1, <4>1, <4>3 DEF Guarded, WorksOn
        <5>2. \A q \in Processes \ {p} : ~WorksOn(q, o)
          BY <4>1, <4>3, <5>1 DEF Guarded
        <5>3. \A q \in Processes : ~WorksOn(q, o)'
          BY <3>1, <5>1, <5>2 DEF WorksOn, SchedulerTypes
        <5>4. QED
          BY <4>3, <5>3 DEF Guarded, WorksOn
      <4>4. QED
        BY <4>2, <4>3
    <3>3. QED
      BY <3>1, <3>2, UnguardedStep
  <2>4. QED
    BY <1>3, <2>1, <2>2, <2>3 DEF RunJob
<1>4. ASSUME NEW p \in Processes, Restart(p) PROVE WorkHoldsLock'
  <2>1. /\ \A o \in Orgs : job'[p][o] = "none" /\ o \notin ending'[p]
        /\ \A q \in Processes \ {p} : job'[q] = job[q] /\ ending'[q] = ending[q]
        /\ \A o \in Orgs : lock'[o] = lock[o] \/ WorksOn(p, o)
        /\ Unguarded(unguarded)
    BY <1>4 DEF Restart, SchedulerTypes, InSync, WorksOn
  <2>2. ASSUME NEW o \in Orgs \ unguarded PROVE Guarded(o)'
    <3>1. Guarded(o)
      BY DEF WorkHoldsLock
    <3>2. CASE lock'[o] = lock[o]
      BY <2>1, <3>1, <3>2 DEF Guarded, WorksOn
    <3>3. CASE WorksOn(p, o)
      <4>1. \A q \in Processes \ {p} : ~WorksOn(q, o)
        BY <3>1, <3>3 DEF Guarded
      <4>2. \A q \in Processes : ~WorksOn(q, o)'
        BY <2>1, <4>1 DEF WorksOn
      <4>3. QED
        BY <4>2 DEF Guarded, WorksOn
    <3>4. QED
      BY <2>1, <3>2, <3>3
  <2>3. QED
    BY <2>1, <2>2, UnguardedStep
<1>5. ASSUME NEW o \in Orgs, IntervalPasses(o) PROVE WorkHoldsLock'
  BY <1>5 DEF IntervalPasses, jobVars, WorkHoldsLock, Guarded, WorksOn
<1>6. ASSUME NEW o \in Orgs, LockExpires(o) PROVE WorkHoldsLock'
  <2>1. /\ lock' = [lock EXCEPT ![o] = NoOne] /\ UNCHANGED <<job, ending>>
        /\ Unguarded(unguarded \cup {o})
    BY <1>6 DEF LockExpires, jobVars
  <2>2. \A r \in Orgs \ (unguarded \cup {o}) : Guarded(r)'
    BY <2>1 DEF WorkHoldsLock, Guarded, WorksOn, SchedulerTypes
  <2>3. QED
    BY <2>1, <2>2, UnguardedStep
<1>7. QED
  BY <1>1, <1>2, <1>3, <1>4, <1>5, <1>6 DEF SchedulerNext

(* No two processes sync an organization at the same time, unless its lock *)
(* ran out under a job or Redis did not answer when one was dispatched,    *)
(* and then only until the jobs of that time are over, whichever keys      *)
(* their releases delete; and the guard of each process is exact.          *)
THEOREM SchedulerSyncsApart == SchedulerSpec => []OneSyncPerOrg
<1>1. SchedulerInit => WorkHoldsLock
  BY DEF SchedulerInit, WorkHoldsLock, Guarded, WorksOn
<1>2. SchedulerInv /\ WorkHoldsLock /\ [SchedulerNext]_schedulerVars => WorkHoldsLock'
  BY WorkHoldsLockStep
<1>3. SchedulerInv /\ WorkHoldsLock => OneSyncPerOrg
  <2> SUFFICES ASSUME SchedulerInv, WorkHoldsLock PROVE OneSyncPerOrg
    OBVIOUS
  <2>1. ASSUME NEW o \in Orgs \ unguarded PROVE Cardinality(Syncing(o)) <= 1
    <3>1. Syncing(o) \in SUBSET {lock[o]}
      BY DEF Syncing, WorkHoldsLock, Guarded, WorksOn
    <3>2. IsFiniteSet({lock[o]}) /\ Cardinality({lock[o]}) = 1
      BY FS_Singleton
    <3>3. QED
      BY <3>1, <3>2, FS_Subset
  <2>2. QED
    BY <2>1 DEF OneSyncPerOrg, SyncedApart, SchedulerInv
<1>4. QED
  BY <1>1, <1>2, <1>3, SchedulerInvHolds, PTL DEF SchedulerSpec
-----------------------------------------------------------------------------
(* Usage collection: sets of instants                                      *)


(* Among subsets of a finite set one has none below it.                    *)
LEMMA SmallestSet ==
    ASSUME NEW S, IsFiniteSet(S), NEW T, \A A \in T : A \subseteq S, T # {}
    PROVE  \E A \in T : \A B \in T : B \subseteq A => B = A
<1> DEFINE R == StrictSubsetOrdering(S)
<1>1. IsWellFoundedOn(R, FiniteSubsetsOf(S)) /\ FiniteSubsetsOf(S) = SUBSET S
  BY FS_StrictSubsetOrderingWellFounded, FS_FiniteSubsetsOfFinite
<1>2. \A A, B \in SUBSET S : A \subseteq B /\ A # B => <<A, B>> \in R
  BY DEF StrictSubsetOrdering
<1> HIDE DEF R
<1>3. PICK A \in T : \A B \in T : <<B, A>> \notin R
  <2>1. T \subseteq FiniteSubsetsOf(S)
    BY <1>1
  <2>2. QED
    BY <1>1, <2>1, WFMin
<1>4. QED
  BY <1>2, <1>3

(* A finite set of numbers has a maximum, and Max is it: the set of those  *)
(* above it is empty.                                                      *)
LEMMA HasMaximum ==
    ASSUME NEW S \in SUBSET Nat, S # {}, IsFiniteSet(S)
    PROVE  Max(S) \in S /\ \A y \in S : Max(S) >= y
<1> DEFINE above(x) == {y \in S : y > x}
           T == {above(x) : x \in S}
<1>1. (\A A \in T : A \subseteq S) /\ T # {}
  OBVIOUS
<1> HIDE DEF T
<1>2. PICK A \in T : \A B \in T : B \subseteq A => B = A
  BY <1>1, SmallestSet
<1>3. PICK x \in S : A = above(x)
  BY <1>2 DEF T
<1>4. ASSUME NEW y \in S, y > x PROVE FALSE
  <2>1. x \in Nat /\ y \in Nat
    OBVIOUS
  <2>2. \A z \in above(y) : z \in Nat /\ z \in S /\ z > x
    BY <1>4, <2>1
  <2>3. above(y) \subseteq above(x) /\ above(y) \in T
    BY <2>2 DEF T
  <2>4. above(y) = above(x)
    BY <1>2, <1>3, <2>3
  <2>5. y \in above(x) /\ y \notin above(y)
    BY <1>4, <2>1
  <2>6. QED
    BY <2>4, <2>5
<1>5. \A y \in S : x >= y
  BY <1>4
<1>6. QED
  BY <1>5 DEF Max

(* The page: the first units of a window, and it is not empty unless the   *)
(* window is.                                                              *)
LEMMA FirstOfIsPrefix ==
    ASSUME NEW S \in SUBSET Nat, IsFiniteSet(S), NEW n \in Nat \ {0}
    PROVE  /\ FirstOf(S, n) \subseteq S
           /\ \A e \in S \ FirstOf(S, n) : \A f \in FirstOf(S, n) : f < e
           /\ FirstOf(S, n) # S => FirstOf(S, n) # {}
<1> DEFINE below(e) == {f \in S : f < e}
           T == {below(e) : e \in S}
<1>1. \A e \in S : below(e) \in SUBSET S
  OBVIOUS
<1>2. \A e \in S : IsFiniteSet(below(e)) /\ Cardinality(below(e)) \in Nat
  BY <1>1, FS_Subset, FS_CardinalityType
<1>3. \A e, f \in S : e <= f => below(e) \subseteq below(f)
  <2>1. SUFFICES ASSUME NEW e \in S, NEW f \in S, e <= f, NEW g \in below(e) PROVE g \in below(f)
    OBVIOUS
  <2>2. e \in Nat /\ f \in Nat /\ g \in Nat /\ g \in S
    OBVIOUS
  <2>3. QED
    BY <2>1, <2>2
<1>4. ASSUME NEW e \in S \ FirstOf(S, n), NEW f \in FirstOf(S, n) PROVE f < e
  <2>1. Cardinality(below(f)) < n /\ ~(Cardinality(below(e)) < n) /\ e \in S /\ f \in S
    BY <1>4 DEF FirstOf
  <2> HIDE DEF below
  <2>2. ASSUME e <= f PROVE FALSE
    <3>1. below(e) \in SUBSET below(f)
      BY <1>3, <2>1, <2>2
    <3>2. Cardinality(below(e)) <= Cardinality(below(f))
      BY <1>2, <2>1, <3>1, FS_Subset
    <3>3. QED
      BY <1>2, <2>1, <3>2
  <2>3. QED
    BY <2>1, <2>2
<1>5. ASSUME S # {} PROVE FirstOf(S, n) # {}
  <2>1. (\A A \in T : A \subseteq S) /\ T # {}
    BY <1>1, <1>5
  <2> HIDE DEF T
  <2>2. PICK A \in T : \A B \in T : B \subseteq A => B = A
    BY <2>1, SmallestSet
  <2>3. PICK e \in S : A = below(e)
    BY <2>2 DEF T
  <2>4. ASSUME NEW f \in S, f < e PROVE FALSE
    <3>1. f \in below(e) /\ f \notin below(f) /\ below(f) \in T /\ f <= e
      BY <2>4 DEF T
    <3>2. below(f) \subseteq below(e)
      BY <1>3, <3>1
    <3>3. below(f) = below(e)
      BY <2>2, <2>3, <3>1, <3>2
    <3>4. QED
      BY <3>1, <3>3
  <2>5. below(e) = {}
    BY <2>4
  <2>6. Cardinality(below(e)) = 0
    BY <2>5, FS_EmptySet
  <2>7. e \in FirstOf(S, n)
    BY <2>6 DEF FirstOf
  <2>8. QED
    BY <2>7
<1>6. QED
  BY <1>4, <1>5 DEF FirstOf
-----------------------------------------------------------------------------
(* The invariant                                                           *)
Excused == collected \cup late \cup outdated \cup unanswered \cup invalid

SyncRecords ==
    [at : {"idle", "asking", "storing", "moving", "ending"},
     start : 0..MaxTime, end : 0..MaxTime, cursor : 0..MaxTime, page : SUBSET Instants, more : BOOLEAN,
     wrote : SUBSET Instants, moved : Checkpoints]

CollectionTypes ==
    /\ clock \in Instants /\ reported \subseteq 1..clock
    /\ collected \cup late \cup outdated \cup unanswered \subseteq reported
    /\ checkpoint \in Checkpoints
    /\ sync \in [Syncs -> SyncRecords]

(* A run looks at the past, and holds units the provider did report.       *)
InThePast(x) ==
    /\ sync[x].start <= clock /\ sync[x].end <= clock /\ sync[x].cursor < clock
    /\ sync[x].moved.last <= clock /\ sync[x].moved.cursor < clock
    /\ sync[x].page \cup sync[x].wrote \subseteq reported
    /\ \A e \in sync[x].page : e < sync[x].end

(* What it will not ask for                                                *)
BehindIsKept(x) ==
    \A e \in reported :
        /\ e < sync[x].start => e \in Excused
        /\ e <= sync[x].cursor => e \in Excused \cup sync[x].wrote

(* What it holds                                                           *)
PageIsPrefix(x) ==
    sync[x].at \in {"storing", "moving"} =>
        /\ \A e \in Window(x) :
              \/ e \in sync[x].page \cup Excused
              \/ sync[x].more /\ \A f \in sync[x].page : f < e
        /\ sync[x].more => sync[x].page # {}
        /\ sync[x].at = "moving" => sync[x].page \subseteq sync[x].wrote \cup invalid

(* What it will commit                                                     *)
MovedIsKept(x) ==
    \A e \in reported :
        e < sync[x].moved.last \/ e <= sync[x].moved.cursor => e \in Excused \cup sync[x].wrote

CheckpointIsPast == checkpoint.last <= clock /\ checkpoint.cursor < clock

SyncInv(x) == InThePast(x) /\ BehindIsKept(x) /\ PageIsPrefix(x) /\ MovedIsKept(x)

CollectionInv ==
    CollectionTypes /\ CheckpointIsPast /\ NothingSkipped /\ \A x \in Syncs : SyncInv(x)
LEMMA InitCollectionInv == CollectionInit => CollectionInv
<1> SUFFICES ASSUME CollectionInit PROVE CollectionInv
  OBVIOUS
<1>1. NoCheckpoint \in Checkpoints /\ clock \in Instants /\ 0 \in 0..MaxTime
  BY CollectionAssumption DEF CollectionInit, NoCheckpoint, Checkpoints, Instants
<1>2. IdleSync \in SyncRecords
  BY <1>1 DEF IdleSync, SyncRecords
<1>3. CollectionTypes /\ CheckpointIsPast /\ NothingSkipped
  BY <1>1, <1>2 DEF CollectionInit, CollectionTypes, CheckpointIsPast, NothingSkipped, NoCheckpoint
<1>4. ASSUME NEW x \in Syncs PROVE SyncInv(x)
  BY <1>1 DEF CollectionInit, SyncInv, InThePast, BehindIsKept, PageIsPrefix, MovedIsKept, IdleSync,
              NoCheckpoint
<1>5. QED
  BY <1>3, <1>4 DEF CollectionInv

(* Usage and time: what is reported now is after every window, and what is *)
(* reported late is excused.                                               *)
LEMMA WorldKeepsCollectionInv ==
    ASSUME CollectionInv, TimePasses \/ ReportUsage \/ (\E e \in Instants : ReportLate(e))
    PROVE  CollectionInv'
<1> USE DEF CollectionInv
<1>1. /\ UNCHANGED <<collected, checkpoint, outdated, unanswered, sync, invalid>>
      /\ clock' \in Instants /\ clock <= clock'
      /\ late \subseteq late' /\ late' \subseteq reported'
      /\ reported \subseteq reported' /\ reported' \subseteq 1..clock'
      /\ \A e \in reported' \ reported : e = clock \/ e \in late'
      /\ clock \in Nat /\ clock' \in Nat
  <2> USE CollectionAssumption DEF CollectionTypes, Instants
  <2>1. CASE TimePasses
    BY <2>1 DEF TimePasses, connection
  <2>2. CASE ReportUsage
    BY <2>2 DEF ReportUsage, Reports, connection
  <2>3. CASE \E e \in Instants : ReportLate(e)
    BY <2>3 DEF ReportLate, Reports, connection
  <2>4. QED
    BY <2>1, <2>2, <2>3
<1>2. Excused \subseteq Excused' /\ \A e \in reported' \ reported : e = clock \/ e \in Excused'
  BY <1>1 DEF Excused
<1>3. CollectionTypes'
  BY <1>1 DEF CollectionTypes
<1>4. CheckpointIsPast' /\ NothingSkipped'
  <2>1. checkpoint.last \in Nat /\ checkpoint.cursor \in Nat
    BY CollectionAssumption DEF CollectionTypes, Checkpoints
  <2>2. CheckpointIsPast'
    BY <1>1, <2>1 DEF CheckpointIsPast
  <2>3. ASSUME NEW e \in reported', Passed(e)' PROVE e \in Excused'
    <3>1. CASE e \in reported
      <4>1. Passed(e)
        BY <1>1, <2>3 DEF Passed
      <4>2. QED
        BY <1>2, <3>1, <4>1 DEF NothingSkipped, Excused
    <3>2. CASE e = clock
      BY <1>1, <2>1, <2>3, <3>2 DEF Passed, CheckpointIsPast
    <3>3. QED
      BY <1>2, <3>1, <3>2
  <2>4. QED
    BY <2>2, <2>3 DEF NothingSkipped, Excused
<1>5. ASSUME NEW x \in Syncs PROVE SyncInv(x)'
  <2> DEFINE r == sync[x]
  <2>1. /\ r.start \in Nat /\ r.end \in Nat /\ r.cursor \in Nat /\ r.moved.last \in Nat
        /\ r.moved.cursor \in Nat /\ sync'[x] = r
    BY <1>1, CollectionAssumption DEF CollectionTypes, SyncRecords, Checkpoints
  <2>2. /\ r.start <= clock /\ r.end <= clock /\ r.cursor < clock
        /\ r.moved.last <= clock /\ r.moved.cursor < clock
        /\ r.page \cup r.wrote \subseteq reported /\ \A e \in r.page : e < r.end
    BY DEF SyncInv, InThePast
  <2> HIDE DEF r
  <2>3. InThePast(x)'
    <3>1. /\ r.start <= clock' /\ r.end <= clock' /\ r.cursor < clock'
          /\ r.moved.last <= clock' /\ r.moved.cursor < clock'
      BY <1>1, <2>1, <2>2
    <3>2. r.page \cup r.wrote \subseteq reported'
      BY <1>1, <2>2
    <3>3. QED
      BY <2>1, <2>2, <3>1, <3>2 DEF InThePast
  <2>4. BehindIsKept(x)'
    <3>1. \A e \in reported :
             /\ e < r.start => e \in Excused
             /\ e <= r.cursor => e \in Excused \cup r.wrote
      BY DEF SyncInv, BehindIsKept, r
    <3>2. \A e \in reported' :
             /\ e < r.start => e \in Excused'
             /\ e <= r.cursor => e \in Excused' \cup r.wrote
      BY <1>1, <1>2, <2>1, <2>2, <3>1
    <3>3. QED
      BY <2>1, <3>2 DEF BehindIsKept
  <2>5. MovedIsKept(x)'
    <3>1. \A e \in reported :
             e < r.moved.last \/ e <= r.moved.cursor => e \in Excused \cup r.wrote
      BY DEF SyncInv, MovedIsKept, r
    <3>2. \A e \in reported' :
             e < r.moved.last \/ e <= r.moved.cursor => e \in Excused' \cup r.wrote
      BY <1>1, <1>2, <2>1, <2>2, <3>1
    <3>3. QED
      BY <2>1, <3>2 DEF MovedIsKept
  <2>6. PageIsPrefix(x)'
    <3>1. SUFFICES ASSUME r.at \in {"storing", "moving"} PROVE PageIsPrefix(x)'
      BY <2>1 DEF PageIsPrefix
    <3>2. /\ \A e \in Window(x) :
                \/ e \in r.page \cup Excused
                \/ r.more /\ \A f \in r.page : f < e
          /\ r.more => r.page # {}
          /\ r.at = "moving" => r.page \subseteq r.wrote \cup invalid
      BY <3>1 DEF SyncInv, PageIsPrefix, r
    <3>3. \A e \in Window(x)' : e \in Window(x) \/ e \in Excused'
      <4>1. \A e \in Window(x)' : e \in reported' /\ r.start <= e /\ e < r.end /\ e > r.cursor
        BY <2>1 DEF Window
      <4>2. \A e \in reported : r.start <= e /\ e < r.end /\ e > r.cursor => e \in Window(x)
        BY DEF Window, r
      <4>3. \A e \in reported' : e < r.end /\ e \notin reported => e \in Excused'
        BY <1>1, <1>2, <2>1, <2>2
      <4>4. QED
        BY <4>1, <4>2, <4>3
    <3>4. QED
      BY <1>1, <1>2, <2>1, <3>2, <3>3 DEF PageIsPrefix
  <2>7. QED
    BY <2>3, <2>4, <2>5, <2>6 DEF SyncInv
<1>6. QED
  BY <1>3, <1>4, <1>5-----------------------------------------------------------------------------
(* A step of run x: the others keep what they know.                        *)
LEMMA OtherRunsKept ==
    ASSUME CollectionInv, NEW x \in Syncs, \A y \in Syncs \ {x} : sync'[y] = sync[y],
           UNCHANGED <<clock, reported, invalid>>, Excused \subseteq Excused'
    PROVE  \A y \in Syncs \ {x} : SyncInv(y)'
<1> SUFFICES ASSUME NEW y \in Syncs \ {x} PROVE SyncInv(y)'
  OBVIOUS
<1>1. SyncInv(y) /\ sync'[y] = sync[y]
  BY DEF CollectionInv
<1>2. Window(y)' = Window(y)
  BY <1>1 DEF Window
<1>3. QED
  BY <1>1, <1>2 DEF SyncInv, InThePast, BehindIsKept, PageIsPrefix, MovedIsKept

(* A step of run x that commits nothing                                    *)
LEMMA RunStep ==
    ASSUME CollectionInv, NEW x \in Syncs, NEW r \in SyncRecords, sync' = [sync EXCEPT ![x] = r],
           UNCHANGED <<clock, reported, late, collected, checkpoint, invalid>>,
           Excused \subseteq Excused', outdated' \cup unanswered' \subseteq reported,
           SyncInv(x)'
    PROVE  CollectionInv'
<1>1. sync' \in [Syncs -> SyncRecords] /\ \A y \in Syncs \ {x} : sync'[y] = sync[y]
  BY DEF CollectionInv, CollectionTypes
<1>2. CollectionTypes'
  BY <1>1 DEF CollectionInv, CollectionTypes
<1>3. CheckpointIsPast'
  BY DEF CollectionInv, CheckpointIsPast
<1>4. NothingSkipped'
  BY DEF CollectionInv, NothingSkipped, Passed, Excused
<1>5. \A y \in Syncs : SyncInv(y)'
  BY <1>1, OtherRunsKept
<1>6. QED
  BY <1>2, <1>3, <1>4, <1>5 DEF CollectionInv

LEMMA RunIs ==
    ASSUME CollectionInv, NEW x \in Syncs
    PROVE  /\ sync[x] \in SyncRecords /\ SyncInv(x)
           /\ sync[x].start \in Nat /\ sync[x].end \in Nat /\ sync[x].cursor \in Nat
           /\ sync[x].moved.last \in Nat /\ sync[x].moved.cursor \in Nat
           /\ clock \in Nat /\ clock <= MaxTime /\ clock # 0 /\ MaxTime \in Nat
           /\ reported \subseteq Instants /\ \A e \in reported : e \in Nat /\ e <= clock /\ e # 0
BY CollectionAssumption DEF CollectionInv, CollectionTypes, SyncRecords, Checkpoints, Instants

LEMMA StartKeepsCollectionInv ==
    ASSUME CollectionInv, NEW x \in Syncs, StartSync(x)
    PROVE  CollectionInv'
<1> DEFINE start == Later(EffectiveStart, checkpoint.last)
           r == [IdleSync EXCEPT !.at = "asking", !.end = clock, !.cursor = checkpoint.cursor,
                                 !.start = start]
<1>1. /\ sync' = [sync EXCEPT ![x] = r]
      /\ outdated' = outdated \cup {e \in reported \ collected : e < OldestAllowed}
      /\ UNCHANGED <<unanswered, clock, reported, late, collected, checkpoint, invalid>>
  BY DEF StartSync, connection
<1>2. /\ checkpoint.last \in Nat /\ checkpoint.cursor \in Nat /\ checkpoint.last <= clock
      /\ checkpoint.cursor < clock
      /\ clock \in Nat /\ clock # 0 /\ clock <= MaxTime /\ MaxTime \in Nat
      /\ \A e \in reported : e \in Nat /\ e # 0
  BY RunIs DEF CollectionInv, CollectionTypes, Checkpoints, CheckpointIsPast
<1>3. OldestAllowed \in Nat /\ OldestAllowed <= clock
  BY <1>2, CollectionAssumption DEF OldestAllowed
<1>4. /\ start \in 0..MaxTime /\ start <= clock
      /\ \A e \in Nat : e < start => e < checkpoint.last \/ e < OldestAllowed
  BY <1>2, <1>3 DEF EffectiveStart, Later
<1> HIDE DEF start
<1>5. /\ r.at = "asking" /\ r.start = start /\ r.end = clock /\ r.cursor = checkpoint.cursor
      /\ r.page = {} /\ r.wrote = {} /\ r.moved = NoCheckpoint
  BY DEF IdleSync
<1>6. r \in SyncRecords
  <2>1. NoCheckpoint \in Checkpoints
    BY <1>2 DEF NoCheckpoint, Checkpoints
  <2>2. IdleSync \in SyncRecords
    BY <1>2, <2>1 DEF IdleSync, SyncRecords
  <2>3. clock \in 0..MaxTime /\ checkpoint.cursor \in 0..MaxTime
    BY <1>2
  <2>4. QED
    BY <1>4, <2>2, <2>3 DEF SyncRecords
<1> HIDE DEF r
<1>7. sync'[x] = r /\ sync[x] \in SyncRecords
  BY <1>1, RunIs DEF CollectionInv, CollectionTypes
<1>8. Excused \subseteq Excused' /\ outdated' \cup unanswered' \subseteq reported
  BY <1>1 DEF Excused, CollectionInv, CollectionTypes
<1>9. SyncInv(x)'
  <2>1. \A e \in reported : e < checkpoint.last \/ e <= checkpoint.cursor => e \in Excused
    BY DEF CollectionInv, NothingSkipped, Passed, Excused
  <2>2. \A e \in reported : e < OldestAllowed => e \in Excused'
    BY <1>1 DEF Excused
  <2>3. \A e \in reported : e < start => e \in Excused'
    BY <1>2, <1>4, <1>8, <2>1, <2>2
  <2>4. BehindIsKept(x)'
    BY <1>1, <1>5, <1>7, <1>8, <2>1, <2>3 DEF BehindIsKept
  <2>5. InThePast(x)'
    BY <1>1, <1>2, <1>4, <1>5, <1>7 DEF InThePast, NoCheckpoint
  <2>6. PageIsPrefix(x)' /\ MovedIsKept(x)'
    BY <1>1, <1>2, <1>5, <1>7 DEF PageIsPrefix, MovedIsKept, NoCheckpoint
  <2>7. QED
    BY <2>4, <2>5, <2>6 DEF SyncInv
<1>10. QED
  BY <1>1, <1>6, <1>8, <1>9, RunStep

LEMMA PageKeepsCollectionInv ==
    ASSUME CollectionInv, NEW x \in Syncs, GetPage(x) \/ ErrorSwallowed(x) \/ ProviderFails(x)
    PROVE  CollectionInv'
<1> DEFINE w == Window(x)
           page == FirstOf(w, PageLimit)
           old == sync[x]
<1>1. w \in SUBSET Nat /\ IsFiniteSet(w) /\ w \subseteq reported /\ w \subseteq Instants
      /\ \A e \in w : e < old.end
  <2>1. w \subseteq reported /\ w \subseteq Instants /\ \A e \in w : e < old.end
    BY RunIs DEF Window
  <2>2. IsFiniteSet(Instants)
    BY FS_Interval, CollectionAssumption DEF Instants
  <2>3. w \in SUBSET Nat
    BY <2>1, CollectionAssumption DEF Instants
  <2>4. QED
    BY <2>1, <2>2, <2>3, FS_Subset
<1>2. /\ page \subseteq w /\ (page # w => page # {})
      /\ \A e \in w \ page : \A f \in page : f < e
  BY <1>1, FirstOfIsPrefix, CollectionAssumption
<1> HIDE DEF page, w
<1>3. old.at = "asking" /\ UNCHANGED <<clock, reported, late, collected, outdated, checkpoint, invalid>>
  BY DEF GetPage, ErrorSwallowed, ProviderFails, connection
<1>4. /\ old \in SyncRecords /\ SyncInv(x) /\ sync \in [Syncs -> SyncRecords]
  BY RunIs DEF CollectionInv, CollectionTypes
<1>5. ASSUME NEW r \in SyncRecords, sync' = [sync EXCEPT ![x] = r],
             r.start = old.start, r.end = old.end, r.cursor = old.cursor, r.wrote = old.wrote,
             r.moved = old.moved, r.at # "moving", r.page \subseteq w,
             r.more => r.page # {},
             r.at = "storing" =>
                \A e \in w : e \in r.page \cup Excused' \/ (r.more /\ \A f \in r.page : f < e),
             Excused \subseteq Excused', unanswered' \subseteq reported
      PROVE  CollectionInv'
  <2>1. sync'[x] = r
    BY <1>4, <1>5
  <2>2. Window(x)' = w
    BY <1>3, <1>5, <2>1 DEF Window, w
  <2>3. SyncInv(x)'
    BY <1>1, <1>3, <1>4, <1>5, <2>1, <2>2
    DEF SyncInv, InThePast, BehindIsKept, PageIsPrefix, MovedIsKept
  <2>4. outdated' \subseteq reported
    BY <1>3 DEF CollectionInv, CollectionTypes
  <2>5. QED
    BY <1>3, <1>5, <2>3, <2>4, RunStep
<1>6. CASE GetPage(x)
  <2>1. PICK m \in BOOLEAN : m = (page # w)
    OBVIOUS
  <2> DEFINE r == [old EXCEPT !.at = "storing", !.page = page, !.more = m]
  <2>2. sync' = [sync EXCEPT ![x] = r] /\ unanswered' = unanswered
    BY <1>6, <2>1 DEF GetPage, page, w
  <2>3. /\ r.at = "storing" /\ r.start = old.start /\ r.end = old.end /\ r.cursor = old.cursor
        /\ r.page = page /\ r.more = m /\ r.wrote = old.wrote /\ r.moved = old.moved
        /\ r \in SyncRecords
    BY <1>1, <1>2, <1>4 DEF SyncRecords
  <2> HIDE DEF r
  <2>4. Excused' = Excused /\ unanswered' \subseteq reported
    BY <1>3, <2>2 DEF Excused, CollectionInv, CollectionTypes
  <2>5. r.at # "moving" /\ r.page \subseteq w /\ Excused \subseteq Excused'
    BY <1>2, <2>3, <2>4
  <2>6. r.more => r.page # {}
    BY <1>2, <2>1, <2>3
  <2>7. \A e \in w : e \in r.page \cup Excused' \/ (r.more /\ \A f \in r.page : f < e)
    BY <1>2, <2>1, <2>3
  <2>8. QED
    BY <1>5, <2>2, <2>3, <2>4, <2>5, <2>6, <2>7
<1>7. CASE ErrorSwallowed(x)
  <2> DEFINE r == [old EXCEPT !.at = "storing", !.page = {}, !.more = FALSE]
  <2>1. sync' = [sync EXCEPT ![x] = r] /\ unanswered' = unanswered \cup w
    BY <1>7 DEF ErrorSwallowed, w
  <2>2. /\ r.at = "storing" /\ r.start = old.start /\ r.end = old.end /\ r.cursor = old.cursor
        /\ r.page = {} /\ r.more = FALSE /\ r.wrote = old.wrote /\ r.moved = old.moved
        /\ r \in SyncRecords
    BY <1>4 DEF SyncRecords
  <2> HIDE DEF r
  <2>3. Excused \subseteq Excused' /\ unanswered' \subseteq reported /\ w \subseteq Excused'
    BY <1>1, <1>3, <2>1 DEF Excused, CollectionInv, CollectionTypes
  <2>4. QED
    BY <1>5, <2>1, <2>2, <2>3
<1>8. CASE ProviderFails(x)
  <2> DEFINE r == [old EXCEPT !.at = "ending"]
  <2>1. sync' = [sync EXCEPT ![x] = r] /\ unanswered' = unanswered
    BY <1>8 DEF ProviderFails
  <2>2. /\ r.at = "ending" /\ r.start = old.start /\ r.end = old.end /\ r.cursor = old.cursor
        /\ r.page = old.page /\ r.wrote = old.wrote /\ r.moved = old.moved
        /\ r \in SyncRecords
    BY <1>4 DEF SyncRecords
  <2> HIDE DEF r
  <2>3. Excused' = Excused /\ unanswered' \subseteq reported /\ outdated' \subseteq reported
    BY <1>3, <2>1 DEF Excused, CollectionInv, CollectionTypes
  <2>4. sync'[x] = r
    BY <1>4, <2>1
  <2>5. SyncInv(x)'
    BY <1>3, <1>4, <2>2, <2>3, <2>4
    DEF SyncInv, InThePast, BehindIsKept, PageIsPrefix, MovedIsKept
  <2>6. QED
    BY <1>3, <2>1, <2>2, <2>3, <2>5, RunStep
<1>9. QED
  BY <1>6, <1>7, <1>8
LEMMA StoreKeepsCollectionInv ==
    ASSUME CollectionInv, NEW x \in Syncs, StoreEvents(x)
    PROVE  CollectionInv'
<1> DEFINE old == sync[x]
           r == [old EXCEPT !.at = "moving", !.wrote = @ \cup (old.page \ invalid)]
<1>1. /\ old.at = "storing" /\ sync' = [sync EXCEPT ![x] = r]
      /\ UNCHANGED <<unanswered, clock, reported, late, collected, checkpoint, outdated, invalid>>
  BY DEF StoreEvents, connection
<1>2. old \in SyncRecords /\ SyncInv(x) /\ sync \in [Syncs -> SyncRecords]
  BY RunIs DEF CollectionInv, CollectionTypes
<1>3. /\ r.at = "moving" /\ r.start = old.start /\ r.end = old.end /\ r.cursor = old.cursor
      /\ r.page = old.page /\ r.more = old.more /\ r.wrote = old.wrote \cup (old.page \ invalid)
      /\ r.moved = old.moved /\ r \in SyncRecords
  BY <1>2 DEF SyncRecords
<1> HIDE DEF r
<1>4. sync'[x] = r
  BY <1>1, <1>2
<1>5. Excused' = Excused /\ outdated' \cup unanswered' \subseteq reported
  BY <1>1 DEF Excused, CollectionInv, CollectionTypes
<1>6. InThePast(x)' /\ BehindIsKept(x)' /\ MovedIsKept(x)'
  BY <1>1, <1>2, <1>3, <1>4, <1>5 DEF SyncInv, InThePast, BehindIsKept, MovedIsKept
<1>7. PageIsPrefix(x)'
  <2>1. Window(x)' = Window(x)
    BY <1>1, <1>3, <1>4 DEF Window
  <2>2. QED
    BY <1>1, <1>2, <1>3, <1>4, <1>5, <2>1 DEF SyncInv, PageIsPrefix
<1>8. QED
  BY <1>1, <1>3, <1>5, <1>6, <1>7, RunStep DEF SyncInv

(* What the run's next checkpoint passes is excused or written.            *)
LEMMA NextCheckpointPassesOnlyKept ==
    ASSUME CollectionInv, NEW x \in Syncs, sync[x].at = "moving"
    PROVE  LET c == NextCheckpoint(x) IN
           /\ c \in Checkpoints /\ c.last <= clock /\ c.cursor < clock
           /\ \A e \in reported :
                 e < c.last \/ e <= c.cursor => e \in Excused \cup sync[x].wrote
<1> DEFINE r == sync[x]
           c == NextCheckpoint(x)
<1>1. /\ r \in SyncRecords /\ SyncInv(x) /\ clock \in Nat /\ clock # 0 /\ MaxTime \in Nat
      /\ clock <= MaxTime /\ \A e \in reported : e \in Nat /\ e <= clock /\ e # 0
  BY RunIs
<1>2. r.start \in Nat /\ r.end \in Nat /\ r.cursor \in Nat /\ r.start <= clock /\ r.end <= clock
  BY RunIs DEF SyncInv, InThePast
<1>3. /\ \A e \in Window(x) : e \in r.page \cup Excused \/ (r.more /\ \A f \in r.page : f < e)
      /\ r.more => r.page # {}
      /\ r.page \subseteq r.wrote \cup Excused /\ \A e \in r.page : e < r.end /\ e \in Nat /\ e \in reported
  BY <1>1 DEF SyncInv, PageIsPrefix, InThePast, Excused
<1>4. /\ \A e \in reported : e < r.start => e \in Excused
      /\ \A e \in reported : e <= r.cursor => e \in Excused \cup r.wrote
      /\ \A e \in reported : r.start <= e /\ e < r.end /\ e > r.cursor => e \in Window(x)
  BY <1>1 DEF SyncInv, BehindIsKept, Window
<1>5. CASE ~r.more
  <2>1. c = [last |-> r.end, cursor |-> 0]
    BY <1>5 DEF NextCheckpoint
  <2>2. ASSUME NEW e \in reported, e < r.end PROVE e \in Excused \cup r.wrote
    <3>1. e \in Nat
      BY <1>1
    <3>2. CASE e < r.start \/ e <= r.cursor
      BY <1>4, <3>2
    <3>3. CASE ~(e < r.start \/ e <= r.cursor)
      <4>1. e \in Window(x)
        BY <1>2, <1>4, <2>2, <3>1, <3>3
      <4>2. QED
        BY <1>3, <1>5, <4>1
    <3>4. QED
      BY <3>2, <3>3
  <2>3. \A e \in reported : ~(e <= 0)
    BY <1>1
  <2>4. QED
    BY <1>1, <1>2, <2>1, <2>2, <2>3 DEF Checkpoints
<1>6. CASE r.more
  <2> DEFINE top == Max(r.page)
  <2>1. c = [last |-> r.start, cursor |-> top]
    BY <1>6 DEF NextCheckpoint
  <2>2. top \in r.page /\ \A f \in r.page : top >= f
    <3>1. IsFiniteSet(r.page)
      <4>1. r.page \subseteq 1..clock
        BY <1>1, <1>3
      <4>2. IsFiniteSet(1..clock)
        BY <1>1, FS_Interval
      <4>3. QED
        BY <4>1, <4>2, FS_Subset
    <3>2. r.page \in SUBSET Nat /\ r.page # {}
      BY <1>3, <1>6
    <3>3. QED
      BY <3>1, <3>2, HasMaximum
  <2> HIDE DEF top
  <2>3. top \in Nat /\ top < r.end
    BY <1>3, <2>2
  <2>4. ASSUME NEW e \in reported, e <= top PROVE e \in Excused \cup r.wrote
    <3>1. e \in Nat
      BY <1>1
    <3>2. CASE e < r.start \/ e <= r.cursor
      BY <1>4, <3>2
    <3>3. CASE ~(e < r.start \/ e <= r.cursor)
      <4>1. e \in Window(x)
        BY <1>2, <1>4, <2>3, <2>4, <3>1, <3>3
      <4>2. ~(\A f \in r.page : f < e)
        BY <2>2, <2>3, <2>4, <3>1
      <4>3. QED
        BY <1>3, <4>1, <4>2
    <3>4. QED
      BY <3>2, <3>3
  <2>5. c \in Checkpoints /\ c.last <= clock /\ c.cursor < clock
    BY <1>1, <1>2, <2>1, <2>3 DEF Checkpoints
  <2>6. QED
    BY <1>4, <2>1, <2>4, <2>5
<1>7. QED
  BY <1>5, <1>6

LEMMA MoveKeepsCollectionInv ==
    ASSUME CollectionInv, NEW x \in Syncs, MoveCheckpoint(x)
    PROVE  CollectionInv'
<1> DEFINE old == sync[x]
           c == NextCheckpoint(x)
           next == IF old.more THEN "asking" ELSE "ending"
           r == [old EXCEPT !.at = next, !.moved = c, !.cursor = c.cursor, !.page = {}, !.more = FALSE]
<1>1. /\ old.at = "moving" /\ sync' = [sync EXCEPT ![x] = r]
      /\ UNCHANGED <<unanswered, clock, reported, late, collected, checkpoint, outdated, invalid>>
  BY DEF MoveCheckpoint, connection
<1>2. old \in SyncRecords /\ SyncInv(x) /\ sync \in [Syncs -> SyncRecords]
  BY RunIs DEF CollectionInv, CollectionTypes
<1>3. /\ c \in Checkpoints /\ c.last <= clock /\ c.cursor < clock
      /\ \A e \in reported : e < c.last \/ e <= c.cursor => e \in Excused \cup old.wrote
  BY <1>1, NextCheckpointPassesOnlyKept
<1> HIDE DEF c
<1>4. /\ r.at \in {"asking", "ending"} /\ r.start = old.start /\ r.end = old.end /\ r.cursor = c.cursor
      /\ r.page = {} /\ r.wrote = old.wrote /\ r.moved = c /\ r \in SyncRecords
  BY <1>2, <1>3 DEF SyncRecords, Checkpoints
<1> HIDE DEF r
<1>5. sync'[x] = r
  BY <1>1, <1>2
<1>6. Excused' = Excused /\ outdated' \cup unanswered' \subseteq reported
  BY <1>1 DEF Excused, CollectionInv, CollectionTypes
<1>7. SyncInv(x)'
  BY <1>1, <1>2, <1>3, <1>4, <1>5, <1>6
  DEF SyncInv, InThePast, BehindIsKept, PageIsPrefix, MovedIsKept
<1>8. QED
  BY <1>1, <1>4, <1>6, <1>7, RunStep

(* A run that rolls back leaves nothing; one that commits leaves what it   *)
(* wrote and the checkpoint that passes only that.                         *)
LEMMA IdleSyncInv ==
    ASSUME CollectionInv, NEW x \in Syncs, sync'[x] = IdleSync, UNCHANGED <<clock, reported, invalid>>
    PROVE  IdleSync \in SyncRecords /\ SyncInv(x)'
<1>1. clock \in Nat /\ clock # 0 /\ MaxTime \in Nat /\ \A e \in reported : e \in Nat /\ e # 0
  BY RunIs
<1>2. 0 \in 0..MaxTime /\ NoCheckpoint \in Checkpoints
  BY <1>1 DEF NoCheckpoint, Checkpoints
<1>3. IdleSync \in SyncRecords
  BY <1>2 DEF IdleSync, SyncRecords
<1>4. SyncInv(x)'
  BY <1>1 DEF SyncInv, InThePast, BehindIsKept, PageIsPrefix, MovedIsKept, IdleSync, NoCheckpoint
<1>5. QED
  BY <1>3, <1>4

LEMMA RollbackKeepsCollectionInv ==
    ASSUME CollectionInv, NEW x \in Syncs, RollbackSync(x)
    PROVE  CollectionInv'
<1>1. /\ sync' = [sync EXCEPT ![x] = IdleSync] /\ sync'[x] = IdleSync
      /\ UNCHANGED <<unanswered, clock, reported, late, collected, checkpoint, outdated, invalid>>
  BY DEF RollbackSync, connection, CollectionInv, CollectionTypes
<1>2. Excused' = Excused /\ outdated' \cup unanswered' \subseteq reported
  BY <1>1 DEF Excused, CollectionInv, CollectionTypes
<1>3. QED
  BY <1>1, <1>2, IdleSyncInv, RunStep

LEMMA CommitKeepsCollectionInv ==
    ASSUME CollectionInv, NEW x \in Syncs, CommitSync(x)
    PROVE  CollectionInv'
<1> DEFINE old == sync[x]
<1>1. /\ sync' = [sync EXCEPT ![x] = IdleSync]
      /\ collected' = collected \cup old.wrote
      /\ checkpoint' = IF old.moved # NoCheckpoint THEN old.moved ELSE checkpoint
      /\ UNCHANGED <<unanswered, clock, reported, late, outdated, invalid>>
  BY DEF CommitSync, connection
<1>2. old \in SyncRecords /\ SyncInv(x) /\ sync \in [Syncs -> SyncRecords]
  BY RunIs DEF CollectionInv, CollectionTypes
<1>3. sync'[x] = IdleSync /\ \A y \in Syncs \ {x} : sync'[y] = sync[y]
  BY <1>1, <1>2
<1>4. Excused' = Excused \cup old.wrote
  BY <1>1 DEF Excused
<1>5. IdleSync \in SyncRecords /\ SyncInv(x)'
  BY <1>1, <1>3, IdleSyncInv
<1>6. /\ old.wrote \subseteq reported /\ old.moved \in Checkpoints
      /\ old.moved.last <= clock /\ old.moved.cursor < clock
      /\ \A e \in reported :
            e < old.moved.last \/ e <= old.moved.cursor => e \in Excused \cup old.wrote
  BY <1>2 DEF SyncInv, InThePast, MovedIsKept, SyncRecords
<1>7. CollectionTypes' /\ CheckpointIsPast'
  BY <1>1, <1>2, <1>5, <1>6 DEF CollectionInv, CollectionTypes, CheckpointIsPast
<1>8. NothingSkipped'
  <2>1. \A e \in reported : e < checkpoint.last \/ e <= checkpoint.cursor => e \in Excused
    BY DEF CollectionInv, NothingSkipped, Passed, Excused
  <2>2. \A e \in reported : Passed(e)' => e \in Excused'
    BY <1>1, <1>4, <1>6, <2>1 DEF Passed
  <2>3. QED
    BY <1>1, <2>2 DEF NothingSkipped, Excused
<1>9. \A y \in Syncs : SyncInv(y)'
  <2>1. Excused \subseteq Excused'
    BY <1>4
  <2>2. QED
    BY <1>1, <1>3, <1>5, <2>1, OtherRunsKept
<1>10. QED
  BY <1>7, <1>8, <1>9 DEF CollectionInv
-----------------------------------------------------------------------------
LEMMA CollectionInvStep == CollectionInv /\ [CollectionNext]_collectionVars => CollectionInv'
<1> SUFFICES ASSUME CollectionInv, [CollectionNext]_collectionVars PROVE CollectionInv'
  OBVIOUS
<1>1. CASE TimePasses \/ ReportUsage \/ \E e \in Instants : ReportLate(e)
  BY <1>1, WorldKeepsCollectionInv
<1>2. ASSUME NEW x \in Syncs, RunSync(x) \/ ErrorSwallowed(x) \/ ProviderFails(x) \/ AbortSync(x)
      PROVE  CollectionInv'
  <2>1. CASE RollbackSync(x)
    BY <2>1, RollbackKeepsCollectionInv
  <2>2. QED
    BY <1>2, <2>1, StartKeepsCollectionInv, PageKeepsCollectionInv, StoreKeepsCollectionInv,
       MoveKeepsCollectionInv, CommitKeepsCollectionInv
    DEF RunSync, AbortSync, CheckpointRefused, DeadlockVictim
<1>3. CASE UNCHANGED collectionVars
  BY <1>3
  DEF collectionVars, CollectionInv, CollectionTypes, CheckpointIsPast, NothingSkipped, Passed, Excused,
      SyncInv, InThePast, BehindIsKept, PageIsPrefix, MovedIsKept, Window
<1>4. QED
  BY <1>1, <1>2, <1>3 DEF CollectionNext

LEMMA CollectionInvAlways == CollectionSpec => []CollectionInv
<1>1. QED
  BY InitCollectionInv, CollectionInvStep, PTL DEF CollectionSpec

(* Usage that the checkpoint or its cursor has passed is stored, unless it *)
(* was reported late, was older than the lookback when a run began, was in *)
(* a window answered with a swallowed error, or is refused by the          *)
(* validator (usage/service.py): for any number of overlapping runs, of    *)
(* pages and of failures.                                                  *)
THEOREM CollectionSkipsNothing == CollectionSpec => []NothingSkipped
<1>1. CollectionInv => NothingSkipped
  BY DEF CollectionInv
<1>2. QED
  BY <1>1, CollectionInvAlways, PTL

(* The type invariant: the rest of it counts failures and never changes    *)
(* the connection.                                                         *)
ConnectionTypes ==
    /\ failures \in 0..MaxFailures
    /\ {immediate, swallows} \subseteq BOOLEAN /\ invalid \subseteq Instants

LEMMA FailuresAreBounded ==
    CollectionSpec => [](ConnectionTypes)
<1>1. CollectionInit => ConnectionTypes
  BY CollectionAssumption DEF CollectionInit, ConnectionTypes, Instants
<1>2. ConnectionTypes /\ [CollectionNext]_collectionVars => ConnectionTypes'
  <2> SUFFICES ASSUME ConnectionTypes, [CollectionNext]_collectionVars PROVE ConnectionTypes'
    OBVIOUS
  <2>1. /\ UNCHANGED <<immediate, swallows, invalid>>
        /\ failures' = failures \/ (failures < MaxFailures /\ failures' = failures + 1)
    BY DEF CollectionNext, collectionVars, connection, TimePasses, ReportUsage, ReportLate, Reports,
           RunSync, StartSync, GetPage, StoreEvents, MoveCheckpoint, CommitSync, CheckpointRefused,
           DeadlockVictim, RollbackSync, ErrorSwallowed, ProviderFails, AbortSync, Failure
  <2>2. QED
    BY <2>1, CollectionAssumption DEF ConnectionTypes
<1>3. QED
  BY <1>1, <1>2, PTL DEF CollectionSpec

(* Every run holds units the provider reported, and the checkpoint is one. *)
THEOREM CollectionTypeCorrect == CollectionSpec => []CollectionTypeOK
<1>1. CollectionInv /\ ConnectionTypes => CollectionTypeOK
  <2> SUFFICES ASSUME CollectionInv, ConnectionTypes PROVE CollectionTypeOK
    OBVIOUS
  <2>1. reported \subseteq Instants
    BY CollectionAssumption DEF CollectionInv, CollectionTypes, Instants
  <2>2. ASSUME NEW x \in Syncs
        PROVE  /\ sync[x].page \subseteq reported /\ sync[x].wrote \subseteq reported
               /\ sync[x].at \in {"idle", "asking", "storing", "moving", "ending"}
               /\ sync[x].moved \in Checkpoints
    BY DEF CollectionInv, CollectionTypes, SyncInv, InThePast, SyncRecords
  <2>3. QED
    BY <2>1, <2>2 DEF CollectionTypeOK, CollectionInv, CollectionTypes, ConnectionTypes
<1>2. QED
  BY <1>1, CollectionInvAlways, FailuresAreBounded, PTL

-----------------------------------------------------------------------------
(* Provider connections.  No write compares anything, but a row has a      *)
(* version to the model: an edit that read the present version read the    *)
(* present row, and any other counts as overlapping.                       *)

Rows == [present : BOOLEAN, deleted : BOOLEAN, active : BOOLEAN, kind : Kinds,
         key : Keys \cup {NoKey}, url : BOOLEAN,
         health : {"unknown", "healthy", "warning", "critical"},
         validation : Verdicts \cup {"none"}, failures : 0..MaxFailureCount,
         probed : Keys \cup {NoKey}, version : Nat]

Bags == [auto : BOOLEAN, interval : {"1h", "5m"}]
RowEdits == {"update", "delete", "rotate", "test"}
EditRows == [op : RowEdits \cup {"none", "create", "sync", "settings"}, c : Connections, read : Rows,
             at : {"idle", "read", "probing", "probed", "syncing", "done", "error"},
             found : Verdicts \cup {"none"}, bag : Bags, patch : SettingsPatches,
             todo : SUBSET Connections, runs : SUBSET (Connections \X {"completed", "failed"})]

ConnTypes ==
    /\ row \in [Connections -> Rows] /\ edit \in [Edits -> EditRows]
    /\ rowLock \in [Connections -> SUBSET Edits]
    /\ sync_settings \in Bags /\ asked \in Bags

(* A verdict, its health, the count of failures and the key it is of.      *)
OneStory(x) ==
    x.validation # "none" =>
        /\ x.health = HealthFor(x.validation)
        /\ x.health = "healthy" <=> x.failures = 0
        /\ x.probed = x.key

Busy(e) == e.at \in {"read", "probing", "probed"}

(* What an edit in progress knows of its row; a rotation that has flushed  *)
(* its key keeps the others out.                                           *)
EditInv(r, e, rows, locks) ==
    /\ Busy(e) /\ e.op \in RowEdits =>
          /\ rows[e.c].present /\ e.read.present /\ e.read.version <= rows[e.c].version
          /\ IF e.op = "rotate" /\ e.at # "read"
             THEN locks[e.c] = {r} /\ e.read.version = rows[e.c].version
             ELSE e.read.version = rows[e.c].version => e.read = rows[e.c]
    /\ Busy(e) /\ e.op = "create" => ~rows[e.c].present /\ e.read.present
    /\ e.at = "probed" => e.found \in Verdicts

CreatesApart ==
    \A r, s \in Edits :
        edit[r].op = "create" /\ edit[s].op = "create" /\ edit[r].c = edit[s].c => r = s

ConnInv ==
    /\ ConnTypes /\ CreatesApart /\ SeparateEditsAgree
    /\ \A r \in Edits : EditInv(r, edit[r], row, rowLock)

LEMMA FlushedIs ==
    ASSUME NEW c \in Connections, row \in [Connections -> Rows], NEW read \in Rows, NEW new \in Rows,
           read.version = new.version
    PROVE  /\ Flushed(c, read, new) \in Rows
           /\ Flushed(c, read, new).version = row[c].version + 1
           /\ read.present = new.present => Flushed(c, read, new).present = row[c].present
           /\ read = row[c] => Flushed(c, read, new) = [new EXCEPT !.version = row[c].version + 1]
<1> DEFINE f == Flushed(c, read, new)
<1>1. DOMAIN NoRow = {"present", "deleted", "active", "kind", "key", "url", "health", "validation",
                      "failures", "probed", "version"}
    BY DEF NoRow
<1>2. row[c] \in Rows
    OBVIOUS
<1>3. f = [x \in DOMAIN NoRow |-> CASE x = "version" -> row[c].version + 1
                                    [] read[x] # new[x] -> new[x]
                                    [] OTHER -> row[c][x]]
    BY DEF Flushed
<1> HIDE DEF f
<1>4. /\ f.present = IF read.present # new.present THEN new.present ELSE row[c].present
      /\ f.deleted = IF read.deleted # new.deleted THEN new.deleted ELSE row[c].deleted
      /\ f.active = IF read.active # new.active THEN new.active ELSE row[c].active
      /\ f.kind = IF read.kind # new.kind THEN new.kind ELSE row[c].kind
      /\ f.key = IF read.key # new.key THEN new.key ELSE row[c].key
      /\ f.url = IF read.url # new.url THEN new.url ELSE row[c].url
      /\ f.health = IF read.health # new.health THEN new.health ELSE row[c].health
      /\ f.validation = IF read.validation # new.validation THEN new.validation ELSE row[c].validation
      /\ f.failures = IF read.failures # new.failures THEN new.failures ELSE row[c].failures
      /\ f.probed = IF read.probed # new.probed THEN new.probed ELSE row[c].probed
      /\ f.version = row[c].version + 1
    <2>1. /\ f["version"] = row[c].version + 1
          /\ \A x \in DOMAIN NoRow : x # "version" =>
                f[x] = IF read[x] # new[x] THEN new[x] ELSE row[c][x]
        <3>1. read["version"] = new["version"]
            OBVIOUS
        <3> QED BY <1>1, <1>3, <3>1
    <2> QED BY <1>1, <2>1
<1>5. f = [present |-> f.present, deleted |-> f.deleted, active |-> f.active, kind |-> f.kind,
           key |-> f.key, url |-> f.url, health |-> f.health, validation |-> f.validation,
           failures |-> f.failures, probed |-> f.probed, version |-> f.version]
    BY <1>1, <1>3
<1>6. f \in Rows
    BY <1>2, <1>4, <1>5 DEF Rows
<1>7. ASSUME read = row[c] PROVE f = [new EXCEPT !.version = row[c].version + 1]
    BY <1>2, <1>4, <1>5, <1>7 DEF Rows
<1> QED BY <1>4, <1>6, <1>7 DEF f

LEMMA VerdictIs ==
    ASSUME NEW read \in Rows, NEW found \in Verdicts
    PROVE  /\ Verdict(read, found) \in Rows /\ OneStory(Verdict(read, found))
           /\ Verdict(read, found).present = read.present /\ Verdict(read, found).key = read.key
           /\ Verdict(read, found).version = read.version
<1> DEFINE v == Verdict(read, found)
           n == IF found = "healthy" THEN 0
                ELSE IF read.failures < MaxFailureCount THEN read.failures + 1 ELSE MaxFailureCount
<1>1. HealthFor(found) \in {"healthy", "warning", "critical"} /\ (HealthFor(found) = "healthy" <=> found = "healthy")
    BY DEF HealthFor
<1>2. n \in 0..MaxFailureCount /\ (n = 0 <=> found = "healthy")
    BY ConnectionsAssumption DEF ConnectionsAssumption, Rows
<1>3. v = [read EXCEPT !.validation = found, !.health = HealthFor(found), !.failures = n, !.probed = read.key]
    BY DEF Verdict
<1> HIDE DEF n, v
<1>4. /\ v \in Rows /\ v.validation = found /\ v.health = HealthFor(found) /\ v.failures = n
      /\ v.probed = read.key /\ v.key = read.key /\ v.present = read.present /\ v.version = read.version
    BY <1>1, <1>2, <1>3 DEF Rows
<1>5. OneStory(v)
    BY <1>1, <1>2, <1>4 DEF OneStory
<1> QED BY <1>4, <1>5 DEF v

LEMMA FreshRows ==
    /\ NoRow \in Rows /\ NoRow.validation = "none" /\ ~NoRow.present
    /\ \A kind \in ConnKinds, key \in Keys \cup {NoKey}, url \in BOOLEAN :
          /\ NewRow(kind, key, url) \in Rows /\ NewRow(kind, key, url).validation = "none"
          /\ NewRow(kind, key, url).key = key /\ NewRow(kind, key, url).present
    /\ Idle \in EditRows /\ Idle.op = "none" /\ Idle.at = "idle" /\ DefaultSettings \in Bags
<1>1. NoRow \in Rows /\ NoRow.validation = "none" /\ ~NoRow.present
    <2>1. 0 \in 0..MaxFailureCount /\ 0 \in Nat /\ "openai" \in Kinds
        BY ConnectionsAssumption DEF Kinds, ConnectionsAssumption
    <2> QED BY <2>1 DEF NoRow, Rows
<1>2. ASSUME NEW kind \in ConnKinds, NEW key \in Keys \cup {NoKey}, NEW url \in BOOLEAN
      PROVE  /\ NewRow(kind, key, url) \in Rows /\ NewRow(kind, key, url).validation = "none"
             /\ NewRow(kind, key, url).key = key /\ NewRow(kind, key, url).present
    BY <1>1, ConnectionsAssumption DEF NewRow, Rows, ConnectionsAssumption
<1>3. Idle \in EditRows /\ Idle.op = "none" /\ Idle.at = "idle" /\ DefaultSettings \in Bags
    <2>1. (CHOOSE c \in Connections : TRUE) \in Connections
        BY ConnectionsAssumption DEF ConnectionsAssumption
    <2>2. DefaultSettings \in Bags /\ [auto |-> TRUE] \in SettingsPatches
        BY DEF DefaultSettings, Bags, SettingsPatches
    <2> QED BY <1>1, <2>1, <2>2 DEF Idle, EditRows
<1> QED BY <1>1, <1>2, <1>3

LEMMA InitConnInv == ConnectionsInit => ConnInv
<1> SUFFICES ASSUME ConnectionsInit PROVE ConnInv
    OBVIOUS
<1>1. NoRow \in Rows /\ NoRow.validation = "none" /\ ~NoRow.present
    BY FreshRows
<1>2. ASSUME NEW kind \in ConnKinds, NEW key \in Keys
      PROVE  NewRow(kind, key, TRUE) \in Rows /\ NewRow(kind, key, TRUE).validation = "none"
             /\ NewRow(kind, key, TRUE).key = key
    BY FreshRows
<1>3. ASSUME NEW kind \in ConnKinds
      PROVE  LET x == [NewRow(kind, "revoked", TRUE) EXCEPT !.validation = "unauthorized",
                          !.health = "critical", !.failures = 1, !.probed = "revoked"]
             IN x \in Rows /\ OneStory(x)
    <2> DEFINE x == [NewRow(kind, "revoked", TRUE) EXCEPT !.validation = "unauthorized",
                        !.health = "critical", !.failures = 1, !.probed = "revoked"]
    <2>1. "revoked" \in Keys /\ "unauthorized" \in Verdicts /\ 1 \in 0..MaxFailureCount
        BY ConnectionsAssumption DEF Keys, Verdicts, ConnectionsAssumption
    <2>4. HealthFor("unauthorized") = "critical"
        BY DEF HealthFor
    <2>2. x \in Rows /\ x.validation = "unauthorized" /\ x.health = "critical" /\ x.failures = 1
          /\ x.probed = "revoked" /\ x.key = "revoked"
        <3> DEFINE y == NewRow(kind, "revoked", TRUE)
        <3>1. y \in Rows /\ y.key = "revoked"
            BY <1>2, <2>1
        <3>2. x = [y EXCEPT !.validation = "unauthorized", !.health = "critical", !.failures = 1,
                            !.probed = "revoked"]
            OBVIOUS
        <3> HIDE DEF x, y
        <3> QED BY <2>1, <3>1, <3>2 DEF Rows
    <2> HIDE DEF x
    <2>3. OneStory(x)
        BY <2>2, <2>4 DEF OneStory
    <2> QED BY <2>2, <2>3 DEF x
<1>4. ASSUME NEW c \in Connections PROVE row[c] \in Rows /\ OneStory(row[c])
    <2>0. \/ row[c] = NoRow \/ \E kind \in ConnKinds : row[c] = NewRow(kind, "valid", TRUE)
          \/ row[c] \in {[NewRow(kind, "revoked", TRUE) EXCEPT !.validation = "unauthorized",
                        !.health = "critical", !.failures = 1, !.probed = "revoked"] : kind \in ConnKinds}
        BY DEF ConnectionsInit
    <2>1. CASE row[c] = NoRow
        BY <1>1, <2>1 DEF OneStory
    <2>2. CASE \E kind \in ConnKinds : row[c] = NewRow(kind, "valid", TRUE)
        BY <1>2, <2>2 DEF OneStory, Keys
    <2>3. CASE row[c] \in {[NewRow(kind, "revoked", TRUE) EXCEPT !.validation = "unauthorized",
                        !.health = "critical", !.failures = 1, !.probed = "revoked"] : kind \in ConnKinds}
        BY <1>3, <2>3
    <2> QED BY <2>0, <2>1, <2>2, <2>3
<1>5. Idle \in EditRows /\ Idle.op = "none" /\ Idle.at = "idle" /\ DefaultSettings \in Bags
    BY FreshRows
<1>6. ConnTypes
    BY <1>4, <1>5 DEF ConnTypes, ConnectionsInit
<1>7. CreatesApart /\ \A r \in Edits : EditInv(r, edit[r], row, rowLock)
    BY <1>5 DEF CreatesApart, EditInv, Busy, ConnectionsInit
<1>8. SeparateEditsAgree
    BY <1>4 DEF SeparateEditsAgree, OneStory, ConnectionsInit
<1> QED BY <1>6, <1>7, <1>8 DEF ConnInv

(* One edit moves on, and nothing is written.                              *)
LEMMA EditStep ==
    ASSUME ConnInv, NEW r \in Edits, NEW e \in EditRows, edit' = [edit EXCEPT ![r] = e],
           UNCHANGED <<row, sync_settings, asked>>, overlapped \subseteq overlapped',
           rowLock' \in [Connections -> SUBSET Edits],
           \A s \in Edits \ {r}, c \in Connections : rowLock[c] = {s} => rowLock'[c] = {s},
           EditInv(r, e, row, rowLock'),
           \A s \in Edits \ {r} : edit[s].op = "create" /\ edit[s].c = e.c => e.op # "create"
    PROVE  ConnInv'
<1>1. /\ edit' \in [Edits -> EditRows] /\ edit'[r] = e
      /\ \A s \in Edits \ {r} : edit'[s] = edit[s]
    BY DEF ConnInv, ConnTypes
<1>2. ConnTypes'
    BY <1>1 DEF ConnInv, ConnTypes
<1>3. CreatesApart'
    BY <1>1 DEF ConnInv, CreatesApart
<1>4. SeparateEditsAgree'
    BY DEF ConnInv, SeparateEditsAgree
<1>5. ASSUME NEW s \in Edits PROVE EditInv(s, edit'[s], row, rowLock')
    <2>1. CASE s = r
        BY <1>1, <2>1
    <2>2. CASE s # r
        <3>1. EditInv(s, edit[s], row, rowLock) /\ edit[s].c \in Connections /\ edit'[s] = edit[s]
            BY <1>1, <2>2 DEF ConnInv, ConnTypes, EditRows
        <3> QED BY <2>2, <3>1 DEF EditInv
    <2> QED BY <2>1, <2>2
<1> QED BY <1>2, <1>3, <1>4, <1>5 DEF ConnInv

(* One edit ends with a write: its row is locked by nobody else, and gets  *)
(* a version nobody else has read.                                         *)
LEMMA WriteStep ==
    ASSUME ConnInv, NEW r \in Edits, NEW e \in EditRows, edit' = [edit EXCEPT ![r] = e], ~Busy(e),
           NEW c \in Connections, NEW new \in Rows, row' = [row EXCEPT ![c] = new], new.present,
           IF row[c].present THEN rowLock[c] \subseteq {r} /\ row[c].version < new.version
           ELSE \A s \in Edits \ {r} : ~(edit[s].op = "create" /\ edit[s].c = c),
           rowLock' \in [Connections -> SUBSET Edits],
           \A d \in Connections \ {c} : rowLock'[d] = rowLock[d],
           UNCHANGED <<sync_settings, asked>>, overlapped \subseteq overlapped',
           c \notin overlapped' => OneStory(new),
           \A s \in Edits \ {r} : edit[s].op = "create" /\ edit[s].c = e.c => e.op # "create"
    PROVE  ConnInv'
<1>1. /\ edit' \in [Edits -> EditRows] /\ edit'[r] = e
      /\ \A s \in Edits \ {r} : edit'[s] = edit[s]
      /\ row' \in [Connections -> Rows] /\ row'[c] = new
      /\ \A d \in Connections \ {c} : row'[d] = row[d]
    BY DEF ConnInv, ConnTypes
<1>2. ConnTypes'
    BY <1>1 DEF ConnInv, ConnTypes
<1>3. CreatesApart'
    BY <1>1 DEF ConnInv, CreatesApart
<1>4. SeparateEditsAgree'
    BY <1>1 DEF ConnInv, SeparateEditsAgree, OneStory
<1>5. ASSUME NEW s \in Edits PROVE EditInv(s, edit'[s], row', rowLock')
    <2>1. CASE s = r
        BY <1>1, <2>1 DEF EditInv, Busy
    <2>2. CASE s # r
        <3> DEFINE o == edit[s]
        <3>1. EditInv(s, o, row, rowLock) /\ o \in EditRows /\ edit'[s] = o
            BY <1>1, <2>2 DEF ConnInv, ConnTypes
        <3>2. o.c \in Connections /\ o.read.version \in Nat /\ row[c].version \in Nat /\ new.version \in Nat
            BY <3>1 DEF EditRows, Rows, ConnInv, ConnTypes
        <3> HIDE DEF o
        <3>3. CASE o.c = c
            <4>1. CASE row[c].present
                BY <1>1, <2>2, <3>1, <3>2, <3>3, <4>1 DEF EditInv
            <4>2. CASE ~row[c].present
                BY <2>2, <3>1, <3>3, <4>2 DEF EditInv, o
            <4> QED BY <4>1, <4>2
        <3>4. CASE o.c # c
            BY <1>1, <3>1, <3>2, <3>4 DEF EditInv
        <3> QED BY <3>3, <3>4
    <2> QED BY <2>1, <2>2
<1> QED BY <1>2, <1>3, <1>4, <1>5 DEF ConnInv

LEMMA MovedEdit ==
    ASSUME ConnInv, NEW r \in Edits, NEW stage \in {"probing", "probed", "done", "error"}
    PROVE  LET e == [edit[r] EXCEPT !.at = stage] IN
           /\ e \in EditRows /\ e.at = stage /\ e.op = edit[r].op /\ e.c = edit[r].c
           /\ e.read = edit[r].read /\ edit[r].c \in Connections /\ edit[r].read \in Rows
           /\ \A s \in Edits \ {r} : edit[s].op = "create" /\ edit[s].c = e.c => e.op # "create"
<1> DEFINE e == [edit[r] EXCEPT !.at = stage]
<1>1. edit[r] \in EditRows
    BY DEF ConnInv, ConnTypes
<1>2. /\ e \in EditRows /\ e.at = stage /\ e.op = edit[r].op /\ e.c = edit[r].c
      /\ e.read = edit[r].read /\ edit[r].c \in Connections /\ edit[r].read \in Rows
    BY <1>1 DEF EditRows
<1> HIDE DEF e
<1>3. \A s \in Edits \ {r} : edit[s].op = "create" /\ edit[s].c = e.c => e.op # "create"
    BY <1>2 DEF ConnInv, CreatesApart
<1> QED BY <1>2, <1>3 DEF e

(* update and delete: what a request changes of a row that tells one story *)
(* tells it still.                                                         *)
LEMMA StoresKeepsConnInv ==
    ASSUME ConnInv, NEW r \in Edits, edit[r].op \in {"update", "delete"}, edit[r].at = "read",
           NEW new \in Rows, Stores(r, edit[r].c, new), new.present = edit[r].read.present,
           new.version = edit[r].read.version, OneStory(edit[r].read) => OneStory(new),
           Moved(r, "done"), UNCHANGED <<rowLock, sync_settings, asked>>
    PROVE  ConnInv'
<1> DEFINE c == edit[r].c  read == edit[r].read  e == [edit[r] EXCEPT !.at = "done"]
           f == Flushed(c, read, new)
<1>1. /\ e \in EditRows /\ ~Busy(e) /\ e.c = c /\ c \in Connections /\ read \in Rows
      /\ \A s \in Edits \ {r} : edit[s].op = "create" /\ edit[s].c = e.c => e.op # "create"
      /\ edit' = [edit EXCEPT ![r] = e]
    BY MovedEdit DEF Busy, Moved
<1>2. /\ row[c].present /\ read.present /\ read.version <= row[c].version
      /\ read.version = row[c].version => read = row[c]
    <2>1. EditInv(r, edit[r], row, rowLock)
        BY DEF ConnInv
    <2> QED BY <2>1 DEF EditInv, Busy, RowEdits
<1>3. /\ row' = [row EXCEPT ![c] = f] /\ rowLock[c] \subseteq {r}
      /\ overlapped' = IF row[c].version = read.version THEN overlapped ELSE overlapped \cup {c}
    BY DEF Stores, Free
<1>4. row \in [Connections -> Rows] /\ rowLock \in [Connections -> SUBSET Edits]
    BY DEF ConnInv, ConnTypes
<1> HIDE DEF e, c, read
<1>5. /\ f \in Rows /\ f.version = row[c].version + 1 /\ f.present
      /\ read = row[c] => f = [new EXCEPT !.version = row[c].version + 1]
    BY <1>1, <1>2, <1>4, FlushedIs, ZenonT(60) DEF c, read
<1>6. row[c].version \in Nat
    BY <1>1, <1>4 DEF Rows
<1>7. ASSUME c \notin overlapped' PROVE OneStory(f)
    <2>1. read = row[c] /\ c \notin overlapped
        BY <1>2, <1>3, <1>7
    <2>2. OneStory(row[c])
        BY <1>1, <2>1 DEF ConnInv, SeparateEditsAgree, OneStory
    <2>3. OneStory(new) /\ f = [new EXCEPT !.version = row[c].version + 1]
        BY <1>5, <2>1, <2>2 DEF read
    <2> HIDE DEF f
    <2> QED BY <2>3 DEF OneStory, Rows
<1> HIDE DEF f
<1>8. row[c].version < f.version
    BY <1>5, <1>6
<1>9. overlapped \subseteq overlapped'
    BY <1>3
<1> QED BY <1>1, <1>2, <1>3, <1>4, <1>5, <1>7, <1>8, <1>9, WriteStep

LEMMA UpdateKeepsConnInv ==
    ASSUME ConnInv, NEW r \in Edits, Update(r) PROVE ConnInv'
<1> DEFINE read == edit[r].read
<1>1. edit[r].op = "update" /\ edit[r].at = "read" /\ Moved(r, "done")
      /\ UNCHANGED <<rowLock, sync_settings, asked>>
    BY DEF Update, At
<1>2. PICK new \in {[read EXCEPT !.active = FALSE], [read EXCEPT !.active = TRUE],
                    [read EXCEPT !.url = ~read.url], read} :
          IF new = read THEN UNCHANGED <<row, overlapped>> ELSE Stores(r, edit[r].c, new)
    BY DEF Update
<1>3. read \in Rows
    BY MovedEdit
<1>4. CASE new = read
    <2> DEFINE e == [edit[r] EXCEPT !.at = "done"]
    <2>1. /\ e \in EditRows /\ ~Busy(e) /\ edit' = [edit EXCEPT ![r] = e]
          /\ \A s \in Edits \ {r} : edit[s].op = "create" /\ edit[s].c = e.c => e.op # "create"
        BY <1>1, MovedEdit DEF Busy, Moved
    <2>2. rowLock' \in [Connections -> SUBSET Edits]
        BY <1>1 DEF ConnInv, ConnTypes
    <2> HIDE DEF e
    <2>3. EditInv(r, e, row, rowLock')
        BY <2>1 DEF EditInv, Busy
    <2> QED BY <1>1, <1>2, <1>4, <2>1, <2>2, <2>3, EditStep
<1>5. CASE new # read
    <2> HIDE DEF read
    <2>1. /\ new \in Rows /\ new.present = read.present /\ new.version = read.version
          /\ new.validation = read.validation /\ new.health = read.health /\ new.failures = read.failures
          /\ new.probed = read.probed /\ new.key = read.key
        <3>1. CASE new = [read EXCEPT !.active = FALSE]
            BY <1>3, <3>1 DEF Rows
        <3>2. CASE new = [read EXCEPT !.active = TRUE]
            BY <1>3, <3>2 DEF Rows
        <3>3. CASE new = [read EXCEPT !.url = ~read.url]
            <4> DEFINE url == ~read.url
            <4>1. url \in BOOLEAN
                BY Zenon
            <4> HIDE DEF url
            <4>2. new = [read EXCEPT !.url = url]
                BY <3>3 DEF url
            <4> QED BY <1>3, <4>1, <4>2 DEF Rows
        <3> QED BY <1>2, <1>5, <3>1, <3>2, <3>3
    <2>2. OneStory(read) => OneStory(new)
        BY <2>1 DEF OneStory
    <2>3. Stores(r, edit[r].c, new)
        BY <1>2, <1>5
    <2> QED BY <1>1, <2>1, <2>2, <2>3, StoresKeepsConnInv DEF read
<1> QED BY <1>4, <1>5

LEMMA DeleteKeepsConnInv ==
    ASSUME ConnInv, NEW r \in Edits, Delete(r) PROVE ConnInv'
<1> DEFINE read == edit[r].read  new == [read EXCEPT !.deleted = TRUE]
<1>1. /\ edit[r].op = "delete" /\ edit[r].at = "read" /\ Moved(r, "done")
      /\ Stores(r, edit[r].c, new) /\ UNCHANGED <<rowLock, sync_settings, asked>>
    BY DEF Delete, At
<1>2. read \in Rows
    BY MovedEdit
<1>3. /\ new \in Rows /\ new.present = read.present /\ new.version = read.version
      /\ new.validation = read.validation /\ new.health = read.health /\ new.failures = read.failures
      /\ new.probed = read.probed /\ new.key = read.key
    <2> HIDE DEF read
    <2> QED BY <1>2 DEF Rows
<1> HIDE DEF new
<1>4. OneStory(read) => OneStory(new)
    BY <1>3 DEF OneStory
<1> QED BY <1>1, <1>3, <1>4, StoresKeepsConnInv

(* The verdict of a test, and of a rotation, whose row is still locked.    *)
LEMMA PersistKeepsConnInv ==
    ASSUME ConnInv, NEW r \in Edits, Persist(r) PROVE ConnInv'
<1> DEFINE c == edit[r].c  read == edit[r].read  new == Verdict(read, edit[r].found)
           e == [edit[r] EXCEPT !.at = "done"]
           f == IF edit[r].op = "rotate" THEN [new EXCEPT !.version = @ + 1]
                ELSE [Flushed(c, read, new) EXCEPT !.probed = read.key]
<1>1. /\ e \in EditRows /\ ~Busy(e) /\ e.c = c /\ c \in Connections /\ read \in Rows
      /\ \A s \in Edits \ {r} : edit[s].op = "create" /\ edit[s].c = e.c => e.op # "create"
      /\ edit' = [edit EXCEPT ![r] = e]
    BY MovedEdit DEF Busy, Moved, Persist, Ends
<1>2. /\ edit[r].op \in {"test", "rotate"} /\ edit[r].at = "probed"
      /\ row' = [row EXCEPT ![c] = f] /\ rowLock[c] \subseteq {r}
      /\ overlapped' = IF row[c].version = read.version THEN overlapped ELSE overlapped \cup {c}
      /\ rowLock' = [rowLock EXCEPT ![c] = {}]
      /\ UNCHANGED <<sync_settings, asked>>
    BY DEF Persist, Free, Ends
<1>3. /\ row[c].present /\ read.present /\ read.version <= row[c].version
      /\ IF edit[r].op = "rotate" THEN read.version = row[c].version
         ELSE read.version = row[c].version => read = row[c]
    <2>1. EditInv(r, edit[r], row, rowLock)
        BY DEF ConnInv
    <2> QED BY <1>2, <2>1 DEF EditInv, Busy, RowEdits
<1>4. row \in [Connections -> Rows] /\ rowLock \in [Connections -> SUBSET Edits]
    BY DEF ConnInv, ConnTypes
<1>5. /\ new \in Rows /\ OneStory(new) /\ new.present = read.present /\ new.key = read.key
      /\ new.version = read.version /\ new.probed = read.key
    <2>2. edit[r].found \in Verdicts
        BY <1>2 DEF ConnInv, EditInv
    <2>1. new.probed = read.key
        BY <1>1 DEF Verdict, Rows
    <2> QED BY <1>1, <2>1, <2>2, VerdictIs
<1>6. row[c].version \in Nat /\ read.version \in Nat
    BY <1>1, <1>4 DEF Rows
<1> HIDE DEF e, c, read, new
<1>7. CASE edit[r].op = "rotate"
    <2>1. f = [new EXCEPT !.version = row[c].version + 1]
        BY <1>3, <1>5, <1>7
    <2>2. /\ f \in Rows /\ f.present /\ f.version = row[c].version + 1 /\ OneStory(f)
        <3> HIDE DEF f
        <3>1. /\ f \in Rows /\ f.present /\ f.version = row[c].version + 1
              /\ f.validation = new.validation /\ f.health = new.health /\ f.failures = new.failures
              /\ f.probed = new.probed /\ f.key = new.key
            <4>1. row[c].version + 1 \in Nat /\ new.present
                BY <1>3, <1>5, <1>6
            <4>2. f \in Rows
                BY <1>5, <2>1, <4>1 DEF Rows
            <4> QED BY <1>5, <2>1, <4>1 DEF Rows
        <3> QED BY <1>5, <3>1 DEF OneStory
    <2> HIDE DEF f
    <2>3. rowLock' \in [Connections -> SUBSET Edits] /\ overlapped \subseteq overlapped'
          /\ row[c].version < f.version /\ \A d \in Connections \ {c} : rowLock'[d] = rowLock[d]
        BY <1>1, <1>2, <1>4, <1>6, <2>2
    <2> QED BY <1>1, <1>2, <1>3, <1>4, <2>2, <2>3, WriteStep
<1>8. CASE edit[r].op # "rotate"
    <2> DEFINE g == Flushed(c, read, new)
    <2>1. /\ g \in Rows /\ g.version = row[c].version + 1 /\ g.present
          /\ read = row[c] => g = [new EXCEPT !.version = row[c].version + 1]
        BY <1>1, <1>3, <1>4, <1>5, FlushedIs, ZenonT(60)
    <2>2. f = [g EXCEPT !.probed = read.key]
        BY <1>8 DEF read
    <2> HIDE DEF g
    <2>3. f \in Rows /\ f.present /\ f.version = row[c].version + 1
        <3> HIDE DEF f
        <3> QED BY <1>1, <2>1, <2>2 DEF Rows
    <2>4. ASSUME c \notin overlapped' PROVE OneStory(f)
        <3>1. read = row[c]
            BY <1>2, <1>3, <1>8, <2>4 DEF c, read
        <3>2. g = [new EXCEPT !.version = row[c].version + 1]
            BY <2>1, <3>1
        <3> HIDE DEF f
        <3>3. /\ f.validation = new.validation /\ f.health = new.health /\ f.failures = new.failures
              /\ f.probed = new.probed /\ f.key = new.key
            BY <1>5, <2>2, <3>2 DEF Rows
        <3> QED BY <1>5, <3>3 DEF OneStory
    <2> HIDE DEF f
    <2>5. rowLock' \in [Connections -> SUBSET Edits] /\ overlapped \subseteq overlapped'
          /\ row[c].version < f.version /\ \A d \in Connections \ {c} : rowLock'[d] = rowLock[d]
        BY <1>1, <1>2, <1>4, <1>6, <2>3
    <2> QED BY <1>1, <1>2, <1>3, <1>4, <2>3, <2>4, <2>5, WriteStep
<1> QED BY <1>7, <1>8

LEMMA CreateKeepsConnInv ==
    ASSUME ConnInv, NEW r \in Edits, Create(r) PROVE ConnInv'
<1>1. PICK c \in Connections, kind \in ConnKinds, key \in Keys \cup {NoKey}, url \in BOOLEAN :
        /\ edit[r].at = "idle" /\ ~row[c].present
        /\ \A other \in Edits : ~(edit[other].op = "create" /\ edit[other].c = c)
        /\ LET made == NewRow(kind, key, url) IN
           IF key # NoKey \/ kind = "ollama"
           THEN /\ Begins(r, [Idle EXCEPT !.op = "create", !.c = c, !.read = made, !.at = "probing"])
                /\ UNCHANGED row
           ELSE /\ Begins(r, [Idle EXCEPT !.op = "create", !.c = c, !.at = "done"])
                /\ row' = [row EXCEPT ![c] = made]
        /\ UNCHANGED <<sync_settings, rowLock, asked, overlapped>>
    BY DEF Create
<1> DEFINE made == NewRow(kind, key, url)
<1>2. made \in Rows /\ made.validation = "none" /\ made.present
    BY FreshRows
<1>3. rowLock' \in [Connections -> SUBSET Edits]
    BY <1>1 DEF ConnInv, ConnTypes
<1>4. CASE key # NoKey \/ kind = "ollama"
    <2> DEFINE e == [Idle EXCEPT !.op = "create", !.c = c, !.read = made, !.at = "probing"]
    <2>1. edit' = [edit EXCEPT ![r] = e] /\ UNCHANGED row
        BY <1>1, <1>4 DEF Begins
    <2>2. e \in EditRows /\ e.op = "create" /\ e.c = c /\ e.read = made /\ e.at = "probing"
        <3> HIDE DEF made
        <3> QED BY <1>2, FreshRows DEF EditRows
    <2> HIDE DEF e, made
    <2>3. EditInv(r, e, row, rowLock')
        BY <1>1, <1>2, <2>2 DEF EditInv, RowEdits
    <2>4. \A s \in Edits \ {r} : edit[s].op = "create" /\ edit[s].c = e.c => e.op # "create"
        BY <1>1, <2>2
    <2> QED BY <1>1, <1>3, <2>1, <2>2, <2>3, <2>4, EditStep
<1>5. CASE ~(key # NoKey \/ kind = "ollama")
    <2> DEFINE e == [Idle EXCEPT !.op = "create", !.c = c, !.at = "done"]
    <2>1. edit' = [edit EXCEPT ![r] = e] /\ row' = [row EXCEPT ![c] = made]
        BY <1>1, <1>5 DEF Begins
    <2>2. e \in EditRows /\ e.op = "create" /\ e.c = c /\ e.at = "done"
        BY FreshRows DEF EditRows
    <2> HIDE DEF e, made
    <2>3. ~Busy(e) /\ OneStory(made)
        BY <1>2, <2>2 DEF Busy, OneStory
    <2>4. /\ \A s \in Edits \ {r} : edit[s].op = "create" /\ edit[s].c = e.c => e.op # "create"
          /\ \A s \in Edits \ {r} : ~(edit[s].op = "create" /\ edit[s].c = c)
        BY <1>1, <2>2
    <2>5. ~row[c].present /\ overlapped' = overlapped /\ rowLock' = rowLock
          /\ UNCHANGED <<sync_settings, asked>>
        BY <1>1
    <2> QED BY <1>2, <1>3, <2>1, <2>2, <2>3, <2>4, <2>5, WriteStep
<1> QED BY <1>4, <1>5

LEMMA CreatedKeepsConnInv ==
    ASSUME ConnInv, NEW r \in Edits, Created(r) PROVE ConnInv'
<1> DEFINE c == edit[r].c  read == edit[r].read  new == Verdict(read, edit[r].found)
           e == [edit[r] EXCEPT !.at = "done"]
<1>1. /\ e \in EditRows /\ ~Busy(e) /\ e.c = c /\ c \in Connections /\ read \in Rows
      /\ \A s \in Edits \ {r} : edit[s].op = "create" /\ edit[s].c = e.c => e.op # "create"
      /\ edit' = [edit EXCEPT ![r] = e]
    BY MovedEdit DEF Busy, Moved, Created
<1>2. /\ edit[r].op = "create" /\ edit[r].at = "probed" /\ row' = [row EXCEPT ![c] = new]
      /\ UNCHANGED <<sync_settings, rowLock, asked, overlapped>>
    BY DEF Created, At
<1>3. ~row[c].present /\ read.present /\ edit[r].found \in Verdicts
    <2>1. EditInv(r, edit[r], row, rowLock)
        BY DEF ConnInv
    <2> QED BY <1>2, <2>1 DEF EditInv, Busy
<1>4. new \in Rows /\ OneStory(new) /\ new.present
    BY <1>1, <1>3, VerdictIs
<1>5. \A s \in Edits \ {r} : ~(edit[s].op = "create" /\ edit[s].c = c)
    BY <1>2 DEF ConnInv, CreatesApart
<1>6. rowLock' \in [Connections -> SUBSET Edits]
    BY <1>2 DEF ConnInv, ConnTypes
<1> HIDE DEF e, c, read, new
<1> QED BY <1>1, <1>2, <1>3, <1>4, <1>5, <1>6, WriteStep

LEMMA ReadRowKeepsConnInv ==
    ASSUME ConnInv, NEW r \in Edits, NEW c \in Connections, NEW op \in RowEdits, ReadRow(r, op, c)
    PROVE  ConnInv'
<1> DEFINE e == [Idle EXCEPT !.op = op, !.c = c, !.read = row[c], !.at = "read"]
<1>1. /\ Found(c) /\ edit' = [edit EXCEPT ![r] = e]
      /\ UNCHANGED <<row, sync_settings, rowLock, asked, overlapped>>
    BY DEF ReadRow, Begins
<1>2. row[c] \in Rows /\ rowLock' \in [Connections -> SUBSET Edits]
    BY <1>1 DEF ConnInv, ConnTypes
<1>3. e \in EditRows /\ e.op = op /\ e.c = c /\ e.read = row[c] /\ e.at = "read"
    BY <1>2, FreshRows, ZenonT(60) DEF EditRows
<1> HIDE DEF e
<1>4. EditInv(r, e, row, rowLock')
    BY <1>1, <1>2, <1>3 DEF EditInv, RowEdits, Found, Rows
<1>5. e.op # "create"
    BY <1>3 DEF RowEdits
<1> QED BY <1>1, <1>2, <1>3, <1>4, <1>5, EditStep

LEMMA RotateKeepsConnInv ==
    ASSUME ConnInv, NEW r \in Edits, Rotate(r) PROVE ConnInv'
<1> DEFINE c == edit[r].c  read == edit[r].read
<1>1. PICK key \in Keys :
          edit' = [edit EXCEPT ![r].read = [row[c] EXCEPT !.key = key], ![r].at = "probing"]
    BY DEF Rotate
<1> DEFINE x == [row[c] EXCEPT !.key = key]
           e == [edit[r] EXCEPT !.read = x, !.at = "probing"]
<1>2. edit[r] \in EditRows /\ row \in [Connections -> Rows] /\ rowLock \in [Connections -> SUBSET Edits]
      /\ edit \in [Edits -> EditRows]
    BY DEF ConnInv, ConnTypes
<1>3. c \in Connections /\ read \in Rows
    BY MovedEdit
<1>4. /\ edit[r].op = "rotate" /\ edit[r].at = "read" /\ rowLock[c] \subseteq {r}
      /\ rowLock' = [rowLock EXCEPT ![c] = {r}] /\ overlapped \subseteq overlapped'
      /\ UNCHANGED <<row, sync_settings, asked>>
    BY DEF Rotate, At, Free
<1>5. row[c].present /\ read.present
    <2>1. EditInv(r, edit[r], row, rowLock)
        BY DEF ConnInv
    <2> QED BY <1>4, <2>1 DEF EditInv, Busy, RowEdits
<1>6. edit' = [edit EXCEPT ![r] = e]
    BY <1>1, <1>2
<1>9. row[c] \in Rows /\ row[c].version \in Nat
    BY <1>2, <1>3 DEF Rows
<1>10. x \in Rows /\ x.present /\ x.version = row[c].version
    BY <1>5, <1>9 DEF Rows
<1> HIDE DEF x
<1>11. e \in EditRows /\ e.op = "rotate" /\ e.c = c /\ e.read = x /\ e.at = "probing"
    BY <1>2, <1>4, <1>10 DEF EditRows
<1> HIDE DEF e
<1>12. rowLock' \in [Connections -> SUBSET Edits] /\ rowLock'[c] = {r}
       /\ \A s \in Edits \ {r}, d \in Connections : rowLock[d] = {s} => rowLock'[d] = {s}
    BY <1>2, <1>3, <1>4
<1>13. EditInv(r, e, row, rowLock')
    BY <1>5, <1>9, <1>10, <1>11, <1>12 DEF EditInv, RowEdits
<1> QED BY <1>4, <1>6, <1>11, <1>12, <1>13, EditStep

LEMMA TestKeepsConnInv ==
    ASSUME ConnInv, NEW r \in Edits, Test(r) PROVE ConnInv'
<1> DEFINE e == [edit[r] EXCEPT !.at = "probing"]
<1>1. /\ edit[r].op = "test" /\ edit[r].at = "read" /\ edit' = [edit EXCEPT ![r] = e]
      /\ UNCHANGED <<row, sync_settings, rowLock, asked, overlapped>>
    BY DEF Test, At, Moved
<1>2. /\ e \in EditRows /\ e.at = "probing" /\ e.op = "test" /\ e.c = edit[r].c
      /\ e.read = edit[r].read /\ rowLock' \in [Connections -> SUBSET Edits]
    BY <1>1, MovedEdit DEF ConnInv, ConnTypes
<1> HIDE DEF e
<1>3. EditInv(r, edit[r], row, rowLock)
    BY DEF ConnInv
<1>4. EditInv(r, e, row, rowLock')
    BY <1>1, <1>2, <1>3 DEF EditInv, Busy, RowEdits
<1> QED BY <1>1, <1>2, <1>4, EditStep

LEMMA ProbeKeepsConnInv ==
    ASSUME ConnInv, NEW r \in Edits, Probe(r) PROVE ConnInv'
<1> DEFINE read == edit[r].read
<1>1. PICK validation \in Validate(read.kind, read.key, read.url) :
          edit' = [edit EXCEPT ![r].at = "probed", ![r].found = validation]
    BY DEF Probe
<1>2. validation \in Verdicts
    BY DEF Validate, Verdicts, Outages
<1> DEFINE e == [edit[r] EXCEPT !.at = "probed", !.found = validation]
<1>3. edit[r] \in EditRows /\ edit \in [Edits -> EditRows] /\ rowLock' \in [Connections -> SUBSET Edits]
      /\ edit[r].at = "probing" /\ UNCHANGED <<row, sync_settings, rowLock, asked, overlapped>>
    BY DEF Probe, ConnInv, ConnTypes
<1>4. edit' = [edit EXCEPT ![r] = e]
    BY <1>1, <1>3
<1>5. /\ e \in EditRows /\ e.at = "probed" /\ e.op = edit[r].op /\ e.c = edit[r].c
      /\ e.read = edit[r].read /\ e.found = validation
    BY <1>2, <1>3 DEF EditRows
<1> HIDE DEF e
<1>6. EditInv(r, edit[r], row, rowLock)
    BY DEF ConnInv
<1>7. EditInv(r, e, row, rowLock')
    BY <1>2, <1>3, <1>5, <1>6 DEF EditInv, Busy
<1>8. \A s \in Edits \ {r} : edit[s].op = "create" /\ edit[s].c = e.c => e.op # "create"
    BY <1>5 DEF ConnInv, CreatesApart
<1> QED BY <1>3, <1>4, <1>5, <1>7, <1>8, EditStep

(* Synchronizations, settings and roll-backs hold no row.                  *)
LEMMA ElsewhereStep ==
    ASSUME ConnInv, NEW r \in Edits, NEW e \in EditRows, edit' = [edit EXCEPT ![r] = e],
           UNCHANGED <<row, sync_settings, asked, overlapped>>, ~Busy(e) \/ e.op = "settings",
           e.at # "probed", e.op = "create" => edit[r].op = "create" /\ e.c = edit[r].c,
           rowLock' = rowLock \/ rowLock' = [c \in Connections |-> rowLock[c] \ {r}]
    PROVE  ConnInv'
<1>1. rowLock \in [Connections -> SUBSET Edits]
    BY DEF ConnInv, ConnTypes
<1>2. /\ rowLock' \in [Connections -> SUBSET Edits]
      /\ \A s \in Edits \ {r}, c \in Connections : rowLock[c] = {s} => rowLock'[c] = {s}
    BY <1>1
<1>3. EditInv(r, e, row, rowLock')
    BY DEF EditInv, RowEdits
<1>4. \A s \in Edits \ {r} : edit[s].op = "create" /\ edit[s].c = e.c => e.op # "create"
    BY DEF ConnInv, CreatesApart
<1> QED BY <1>2, <1>3, <1>4, EditStep

LEMMA SyncKeepsConnInv ==
    ASSUME ConnInv, NEW r \in Edits, BeginSync(r) \/ SyncConnection(r) \/ SyncAnswered(r) PROVE ConnInv'
<1>0. edit[r] \in EditRows /\ edit \in [Edits -> EditRows]
    BY DEF ConnInv, ConnTypes
<1>1. CASE BeginSync(r)
    <2>1. PICK chosen \in {{c} : c \in {d \in Connections : Found(d)}}
                              \cup {{d \in Connections : Found(d) /\ row[d].active}} :
              /\ Begins(r, [Idle EXCEPT !.op = "sync", !.at = "syncing", !.todo = chosen])
              /\ UNCHANGED <<row, sync_settings, rowLock, asked, overlapped>>
        BY <1>1 DEF BeginSync
    <2>2. chosen \subseteq Connections
        OBVIOUS
    <2> DEFINE e == [Idle EXCEPT !.op = "sync", !.at = "syncing", !.todo = chosen]
    <2>3. e \in EditRows /\ e.op = "sync" /\ e.at = "syncing"
        BY <2>2, FreshRows DEF EditRows
    <2>4. edit' = [edit EXCEPT ![r] = e]
        BY <2>1 DEF Begins
    <2> HIDE DEF e
    <2>5. ~Busy(e)
        BY <2>3 DEF Busy
    <2> QED BY <2>1, <2>3, <2>4, <2>5, ElsewhereStep
<1>2. CASE SyncConnection(r)
    <2>1. /\ edit[r].op = "sync" /\ edit[r].at = "syncing"
          /\ UNCHANGED <<row, sync_settings, rowLock, asked, overlapped>>
        BY <1>2 DEF SyncConnection, At
    <2>2. PICK e \in EditRows : edit' = [edit EXCEPT ![r] = e] /\ e.op = "sync" /\ e.at \in {"syncing", "error"}
        <3>1. PICK c \in edit[r].todo :
                 \/ \E outcome \in {"completed", "failed"} :
                       edit' = [edit EXCEPT ![r].todo = @ \ {c}, ![r].runs = @ \cup {<<c, outcome>>}]
                 \/ edit' = [edit EXCEPT ![r].at = "error", ![r].todo = {}, ![r].runs = {}]
            BY <1>2 DEF SyncConnection
        <3>2. CASE edit' = [edit EXCEPT ![r].at = "error", ![r].todo = {}, ![r].runs = {}]
            <4> DEFINE e == [edit[r] EXCEPT !.at = "error", !.todo = {}, !.runs = {}]
            <4>1. edit' = [edit EXCEPT ![r] = e]
                BY <1>0, <3>2
            <4>2. e \in EditRows /\ e.op = "sync" /\ e.at = "error"
                BY <1>0, <2>1 DEF EditRows
            <4> QED BY <4>1, <4>2
        <3>3. ASSUME NEW outcome \in {"completed", "failed"},
                     edit' = [edit EXCEPT ![r].todo = @ \ {c}, ![r].runs = @ \cup {<<c, outcome>>}]
              PROVE  \E e \in EditRows : /\ edit' = [edit EXCEPT ![r] = e]
                                         /\ e.op = "sync" /\ e.at \in {"syncing", "error"}
            <4> DEFINE todo == edit[r].todo \ {c}  runs == edit[r].runs \cup {<<c, outcome>>}
                       e == [edit[r] EXCEPT !.todo = todo, !.runs = runs]
            <4>1. edit' = [edit EXCEPT ![r] = e]
                BY <1>0, <3>3
            <4>2. todo \in SUBSET Connections /\ runs \in SUBSET (Connections \X {"completed", "failed"})
                BY <1>0 DEF EditRows
            <4> HIDE DEF todo, runs
            <4>3. e \in EditRows /\ e.op = "sync" /\ e.at = "syncing"
                BY <1>0, <2>1, <4>2 DEF EditRows
            <4> QED BY <4>1, <4>3
        <3> QED BY <3>1, <3>2, <3>3
    <2>3. ~Busy(e)
        BY <2>2 DEF Busy
    <2> QED BY <2>1, <2>2, <2>3, ElsewhereStep
<1>3. CASE SyncAnswered(r)
    <2> DEFINE e == [edit[r] EXCEPT !.at = "done"]
    <2>1. /\ edit[r].op = "sync" /\ edit' = [edit EXCEPT ![r] = e]
          /\ UNCHANGED <<row, sync_settings, rowLock, asked, overlapped>>
        BY <1>3 DEF SyncAnswered, At, Moved
    <2>2. e \in EditRows /\ e.at = "done" /\ e.op = "sync"
        BY <2>1, MovedEdit
    <2> HIDE DEF e
    <2>3. ~Busy(e)
        BY <2>2 DEF Busy
    <2> QED BY <2>1, <2>2, <2>3, ElsewhereStep
<1> QED BY <1>1, <1>2, <1>3

LEMMA MergedIsBag ==
    ASSUME NEW bag \in Bags, NEW patch \in SettingsPatches PROVE Merged(bag, patch) \in Bags
<1>1. DOMAIN bag = {"auto", "interval"} /\ bag["auto"] \in BOOLEAN /\ bag["interval"] \in {"1h", "5m"}
    BY DEF Bags
<1>2. /\ "auto" \in DOMAIN patch => patch["auto"] \in BOOLEAN
      /\ "interval" \in DOMAIN patch => patch["interval"] \in {"1h", "5m"}
    <2>1. CASE patch = [auto |-> TRUE]
        BY <2>1
    <2>2. CASE patch = [auto |-> FALSE]
        BY <2>2
    <2>3. CASE patch = [interval |-> "5m"]
        BY <2>3
    <2> QED BY <2>1, <2>2, <2>3 DEF SettingsPatches
<1> DEFINE m == Merged(bag, patch)
<1>3. m = [f \in {"auto", "interval"} |-> IF f \in DOMAIN patch THEN patch[f] ELSE bag[f]]
    BY <1>1 DEF Merged
<1> HIDE DEF m
<1>4. m = [auto |-> m["auto"], interval |-> m["interval"]] /\ m["auto"] \in BOOLEAN
      /\ m["interval"] \in {"1h", "5m"}
    BY <1>1, <1>2, <1>3
<1>5. m \in Bags
    BY <1>4 DEF Bags
<1> QED BY <1>5 DEF m

LEMMA SettingsKeepConnInv ==
    ASSUME ConnInv, NEW r \in Edits, ReadSettings(r) \/ SaveSettings(r) PROVE ConnInv'
<1>0. /\ edit[r] \in EditRows /\ edit \in [Edits -> EditRows] /\ sync_settings \in Bags /\ asked \in Bags
      /\ row \in [Connections -> Rows] /\ rowLock \in [Connections -> SUBSET Edits]
    BY DEF ConnInv, ConnTypes
<1>1. CASE ReadSettings(r)
    <2>1. PICK patch \in SettingsPatches :
              /\ Begins(r, [Idle EXCEPT !.op = "settings", !.at = "read", !.bag = sync_settings,
                                        !.patch = patch])
              /\ UNCHANGED <<row, sync_settings, rowLock, asked, overlapped>>
        BY <1>1 DEF ReadSettings
    <2> DEFINE e == [Idle EXCEPT !.op = "settings", !.at = "read", !.bag = sync_settings, !.patch = patch]
    <2>2. e \in EditRows /\ e.op = "settings" /\ e.at = "read"
        BY <1>0, FreshRows DEF EditRows
    <2>3. edit' = [edit EXCEPT ![r] = e]
        BY <2>1 DEF Begins
    <2> HIDE DEF e
    <2> QED BY <2>1, <2>2, <2>3, ElsewhereStep
<1>2. CASE SaveSettings(r)
    <2> DEFINE e == [edit[r] EXCEPT !.at = "done"]  bag == edit[r].bag  patch == edit[r].patch
               merged == Merged(bag, patch)
    <2>1. /\ edit[r].op = "settings" /\ edit' = [edit EXCEPT ![r] = e]
          /\ sync_settings' = IF merged = bag THEN sync_settings ELSE merged
          /\ asked' = Merged(asked, patch)
          /\ overlapped' = IF sync_settings = bag THEN overlapped ELSE overlapped \cup {"settings"}
          /\ UNCHANGED <<row, rowLock>>
        BY <1>2 DEF SaveSettings, At, Moved
    <2>2. e \in EditRows /\ e.at = "done" /\ e.op = "settings"
        BY <2>1, MovedEdit
    <2>3. bag \in Bags /\ patch \in SettingsPatches
        BY <1>0 DEF EditRows
    <2>4. sync_settings' \in Bags /\ asked' \in Bags
        BY <1>0, <2>1, <2>3, MergedIsBag
    <2>5. ASSUME "settings" \notin overlapped' PROVE sync_settings' = asked'
        <3>1. "settings" \notin overlapped /\ sync_settings = bag
            BY <2>1, <2>5
        <3>2. asked = bag
            BY <3>1 DEF ConnInv, SeparateEditsAgree
        <3> QED BY <2>1, <3>1, <3>2
    <2> HIDE DEF e, merged
    <2>6. ConnTypes'
        BY <1>0, <2>1, <2>2, <2>4 DEF ConnTypes
    <2>7. /\ edit'[r] = e /\ \A s \in Edits \ {r} : edit'[s] = edit[s]
        BY <1>0, <2>1
    <2>8. CreatesApart'
        BY <2>2, <2>7 DEF ConnInv, CreatesApart
    <2>9. SeparateEditsAgree'
        <3>1. overlapped \subseteq overlapped'
            BY <2>1
        <3> QED BY <2>1, <2>5, <3>1 DEF ConnInv, SeparateEditsAgree
    <2>10. ASSUME NEW s \in Edits PROVE EditInv(s, edit'[s], row, rowLock)
        BY <2>2, <2>7 DEF ConnInv, EditInv, Busy
    <2> QED BY <2>1, <2>6, <2>8, <2>9, <2>10 DEF ConnInv
<1> QED BY <1>1, <1>2

LEMMA RollBackKeepsConnInv ==
    ASSUME ConnInv, NEW r \in Edits, RollBack(r) PROVE ConnInv'
<1> DEFINE e == [edit[r] EXCEPT !.at = "error"]
<1>1. /\ edit' = [edit EXCEPT ![r] = e] /\ UNCHANGED <<row, sync_settings, asked, overlapped>>
      /\ rowLock' = [c \in Connections |-> rowLock[c] \ {r}]
    BY DEF RollBack, Moved
<1>2. e \in EditRows /\ e.at = "error" /\ e.op = edit[r].op /\ e.c = edit[r].c
    BY MovedEdit
<1> HIDE DEF e
<1>3. ~Busy(e)
    BY <1>2 DEF Busy
<1> QED BY <1>1, <1>2, <1>3, ElsewhereStep

LEMMA ConnInvStep == ConnInv /\ [ConnectionsNext]_connVars => ConnInv'
<1> SUFFICES ASSUME ConnInv, [ConnectionsNext]_connVars PROVE ConnInv'
    OBVIOUS
<1>1. CASE UNCHANGED connVars
    BY <1>1 DEF connVars, ConnInv, ConnTypes, CreatesApart, SeparateEditsAgree, EditInv
<1>2. ASSUME NEW r \in Edits,
             \/ Create(r) \/ Created(r)
             \/ \E c \in Connections, op \in {"update", "delete", "rotate", "test"} : ReadRow(r, op, c)
             \/ Update(r) \/ Delete(r) \/ Rotate(r) \/ Test(r) \/ Probe(r) \/ Persist(r)
             \/ BeginSync(r) \/ SyncConnection(r) \/ SyncAnswered(r)
             \/ ReadSettings(r) \/ SaveSettings(r)
             \/ RollBack(r)
      PROVE  ConnInv'
    <2>1. CASE Create(r) \/ Created(r)
        BY <2>1, CreateKeepsConnInv, CreatedKeepsConnInv
    <2>2. CASE \E c \in Connections, op \in {"update", "delete", "rotate", "test"} : ReadRow(r, op, c)
        BY <2>2, ReadRowKeepsConnInv DEF RowEdits
    <2>3. CASE Update(r) \/ Delete(r) \/ Rotate(r) \/ Test(r) \/ Probe(r) \/ Persist(r)
        BY <2>3, UpdateKeepsConnInv, DeleteKeepsConnInv, RotateKeepsConnInv, TestKeepsConnInv,
           ProbeKeepsConnInv, PersistKeepsConnInv
    <2>4. CASE BeginSync(r) \/ SyncConnection(r) \/ SyncAnswered(r)
        BY <2>4, SyncKeepsConnInv
    <2>5. CASE ReadSettings(r) \/ SaveSettings(r)
        BY <2>5, SettingsKeepConnInv
    <2>6. CASE RollBack(r)
        BY <2>6, RollBackKeepsConnInv
    <2> QED BY <1>2, <2>1, <2>2, <2>3, <2>4, <2>5, <2>6
<1> QED BY <1>1, <1>2 DEF ConnectionsNext

(* Of a row where no edit wrote over a version it had not read, verdict,   *)
(* health, failure count and probed key tell one story, and the settings   *)
(* no save overlapped hold all that was asked for, whatever the number of  *)
(* connections and requests.                                               *)
THEOREM SeparateEditsTellOneStory == ConnectionsSpec => []SeparateEditsAgree
<1>1. ConnInv => SeparateEditsAgree
    BY DEF ConnInv
<1> QED BY <1>1, ConnInvStep, InitConnInv, PTL DEF ConnectionsSpec

(* One request at most has a row locked.                                   *)
LocksAreAlone == \A c \in Connections : rowLock[c] = {} \/ \E r \in Edits : rowLock[c] = {r}

LEMMA LocksStayAlone ==
    ASSUME ConnTypes, LocksAreAlone, overlapped \subseteq Connections \cup {"settings"},
           [ConnectionsNext]_connVars
    PROVE  LocksAreAlone' /\ overlapped' \subseteq Connections \cup {"settings"}
<1>1. CASE UNCHANGED connVars
    BY <1>1 DEF connVars, LocksAreAlone
<1>2. ASSUME NEW r \in Edits,
             \/ rowLock' = rowLock
             \/ \E c \in Connections : rowLock' = [rowLock EXCEPT ![c] = {r}]
             \/ \E c \in Connections : rowLock' = [rowLock EXCEPT ![c] = {}]
             \/ rowLock' = [c \in Connections |-> rowLock[c] \ {r}]
      PROVE  LocksAreAlone'
    <2> SUFFICES ASSUME NEW d \in Connections
                 PROVE  rowLock'[d] = {} \/ \E s \in Edits : rowLock'[d] = {s}
        BY DEF LocksAreAlone
    <2>1. rowLock'[d] \in {rowLock[d], {r}, {}, rowLock[d] \ {r}}
        BY <1>2 DEF ConnTypes
    <2>2. PICK s \in Edits : rowLock[d] \in {{}, {s}}
        BY DEF LocksAreAlone
    <2>3. rowLock[d] \ {r} \in {{}, {s}}
        BY <2>2
    <2> QED BY <2>1, <2>2, <2>3
<1>3. ASSUME NEW r \in Edits PROVE edit[r].c \in Connections
    BY DEF ConnTypes, EditRows
<1>4. ASSUME NEW r \in Edits,
             \/ Create(r) \/ Created(r)
             \/ \E c \in Connections, op \in {"update", "delete", "rotate", "test"} : ReadRow(r, op, c)
             \/ Update(r) \/ Delete(r) \/ Test(r) \/ Probe(r)
             \/ BeginSync(r) \/ SyncConnection(r) \/ SyncAnswered(r)
             \/ ReadSettings(r) \/ SaveSettings(r)
      PROVE  rowLock' = rowLock /\ overlapped' \subseteq Connections \cup {"settings"}
    BY <1>3, <1>4
       DEF Create, Created, ReadRow, Update, Delete, Test, Probe, Stores, BeginSync,
           SyncConnection, SyncAnswered, ReadSettings, SaveSettings
<1>5. ASSUME NEW r \in Edits, Rotate(r) \/ Persist(r) \/ RollBack(r)
      PROVE  LocksAreAlone' /\ overlapped' \subseteq Connections \cup {"settings"}
    <2>1. /\ \/ \E c \in Connections : rowLock' = [rowLock EXCEPT ![c] = {r}]
             \/ \E c \in Connections : rowLock' = [rowLock EXCEPT ![c] = {}]
             \/ rowLock' = [c \in Connections |-> rowLock[c] \ {r}]
          /\ overlapped' \subseteq overlapped \cup {edit[r].c}
        BY <1>3, <1>5 DEF Rotate, Persist, RollBack, Ends
    <2> QED BY <1>2, <1>3, <2>1
<1> QED BY <1>1, <1>2, <1>4, <1>5 DEF ConnectionsNext

(* ConnectionsTypeOK, in every state and for any number of connections and *)
(* requests: the lock of a row has one holder, although rotate takes it    *)
(* before its probe and keeps it until the verdict is stored, and a        *)
(* request that fails lets go of it (api/v1/provider_connections.py).      *)
THEOREM OneHolderPerRow == ConnectionsSpec => []ConnectionsTypeOK
<1> DEFINE Alone == LocksAreAlone /\ overlapped \subseteq Connections \cup {"settings"}
<1>1. ConnectionsInit => Alone
    BY DEF ConnectionsInit, LocksAreAlone
<1>2. ConnInv /\ Alone /\ [ConnectionsNext]_connVars => Alone'
    BY LocksStayAlone DEF ConnInv
<1>3. ConnInv /\ Alone => ConnectionsTypeOK
    <2> SUFFICES ASSUME ConnInv, Alone PROVE ConnectionsTypeOK
        OBVIOUS
    <2>1. ConnTypes
        BY DEF ConnInv
    <2>2. ASSUME NEW c \in Connections PROVE Cardinality(rowLock[c]) <= 1
        <3>1. rowLock[c] = {} \/ \E r \in Edits : rowLock[c] = {r}
            BY DEF LocksAreAlone
        <3>2. Cardinality({}) = 0 /\ \A r : Cardinality({r}) = 1
            BY FS_EmptySet, FS_Singleton
        <3>3. Cardinality(rowLock[c]) \in {0, 1}
            BY <3>1, <3>2
        <3> QED BY <3>3
    <2>3. ASSUME NEW c \in Connections
          PROVE  /\ row[c].kind \in Kinds /\ row[c].key \in Keys \cup {NoKey}
                 /\ row[c].validation \in Verdicts \cup {"none"}
                 /\ row[c].failures \in 0..MaxFailureCount
                 /\ rowLock[c] \subseteq Edits
        BY <2>1 DEF ConnTypes, Rows
    <2>4. \A r \in Edits :
             edit[r].at \in {"idle", "read", "probing", "probed", "syncing", "done", "error"}
        BY <2>1 DEF ConnTypes, EditRows
    <2> QED BY <2>2, <2>3, <2>4 DEF ConnectionsTypeOK
<1> QED BY <1>1, <1>2, <1>3, InitConnInv, ConnInvStep, PTL DEF ConnectionsSpec

-----------------------------------------------------------------------------
(* Provider calls.  The rows and the events of a request agree from the    *)
(* moment they are made, and are those of its rounds; nothing of it is     *)
(* committed before it is done.                                            *)

Ids == Callers \X Nat
Answers == [prompt : Nat, completion : Nat, total : Nat]
Charges == [id : Ids, tokens : Answers]
Executions == [id : Ids, adapter : Adapters, status : {"succeeded", "failed"}, tokens : Answers,
               event : Ids \cup {NoEvent}, deleted : BOOLEAN]
CallErrors == {"none", "configuration", "authentication", "invalid_request", "network",
               "rate_limit", "internal", "provider"}
CallResults == {"none", "static", "valid", "unauthorized", "bad_gateway", "live", "error", "page",
                "runs", "committed"}
CallOps == Prompts \cup {"none", "models", "verify", "usage", "collect"}
Calls == [op : CallOps,
          at : {"idle", "prepare", "send", "answered", "failed", "next", "commit", "done"},
          targets : Seq(Adapters), key : {"good", "malformed", "none"}, endpoint : BOOLEAN,
          try : Nat, round : Nat, got : Answers, error : CallErrors,
          rows : SUBSET Executions, events : SUBSET Charges, result : CallResults]

Served(bills, id, tokens) == \E b \in bills : b.id = id /\ b.tokens = tokens

(* A set of rows and the events charged for them.                          *)
Books(rows, events, bills) ==
    /\ \A x \in rows :
          IF x.status = "succeeded"
          THEN x.event = x.id /\ \E v \in events : v.id = x.id /\ v.tokens = x.tokens
          ELSE x.event = NoEvent
    /\ \A x, y \in rows : x.id = y.id => x = y
    /\ \A v \in events : Served(bills, v.id, v.tokens) /\ \E x \in rows : x.event = v.id
    /\ \A v, w \in events : v.id = w.id => v = w

CallOK(r, e, bills) ==
    /\ Books(e.rows, e.events, bills)
    /\ \A x \in e.rows : x.id[1] = r /\ (x.id[2] < e.round \/ (x.id[2] = e.round /\ e.at \in {"next", "commit"}))
    /\ e.at \in {"idle", "done"} \/ e.op \notin Prompts => e.rows = {} /\ e.events = {}
    /\ e.at = "answered" /\ e.op \in Prompts => Served(bills, <<r, e.round>>, e.got)
    /\ e.at \notin {"idle", "done"} => e.targets # <<>>
    /\ e.at = "next" => Len(e.targets) > 1

CallInv ==
    /\ pcall \in [Callers -> Calls]
    /\ executions \subseteq Executions /\ charged \subseteq Charges /\ billed \subseteq Charges
    /\ Books(executions, charged, billed)
    /\ \A x \in executions : pcall[x.id[1]].at = "done"
    /\ \A r \in Callers : CallOK(r, pcall[r], billed)

LEMMA RowIdIsNoEvent == \A id \in Ids : id # NoEvent /\ id[1] \in Callers /\ id[2] \in Nat
BY DEF Ids, NoEvent

LEMMA TokensAreAnswers ==
    ASSUME NEW a \in Adapters, NEW u \in UsageReports PROVE Tokens(a, u) \in Answers
<1>1. u.prompt \in Nat /\ u.completion \in Nat /\ u.total \in Nat
    BY DEF UsageReports
<1>2. GivenTotal(u) \in Answers /\ SummedTotal(u) \in Answers
    <2> DEFINE t == IF u.totalled THEN u.total ELSE 0
    <2>1. t \in Nat /\ BothTokens(u) \in Nat
        BY <1>1 DEF BothTokens
    <2>2. GivenTotal(u) = [prompt |-> u.prompt, completion |-> u.completion, total |-> t]
        BY DEF GivenTotal
    <2> HIDE DEF t
    <2> QED BY <1>1, <2>1, <2>2 DEF SummedTotal, Answers
<1>3. a \in AdapterNames
    BY CallsAssumption DEF CallsAssumption
<1>4. /\ OpenAITokens(u) \in Answers /\ AnthropicTokens(u) \in Answers /\ OpenRouterTokens(u) \in Answers
      /\ GoogleTokens(u) \in Answers /\ AzureTokens(u) \in Answers /\ GrokTokens(u) \in Answers
      /\ OllamaTokens(u) \in Answers
    BY <1>2 DEF OpenAITokens, AnthropicTokens, OpenRouterTokens, GoogleTokens, AzureTokens, GrokTokens,
                OllamaTokens
<1> QED BY <1>3, <1>4 DEF Tokens, AdapterNames

LEMMA BooksGrow ==
    ASSUME NEW rows, NEW events, NEW bills, NEW more, bills \subseteq more, Books(rows, events, bills)
    PROVE  Books(rows, events, more)
BY DEF Books, Served

(* One request moves on, and no row of another is touched.                 *)
LEMMA CallStep ==
    ASSUME CallInv, NEW r \in Callers, pcall[r].at # "done", NEW e \in Calls,
           pcall' = [pcall EXCEPT ![r] = e], CallOK(r, e, billed'), UNCHANGED <<executions, charged>>,
           billed \subseteq billed', billed' \subseteq Charges
    PROVE  CallInv'
<1>1. pcall' \in [Callers -> Calls] /\ pcall'[r] = e /\ \A s \in Callers \ {r} : pcall'[s] = pcall[s]
    BY DEF CallInv
<1>2. Books(executions, charged, billed')
    BY BooksGrow DEF CallInv
<1>3. \A x \in executions : pcall'[x.id[1]].at = "done"
    <2>1. ASSUME NEW x \in executions PROVE pcall'[x.id[1]].at = "done"
        <3>1. x.id \in Ids /\ pcall[x.id[1]].at = "done"
            BY DEF CallInv, Executions
        <3>2. x.id[1] \in Callers \ {r}
            BY <3>1, RowIdIsNoEvent
        <3> QED BY <1>1, <3>1, <3>2
    <2> QED BY <2>1
<1>4. \A s \in Callers : CallOK(s, pcall'[s], billed')
    <2>1. ASSUME NEW s \in Callers \ {r} PROVE CallOK(s, pcall[s], billed')
        <3>1. CallOK(s, pcall[s], billed)
            BY DEF CallInv
        <3>2. Books(pcall[s].rows, pcall[s].events, billed')
            BY <3>1, BooksGrow DEF CallOK
        <3> QED BY <3>1, <3>2 DEF CallOK, Served
    <2> QED BY <1>1, <2>1
<1> QED BY <1>1, <1>2, <1>3, <1>4 DEF CallInv

(* A request without rows is in order wherever it is.                      *)
LEMMA EmptyCallOK ==
    ASSUME NEW r, NEW e, NEW bills, e.rows = {}, e.events = {}, e.at # "answered" \/ e.op \notin Prompts,
           e.at \notin {"idle", "done"} => e.targets # <<>>, e.at # "next"
    PROVE  CallOK(r, e, bills)
BY DEF CallOK, Books

LEMMA FinishesOK ==
    ASSUME CallInv, NEW r \in Callers, NEW result \in CallResults, pcall[r].at # "done",
           Finishes(r, result), UNCHANGED <<executions, charged, billed>>
    PROVE  CallInv'
<1> DEFINE e == [NoCall EXCEPT !.op = pcall[r].op, !.at = "done", !.result = result]
<1>1. pcall' = [pcall EXCEPT ![r] = e]
    BY DEF Finishes, Becomes
<1>2. pcall[r].op \in CallOps
    BY DEF CallInv, Calls
<1>3. NoCall \in Calls /\ NoCall.rows = {} /\ NoCall.events = {}
    BY DEF NoCall, Calls, CallOps, NoAnswer, Answers, CallErrors, CallResults
<1>4. e \in Calls /\ e.rows = {} /\ e.events = {} /\ e.at = "done"
    BY <1>2, <1>3 DEF Calls
<1> HIDE DEF e
<1>5. CallOK(r, e, billed')
    BY <1>4, EmptyCallOK
<1>6. billed' \subseteq Charges /\ billed \subseteq billed'
    BY DEF CallInv
<1> QED BY <1>1, <1>4, <1>5, <1>6, CallStep

(* A request goes on with the rows it has.                                 *)
LEMMA GoesOnOK ==
    ASSUME NEW r, NEW d, NEW e, NEW bills, NEW more, CallOK(r, d, bills), bills \subseteq more,
           d.at \notin {"idle", "done"}, e.rows = d.rows, e.events = d.events, e.op = d.op,
           d.round \in Nat, e.round \in Nat, \A x \in d.rows : x.id[2] \in Nat,
           \/ d.op \notin Prompts
           \/ e.round = d.round /\ d.at \notin {"next", "commit"}
           \/ e.round = d.round + 1,
           e.at \in {"prepare", "send", "answered", "failed"},
           e.at = "answered" /\ e.op \in Prompts => Served(more, <<r, e.round>>, e.got),
           e.targets # <<>>
    PROVE  CallOK(r, e, more)
<1>1. Books(e.rows, e.events, more)
    BY BooksGrow DEF CallOK
<1>2. \A x \in e.rows : x.id[1] = r /\ x.id[2] < e.round
    BY DEF CallOK
<1> QED BY <1>1, <1>2 DEF CallOK

LEMMA CallTypes ==
    ASSUME CallInv, NEW r \in Callers
    PROVE  /\ pcall[r] \in Calls /\ CallOK(r, pcall[r], billed) /\ pcall[r].round \in Nat
           /\ billed \subseteq Charges /\ \A x \in pcall[r].rows : x.id[2] \in Nat
           /\ pcall[r].at \notin {"idle", "done"} => Target(r) \in Adapters
<1>1. pcall[r] \in Calls /\ CallOK(r, pcall[r], billed) /\ billed \subseteq Charges
    BY DEF CallInv
<1>2. pcall[r].round \in Nat /\ pcall[r].targets \in Seq(Adapters) /\ pcall[r].rows \subseteq Executions
    BY <1>1 DEF Calls
<1>3. \A x \in pcall[r].rows : x.id[2] \in Nat
    BY <1>2, RowIdIsNoEvent DEF Executions
<1>4. pcall[r].at \notin {"idle", "done"} => Target(r) \in Adapters
    BY <1>1, <1>2 DEF CallOK, Target
<1> QED BY <1>1, <1>2, <1>3, <1>4

LEMMA NoCallIs == NoCall \in Calls /\ NoCall.rows = {} /\ NoCall.events = {} /\ NoCall.op = "none"
BY DEF NoCall, Calls, CallOps, NoAnswer, Answers, CallErrors, CallResults

LEMMA BeginKeepsCallInv ==
    ASSUME CallInv, NEW r \in Callers, Begin(r) PROVE CallInv'
<1>0. PICK op \in {"execute", "compare", "models", "verify", "usage", "collect"},
           key \in {"good", "malformed", "none"}, endpoint \in BOOLEAN, first \in Adapters :
          \E second \in Adapters :
             /\ op \notin {"compare", "collect"} => second = first
             /\ op \in {"verify", "collect"} => {first, second} \subseteq ProductionProviders
             /\ first # "azure_openai" => endpoint
             /\ Becomes(r, [NoCall EXCEPT !.op = op, !.at = "prepare", !.key = key, !.endpoint = endpoint,
                               !.targets = IF op = "compare" \/ first # second THEN <<first, second>> ELSE <<first>>])
    BY DEF Begin
<1>1. PICK second \in Adapters :
          Becomes(r, [NoCall EXCEPT !.op = op, !.at = "prepare", !.key = key, !.endpoint = endpoint,
                        !.targets = IF op = "compare" \/ first # second THEN <<first, second>> ELSE <<first>>])
    BY <1>0
<1> DEFINE ts == IF op = "compare" \/ first # second THEN <<first, second>> ELSE <<first>>
           e == [NoCall EXCEPT !.op = op, !.at = "prepare", !.key = key, !.endpoint = endpoint, !.targets = ts]
<1>2. ts \in Seq(Adapters) /\ ts # <<>>
    OBVIOUS
<1>3. op \in CallOps
    BY DEF CallOps, Prompts
<1>4. pcall' = [pcall EXCEPT ![r] = e] /\ pcall[r].at = "idle" /\ UNCHANGED <<executions, charged, billed>>
    BY <1>1 DEF Becomes, Begin, Is
<1> HIDE DEF ts
<1>5. e \in Calls /\ e.rows = {} /\ e.events = {} /\ e.at = "prepare" /\ e.targets = ts
    BY <1>2, <1>3, NoCallIs DEF Calls
<1> HIDE DEF e
<1>6. CallOK(r, e, billed')
    BY <1>2, <1>5, EmptyCallOK
<1>7. billed' \subseteq Charges /\ billed \subseteq billed'
    BY <1>4, CallTypes
<1> QED BY <1>4, <1>5, <1>6, <1>7, CallStep

LEMMA RerunKeepsCallInv ==
    ASSUME CallInv, NEW r \in Callers, Rerun(r) PROVE CallInv'
<1>1. PICK x \in executions :
          Becomes(r, [NoCall EXCEPT !.op = "rerun", !.at = "prepare", !.targets = <<x.adapter>>])
    BY DEF Rerun
<1> DEFINE ts == <<x.adapter>>
           e == [NoCall EXCEPT !.op = "rerun", !.at = "prepare", !.targets = ts]
<1>2. ts \in Seq(Adapters) /\ ts # <<>>
    <2>1. x.adapter \in Adapters
        BY DEF CallInv, Executions
    <2> QED BY <2>1
<1>4. pcall' = [pcall EXCEPT ![r] = e] /\ pcall[r].at = "idle" /\ UNCHANGED <<executions, charged, billed>>
    BY <1>1 DEF Becomes, Rerun, Is
<1> HIDE DEF ts
<1>5. e \in Calls /\ e.rows = {} /\ e.events = {} /\ e.at = "prepare" /\ e.targets = ts
    BY <1>2, NoCallIs DEF Calls, CallOps, Prompts
<1> HIDE DEF e
<1>6. CallOK(r, e, billed')
    BY <1>2, <1>5, EmptyCallOK
<1>7. billed' \subseteq Charges /\ billed \subseteq billed'
    BY <1>4, CallTypes
<1> QED BY <1>4, <1>5, <1>6, <1>7, CallStep

(* A step of a request that is still under way.                            *)
LEMMA GoesOn ==
    ASSUME CallInv, NEW r \in Callers, pcall[r].at \notin {"idle", "done"}, NEW e \in Calls,
           Becomes(r, e), UNCHANGED <<executions, charged>>,
           billed \subseteq billed', billed' \subseteq Charges,
           e.rows = pcall[r].rows, e.events = pcall[r].events, e.op = pcall[r].op,
           \/ pcall[r].op \notin Prompts
           \/ e.round = pcall[r].round /\ pcall[r].at \notin {"next", "commit"}
           \/ e.round = pcall[r].round + 1,
           e.at \in {"prepare", "send", "answered", "failed"},
           e.at = "answered" /\ e.op \in Prompts => Served(billed', <<r, e.round>>, e.got),
           e.targets # <<>>
    PROVE  CallInv'
<1>1. e.round \in Nat
    BY DEF Calls
<1>2. CallOK(r, e, billed')
    BY <1>1, CallTypes, GoesOnOK
<1> QED BY <1>2, CallStep DEF Becomes

LEMMA PrepareKeepsCallInv ==
    ASSUME CallInv, NEW r \in Callers, Prepare(r) PROVE CallInv'
<1> DEFINE refusal == Refusal(Target(r), pcall[r].op, pcall[r].key, pcall[r].endpoint)
<1>1. pcall[r].at = "prepare" /\ UNCHANGED <<executions, charged, billed>>
    BY DEF Prepare, Is
<1>2. CASE Local(r) /\ refusal # "configuration"
    <2>1. Finishes(r, "static") /\ "static" \in CallResults
        BY <1>2 DEF Prepare, CallResults
    <2> QED BY <1>1, <2>1, FinishesOK
<1>3. CASE ~(Local(r) /\ refusal # "configuration")
    <2> DEFINE stage == IF refusal = "none" THEN "send" ELSE "failed"
               e == [pcall[r] EXCEPT !.at = stage, !.error = refusal, !.try = 1]
    <2>1. Becomes(r, e)
        BY <1>3 DEF Prepare
    <2>2. refusal \in CallErrors
        BY DEF Refusal, CallErrors
    <2>3. stage \in {"send", "failed"}
        OBVIOUS
    <2> HIDE DEF stage, refusal
    <2>4. pcall[r] \in Calls /\ pcall[r].targets # <<>> /\ billed \subseteq Charges
        BY <1>1, CallTypes DEF CallOK
    <2>5. /\ e \in Calls /\ e.rows = pcall[r].rows /\ e.events = pcall[r].events /\ e.op = pcall[r].op
          /\ e.round = pcall[r].round /\ e.at = stage /\ e.targets = pcall[r].targets
        BY <2>2, <2>3, <2>4 DEF Calls
    <2> HIDE DEF e
    <2> QED BY <1>1, <2>1, <2>3, <2>4, <2>5, GoesOn
<1> QED BY <1>2, <1>3

LEMMA AttemptKeepsCallInv ==
    ASSUME CallInv, NEW r \in Callers, Attempt(r) PROVE CallInv'
<1>1. PICK outcome \in Attempts, served \in BOOLEAN, u \in UsageReports :
          /\ outcome \in {"answer", "garbled"} => served
          /\ billed' = IF served /\ Runs(r, Prompts)
                       THEN billed \cup {[id |-> RowId(r), tokens |-> Tokens(Target(r), u)]}
                       ELSE billed
          /\ Becomes(r,
                IF outcome = "answer"
                THEN [pcall[r] EXCEPT !.at = "answered", !.got = Tokens(Target(r), u)]
                ELSE IF ShouldRetry(pcall[r].try, outcome)
                THEN [pcall[r] EXCEPT !.try = @ + 1]
                ELSE [pcall[r] EXCEPT !.at = "failed", !.error = ErrorOf(outcome)])
    BY DEF Attempt
<1> DEFINE tokens == Tokens(Target(r), u)
<1>2. pcall[r].at = "send" /\ UNCHANGED <<executions, charged>>
    BY DEF Attempt, Is
<1>3. /\ pcall[r] \in Calls /\ pcall[r].targets # <<>> /\ billed \subseteq Charges
      /\ pcall[r].round \in Nat /\ pcall[r].try \in Nat
    BY <1>2, CallTypes DEF CallOK, Calls
<1>4. tokens \in Answers
    BY <1>2, CallTypes, TokensAreAnswers
<1> HIDE DEF tokens
<1>5. billed \subseteq billed' /\ billed' \subseteq Charges
    <2>1. [id |-> RowId(r), tokens |-> tokens] \in Charges
        BY <1>3, <1>4 DEF RowId, Ids, Charges
    <2> QED BY <1>1, <1>3, <2>1 DEF tokens
<1>6. CASE outcome = "answer"
    <2> DEFINE e == [pcall[r] EXCEPT !.at = "answered", !.got = tokens]
    <2>1. Becomes(r, e)
        BY <1>1, <1>6 DEF tokens
    <2>2. /\ e \in Calls /\ e.rows = pcall[r].rows /\ e.events = pcall[r].events /\ e.op = pcall[r].op
          /\ e.round = pcall[r].round /\ e.at = "answered" /\ e.targets = pcall[r].targets /\ e.got = tokens
        BY <1>3, <1>4 DEF Calls
    <2> HIDE DEF e
    <2>3. e.op \in Prompts => Served(billed', <<r, e.round>>, e.got)
        <3>1. SUFFICES ASSUME e.op \in Prompts PROVE Served(billed', <<r, e.round>>, e.got)
            OBVIOUS
        <3>2. [id |-> <<r, e.round>>, tokens |-> e.got] \in billed'
            BY <1>1, <1>6, <2>2, <3>1 DEF Runs, RowId, tokens
        <3> QED BY <3>2 DEF Served
    <2> QED BY <1>2, <1>3, <1>5, <2>1, <2>2, <2>3, GoesOn
<1>7. CASE outcome # "answer" /\ ShouldRetry(pcall[r].try, outcome)
    <2> DEFINE try == pcall[r].try + 1  e == [pcall[r] EXCEPT !.try = try]
    <2>1. Becomes(r, e)
        BY <1>1, <1>7
    <2>2. try \in Nat
        BY <1>3
    <2> HIDE DEF try
    <2>3. /\ e \in Calls /\ e.rows = pcall[r].rows /\ e.events = pcall[r].events /\ e.op = pcall[r].op
          /\ e.round = pcall[r].round /\ e.at = "send" /\ e.targets = pcall[r].targets
        BY <1>2, <1>3, <2>2 DEF Calls
    <2> HIDE DEF e
    <2> QED BY <1>2, <1>3, <1>5, <2>1, <2>3, GoesOn
<1>8. CASE outcome # "answer" /\ ~ShouldRetry(pcall[r].try, outcome)
    <2> DEFINE error == ErrorOf(outcome)  e == [pcall[r] EXCEPT !.at = "failed", !.error = error]
    <2>1. Becomes(r, e)
        BY <1>1, <1>8
    <2>2. error \in CallErrors
        BY DEF ErrorOf, CallErrors
    <2> HIDE DEF error
    <2>3. /\ e \in Calls /\ e.rows = pcall[r].rows /\ e.events = pcall[r].events /\ e.op = pcall[r].op
          /\ e.round = pcall[r].round /\ e.at = "failed" /\ e.targets = pcall[r].targets
        BY <1>3, <2>2 DEF Calls
    <2> HIDE DEF e
    <2> QED BY <1>2, <1>3, <1>5, <2>1, <2>3, GoesOn
<1> QED BY <1>6, <1>7, <1>8

(* Another page or day of what is not a prompt.                            *)
LEMMA NextPage ==
    ASSUME CallInv, NEW r \in Callers, pcall[r].at \in {"answered", "failed"}, pcall[r].op \notin Prompts,
           Becomes(r, [pcall[r] EXCEPT !.at = "send", !.round = @ + 1, !.try = 1]),
           UNCHANGED <<executions, charged, billed>>
    PROVE  CallInv'
<1> DEFINE round == pcall[r].round + 1  e == [pcall[r] EXCEPT !.at = "send", !.round = round, !.try = 1]
<1>1. /\ pcall[r] \in Calls /\ pcall[r].targets # <<>> /\ billed \subseteq Charges
      /\ pcall[r].round \in Nat
    BY CallTypes DEF CallOK
<1>2. round \in Nat /\ Becomes(r, e)
    BY <1>1
<1> HIDE DEF round
<1>3. /\ e \in Calls /\ e.rows = pcall[r].rows /\ e.events = pcall[r].events /\ e.op = pcall[r].op
      /\ e.at = "send" /\ e.targets = pcall[r].targets
    BY <1>1, <1>2 DEF Calls
<1> HIDE DEF e
<1> QED BY <1>1, <1>2, <1>3, GoesOn

LEMMA TestKeepsCallInv ==
    ASSUME CallInv, NEW r \in Callers, TestAnswered(r) PROVE CallInv'
<1>1. PICK result \in CallResults : Finishes(r, result)
    BY DEF TestAnswered, CallResults
<1> QED BY <1>1, FinishesOK DEF TestAnswered, Is

LEMMA ModelsKeepCallInv ==
    ASSUME CallInv, NEW r \in Callers, ModelsAnswered(r) PROVE CallInv'
<1>1. pcall[r].op \notin Prompts /\ pcall[r].at \in {"answered", "failed"} /\ UNCHANGED <<executions, charged, billed>>
    BY DEF ModelsAnswered, Runs, Prompts, Is
<1>2. \/ Becomes(r, [pcall[r] EXCEPT !.at = "send", !.round = @ + 1, !.try = 1])
      \/ \E result \in CallResults : Finishes(r, result)
    BY DEF ModelsAnswered, CallResults
<1> QED BY <1>1, <1>2, FinishesOK, NextPage

LEMMA UsageKeepsCallInv ==
    ASSUME CallInv, NEW r \in Callers, UsageAnswered(r) PROVE CallInv'
<1>1. pcall[r].op \notin Prompts /\ pcall[r].at \in {"answered", "failed"} /\ UNCHANGED <<executions, charged, billed>>
    BY DEF UsageAnswered, Runs, Prompts, Is
<1>2. \/ Becomes(r, [pcall[r] EXCEPT !.at = "send", !.round = @ + 1, !.try = 1])
      \/ \E result \in CallResults : Finishes(r, result)
    BY DEF UsageAnswered, CallResults
<1> QED BY <1>1, <1>2, FinishesOK, NextPage

LEMMA CollectKeepsCallInv ==
    ASSUME CallInv, NEW r \in Callers, CollectAnswered(r) PROVE CallInv'
<1>1. pcall[r].op = "collect" /\ pcall[r].op \notin Prompts /\ pcall[r].at \in {"answered", "failed"}
      /\ UNCHANGED <<executions, charged, billed>>
    BY DEF CollectAnswered, Runs, Prompts, Is
<1>2. CASE Becomes(r, [pcall[r] EXCEPT !.at = "send", !.round = @ + 1, !.try = 1])
    BY <1>1, <1>2, NextPage
<1>3. ASSUME NEW ok \in BOOLEAN, Collected(r, ok) PROVE CallInv'
    <2> DEFINE result == IF ok THEN "runs" ELSE pcall[r].result
    <2>1. /\ pcall[r] \in Calls /\ pcall[r].targets # <<>> /\ billed \subseteq Charges
          /\ pcall[r].targets \in Seq(Adapters) /\ pcall[r].result \in CallResults
        BY <1>1, CallTypes DEF CallOK, Calls
    <2>2. result \in CallResults
        BY <2>1 DEF CallResults
    <2>3. CASE Len(pcall[r].targets) > 1
        <3> DEFINE ts == Tail(pcall[r].targets)
                   e == [pcall[r] EXCEPT !.at = "prepare", !.targets = ts, !.round = 1, !.result = result]
        <3>1. Becomes(r, e)
            BY <1>3, <2>3 DEF Collected
        <3>2. ts \in Seq(Adapters) /\ ts # <<>>
            <4> DEFINE whole == pcall[r].targets
            <4>1. whole \in Seq(Adapters) /\ whole # <<>> /\ Len(whole) > 1
                BY <2>1, <2>3
            <4> HIDE DEF whole
            <4>2. Tail(whole) \in Seq(Adapters) /\ Len(Tail(whole)) = Len(whole) - 1
                BY <4>1
            <4>3. Tail(whole) # <<>>
                <5>1. Len(whole) \in Nat /\ Len(whole) - 1 # 0
                    BY <4>1
                <5>2. Len(Tail(whole)) # 0
                    BY <4>2, <5>1
                <5>3. Len(<<>>) = 0
                    OBVIOUS
                <5> QED BY <5>2, <5>3, Zenon
            <4> QED BY <4>2, <4>3 DEF whole
        <3> HIDE DEF ts, result
        <3>3. /\ e \in Calls /\ e.rows = pcall[r].rows /\ e.events = pcall[r].events /\ e.op = pcall[r].op
              /\ e.at = "prepare" /\ e.targets = ts
            BY <2>1, <2>2, <3>2 DEF Calls
        <3> HIDE DEF e
        <3> QED BY <1>1, <2>1, <3>1, <3>2, <3>3, GoesOn
    <2>4. CASE ~(Len(pcall[r].targets) > 1)
        <3>1. PICK last \in CallResults : Finishes(r, last)
            BY <1>3, <2>4 DEF Collected, CallResults
        <3> QED BY <1>1, <3>1, FinishesOK
    <2> QED BY <2>3, <2>4
<1>4. \/ Becomes(r, [pcall[r] EXCEPT !.at = "send", !.round = @ + 1, !.try = 1])
      \/ \E ok \in BOOLEAN : Collected(r, ok)
    <2>1. (Usage(Target(r)) = "empty_on_error" /\ pcall[r].key # "none") \in BOOLEAN
        BY Zenon
    <2> QED BY <2>1 DEF CollectAnswered
<1> QED BY <1>2, <1>3, <1>4

(* A row is added, with its event when it is there.                        *)
LEMMA RowAdded ==
    ASSUME CallInv, NEW r \in Callers, Runs(r, Prompts), pcall[r].at \in {"answered", "failed"},
           NEW x \in Executions, x.id = RowId(r), NEW events \in SUBSET Charges,
           Becomes(r, [pcall[r] EXCEPT !.at = NextTarget(r), !.events = events, !.rows = @ \cup {x}]),
           \/ events = pcall[r].events /\ x.status = "failed" /\ x.event = NoEvent
           \/ /\ x.status = "succeeded" /\ x.event = x.id
              /\ \E v \in events : /\ v.id = x.id /\ v.tokens = x.tokens /\ Served(billed, v.id, v.tokens)
                                   /\ events = {w \in pcall[r].events : w.id # x.id} \cup {v},
           UNCHANGED <<executions, charged, billed>>
    PROVE  CallInv'
<1> DEFINE d == pcall[r]  rows == d.rows \cup {x}  stage == NextTarget(r)
           e == [d EXCEPT !.at = stage, !.events = events, !.rows = rows]
<1>1. /\ d \in Calls /\ d.targets # <<>> /\ d.targets \in Seq(Adapters) /\ billed \subseteq Charges /\ d.op \in Prompts
      /\ d.rows \subseteq Executions /\ d.events \subseteq Charges /\ d.round \in Nat /\ CallOK(r, d, billed)
    BY CallTypes DEF CallOK, Calls, Runs
<1>2. stage \in {"next", "commit"} /\ (stage = "next" => Len(d.targets) > 1)
    <2>1. Len(d.targets) \in Nat /\ Len(d.targets) # 0
        BY <1>1
    <2>2. CASE Len(d.targets) = 1
        BY <2>2 DEF NextTarget
    <2>3. CASE Len(d.targets) # 1
        <3>1. stage = "next"
            BY <2>3 DEF NextTarget
        <3>2. \A n \in Nat : n # 0 /\ n # 1 => n > 1
            OBVIOUS
        <3>3. Len(d.targets) > 1
            BY <2>1, <2>3, <3>2
        <3> QED BY <3>1, <3>3
    <2> QED BY <2>2, <2>3
<1>3. Becomes(r, e)
    OBVIOUS
<1>4. d.at \in {"answered", "failed"} /\ x.id = <<r, d.round>>
    BY DEF RowId
<1> HIDE DEF stage, d
<1>5. rows \subseteq Executions
    BY <1>1
<1>6. \A y \in d.rows : y.id \in Ids /\ y.id[1] = r /\ y.id[2] < d.round /\ y.id # x.id
    <2>1. ASSUME NEW y \in d.rows PROVE y.id \in Ids /\ y.id[1] = r /\ y.id[2] < d.round
        BY <1>1, <1>4 DEF CallOK, Executions
    <2>2. ASSUME NEW y \in d.rows PROVE y.id # x.id
        <3>1. y.id[2] \in Nat /\ y.id[2] < d.round /\ x.id[2] = d.round
            BY <1>4, <2>1, RowIdIsNoEvent
        <3> QED BY <1>1, <3>1
    <2> QED BY <2>1, <2>2
<1>7. Books(rows, events, billed)
    <2>1. Books(d.rows, d.events, billed)
        BY <1>1 DEF CallOK
    <2>2. \A v \in d.events : v.id # x.id
        <3>1. ASSUME NEW v \in d.events PROVE v.id # x.id
            <4>1. PICK y \in d.rows : y.event = v.id
                BY <2>1 DEF Books
            <4>2. v.id # NoEvent
                BY <1>1, RowIdIsNoEvent DEF Charges
            <4>3. y.event = y.id
                BY <2>1, <4>1, <4>2 DEF Books
            <4> QED BY <1>6, <4>1, <4>3
        <3> QED BY <3>1
    <2>3. CASE events = d.events /\ x.status = "failed" /\ x.event = NoEvent
        BY <1>6, <2>1, <2>3 DEF Books
    <2>4. ASSUME x.status = "succeeded", x.event = x.id,
                 NEW v \in events, v.id = x.id, v.tokens = x.tokens, Served(billed, v.id, v.tokens),
                 events = {w \in d.events : w.id # x.id} \cup {v}
          PROVE  Books(rows, events, billed)
        <3>1. events = d.events \cup {v}
            BY <2>2, <2>4
        <3> QED BY <1>6, <2>1, <2>2, <2>4, <3>1 DEF Books
    <2> QED BY <2>3, <2>4 DEF d
<1> HIDE DEF rows
<1>8. /\ e \in Calls /\ e.rows = rows /\ e.events = events /\ e.op = d.op /\ e.round = d.round
      /\ e.at = stage /\ e.targets = d.targets
    BY <1>1, <1>2, <1>5 DEF Calls
<1> HIDE DEF e
<1>9. CallOK(r, e, billed)
    <2>1. \A y \in e.rows : y.id[1] = r /\ (y.id[2] < e.round \/ (y.id[2] = e.round /\ e.at \in {"next", "commit"}))
        BY <1>2, <1>4, <1>6, <1>8 DEF rows
    <2> QED BY <1>1, <1>2, <1>7, <1>8, <2>1 DEF CallOK
<1> QED BY <1>1, <1>3, <1>4, <1>8, <1>9, CallStep DEF Becomes, d

LEMMA FailureKeepsCallInv ==
    ASSUME CallInv, NEW r \in Callers, ExecutionFailed(r) PROVE CallInv'
<1> DEFINE x == NewExecution(r, "failed", NoAnswer, NoEvent)  events == pcall[r].events
           e == [pcall[r] EXCEPT !.at = NextTarget(r), !.rows = @ \cup {x}]
           f == [pcall[r] EXCEPT !.at = NextTarget(r), !.events = events, !.rows = @ \cup {x}]
<1>1. Runs(r, Prompts) /\ pcall[r].at = "failed" /\ Becomes(r, e) /\ UNCHANGED <<executions, charged, billed>>
    BY DEF ExecutionFailed, Is
<1>2. pcall[r] \in Calls /\ pcall[r].round \in Nat /\ Target(r) \in Adapters /\ pcall[r].events \subseteq Charges
    BY <1>1, CallTypes DEF Calls
<1>3. x \in Executions /\ x.id = RowId(r) /\ x.status = "failed" /\ x.event = NoEvent
    <2>1. RowId(r) \in Ids /\ NoAnswer \in Answers
        BY <1>2 DEF RowId, Ids, NoAnswer, Answers
    <2> QED BY <1>2, <2>1 DEF NewExecution, Executions
<1> HIDE DEF x
<1>4. e = f
    BY <1>2 DEF Calls
<1> QED BY <1>1, <1>2, <1>3, <1>4, RowAdded

LEMMA SuccessKeepsCallInv ==
    ASSUME CallInv, NEW r \in Callers, ExecutionSucceeded(r) PROVE CallInv'
<1> DEFINE x == NewExecution(r, "succeeded", pcall[r].got, RowId(r))
           v == [id |-> RowId(r), tokens |-> pcall[r].got]
           events == {w \in pcall[r].events : w.id # RowId(r)} \cup {v}
<1>1. /\ Runs(r, Prompts) /\ pcall[r].at = "answered" /\ UNCHANGED <<executions, charged, billed>>
      /\ Becomes(r, [pcall[r] EXCEPT !.at = NextTarget(r), !.events = events, !.rows = @ \cup {x}])
    <2>1. pcall[r].at = "answered" /\ EventId(RowId(r)) = RowId(r)
        BY DEF ExecutionSucceeded, Is, EventId
    <2>2. Becomes(r, [pcall[r] EXCEPT !.at = NextTarget(r),
                         !.events = {w \in @ : w.id # RowId(r)} \cup {v}, !.rows = @ \cup {x}])
        BY <2>1, Zenon DEF ExecutionSucceeded
    <2> QED BY <2>1, <2>2 DEF ExecutionSucceeded
<1>2. /\ pcall[r] \in Calls /\ pcall[r].round \in Nat /\ Target(r) \in Adapters /\ pcall[r].events \subseteq Charges
      /\ pcall[r].got \in Answers
    BY <1>1, CallTypes DEF Calls
<1>3. RowId(r) \in Ids
    BY <1>2 DEF RowId, Ids
<1>4. /\ x \in Executions /\ x.id = RowId(r) /\ x.status = "succeeded" /\ x.event = x.id
      /\ x.tokens = pcall[r].got
    BY <1>2, <1>3 DEF NewExecution, Executions
<1>5. v \in Charges /\ v.id = RowId(r) /\ v.tokens = pcall[r].got
    BY <1>2, <1>3 DEF Charges
<1>6. Served(billed, v.id, v.tokens)
    <2>1. CallOK(r, pcall[r], billed)
        BY CallTypes
    <2> QED BY <1>1, <1>5, <2>1 DEF CallOK, Runs, RowId
<1> HIDE DEF x, v
<1>7. events \in SUBSET Charges /\ v \in events
    BY <1>2, <1>5
<1>8. events = {w \in pcall[r].events : w.id # x.id} \cup {v}
    BY <1>4
<1> HIDE DEF events
<1> QED BY <1>1, <1>4, <1>5, <1>6, <1>7, <1>8, RowAdded

LEMMA CompareKeepsCallInv ==
    ASSUME CallInv, NEW r \in Callers, CompareNext(r) PROVE CallInv'
<1> DEFINE round == pcall[r].round + 1  ts == Tail(pcall[r].targets)
           e == [pcall[r] EXCEPT !.at = "prepare", !.round = round, !.targets = ts]
<1>1. pcall[r].at = "next" /\ UNCHANGED <<executions, charged, billed>> /\ Becomes(r, e)
    BY DEF CompareNext, Is
<1>2. /\ pcall[r] \in Calls /\ pcall[r].round \in Nat /\ pcall[r].targets \in Seq(Adapters)
      /\ Len(pcall[r].targets) > 1 /\ billed \subseteq Charges
    BY <1>1, CallTypes DEF Calls, CallOK
<1>3. ts \in Seq(Adapters) /\ ts # <<>> /\ round \in Nat
    <2>1. pcall[r].targets \in Seq(Adapters) /\ Len(pcall[r].targets) > 1
        BY <1>2
    <2>2. ts \in Seq(Adapters) /\ ts # <<>>
        <3>1. pcall[r].targets # <<>>
            BY <2>1
        <3>2. ts \in Seq(Adapters) /\ Len(ts) = Len(pcall[r].targets) - 1
            BY <2>1, <3>1, HeadTailProperties
        <3> HIDE DEF ts
        <3> QED BY <2>1, <3>2
    <2>3. round \in Nat
        BY <1>2
    <2> QED BY <2>2, <2>3
<1>4. round = pcall[r].round + 1
    OBVIOUS
<1> HIDE DEF ts, round
<1>5. /\ e \in Calls /\ e.rows = pcall[r].rows /\ e.events = pcall[r].events /\ e.op = pcall[r].op
      /\ e.at = "prepare" /\ e.targets = ts /\ e.round = round
    BY <1>2, <1>3 DEF Calls
<1> HIDE DEF e
<1> QED BY <1>1, <1>2, <1>3, <1>4, <1>5, GoesOn

(* The rows of a request, when it commits, are of ids nobody had.          *)
LEMMA CommitKeepsCallInv ==
    ASSUME CallInv, NEW r \in Callers, CommitExecutions(r) PROVE CallInv'
<1> DEFINE d == pcall[r]  e == [NoCall EXCEPT !.op = d.op, !.at = "done", !.result = "committed"]
<1>1. /\ d.at = "commit" /\ executions' = executions \cup d.rows /\ charged' = charged \cup d.events
      /\ billed' = billed /\ pcall' = [pcall EXCEPT ![r] = e]
    BY DEF CommitExecutions, Is, Finishes, Becomes
<1>2. /\ pcall \in [Callers -> Calls] /\ executions \subseteq Executions /\ charged \subseteq Charges /\ billed \subseteq Charges
      /\ Books(executions, charged, billed) /\ \A x \in executions : pcall[x.id[1]].at = "done"
    BY DEF CallInv
<1>3. d \in Calls /\ d.rows \subseteq Executions /\ d.events \subseteq Charges /\ Books(d.rows, d.events, billed)
      /\ \A x \in d.rows : x.id[1] = r
    BY CallTypes DEF Calls, CallOK
<1> HIDE DEF d
<1>4. e \in Calls /\ e.rows = {} /\ e.events = {} /\ e.at = "done"
    <2>1. d.op \in CallOps
        BY <1>3 DEF Calls
    <2> QED BY <2>1, NoCallIs DEF Calls, CallResults
<1> HIDE DEF e
<1>5. pcall' \in [Callers -> Calls] /\ pcall'[r] = e /\ \A s \in Callers \ {r} : pcall'[s] = pcall[s]
    BY <1>1, <1>2, <1>4
<1>6. \A x \in executions : x.id \in Ids /\ x.id[1] \in Callers \ {r}
    <2>1. ASSUME NEW x \in executions PROVE x.id \in Ids /\ x.id[1] \in Callers \ {r}
        <3>1. x.id \in Ids /\ pcall[x.id[1]].at = "done"
            BY <1>2 DEF Executions
        <3>2. x.id[1] \in Callers
            BY <3>1, RowIdIsNoEvent
        <3> QED BY <1>1, <3>1, <3>2 DEF d
    <2> QED BY <2>1
<1>7. /\ \A v \in charged : v.id[1] # r
      /\ \A v \in d.events : v.id[1] = r
    <2>1. ASSUME NEW v \in charged PROVE v.id[1] # r
        <3>1. PICK x \in executions : x.event = v.id
            BY <1>2 DEF Books
        <3>2. v.id # NoEvent
            BY <1>2, RowIdIsNoEvent DEF Charges
        <3>3. x.event = x.id
            BY <1>2, <3>1, <3>2 DEF Books
        <3> QED BY <1>6, <3>1, <3>3
    <2>2. ASSUME NEW v \in d.events PROVE v.id[1] = r
        <3>1. PICK x \in d.rows : x.event = v.id
            BY <1>3 DEF Books
        <3>2. v.id # NoEvent
            BY <1>3, RowIdIsNoEvent DEF Charges
        <3>3. x.event = x.id
            BY <1>3, <3>1, <3>2 DEF Books
        <3> QED BY <1>3, <3>1, <3>3
    <2> QED BY <2>1, <2>2
<1>8. Books(executions', charged', billed')
    <2> DEFINE rows == executions \cup d.rows  events == charged \cup d.events
    <2>1. \A x \in rows : IF x.status = "succeeded"
                          THEN x.event = x.id /\ \E v \in events : v.id = x.id /\ v.tokens = x.tokens
                          ELSE x.event = NoEvent
        BY <1>2, <1>3 DEF Books
    <2>2. \A x, y \in rows : x.id = y.id => x = y
        BY <1>2, <1>3, <1>6 DEF Books
    <2>3. \A v \in events : Served(billed, v.id, v.tokens) /\ \E x \in rows : x.event = v.id
        BY <1>2, <1>3 DEF Books
    <2>4. \A v, w \in events : v.id = w.id => v = w
        BY <1>2, <1>3, <1>7 DEF Books
    <2> QED BY <1>1, <2>1, <2>2, <2>3, <2>4 DEF Books
<1>9. \A x \in executions' : pcall'[x.id[1]].at = "done"
    BY <1>1, <1>2, <1>3, <1>4, <1>5, <1>6
<1>10. ASSUME NEW s \in Callers PROVE CallOK(s, pcall'[s], billed')
    <2>1. CASE s = r
        BY <1>4, <1>5, <2>1, EmptyCallOK
    <2>2. CASE s # r
        BY <1>1, <1>5, <2>2 DEF CallInv
    <2> QED BY <2>1, <2>2
<1>11. executions' \subseteq Executions /\ charged' \subseteq Charges /\ billed' \subseteq Charges
    BY <1>1, <1>2, <1>3
<1> QED BY <1>5, <1>8, <1>9, <1>10, <1>11 DEF CallInv

(* A deletion only marks a row.                                            *)
LEMMA DeletionKeepsCallInv ==
    ASSUME CallInv, DeleteExecution PROVE CallInv'
<1>1. PICK x \in executions : executions' = (executions \ {x}) \cup {[x EXCEPT !.deleted = TRUE]}
    BY DEF DeleteExecution
<1> DEFINE y == [x EXCEPT !.deleted = TRUE]
<1>2. UNCHANGED <<pcall, charged, billed>> /\ executions \subseteq Executions
      /\ Books(executions, charged, billed) /\ \A z \in executions : pcall[z.id[1]].at = "done"
    BY DEF DeleteExecution, CallInv
<1>3. /\ y \in Executions /\ y.id = x.id /\ y.status = x.status /\ y.event = x.event
      /\ y.tokens = x.tokens
    <2>1. x \in Executions
        BY <1>2
    <2> QED BY <2>1 DEF Executions
<1>4. executions' = (executions \ {x}) \cup {y}
    BY <1>1
<1> HIDE DEF y
<1>5. Books(executions', charged, billed)
    <2>1. \A v \in charged : \E z \in executions' : z.event = v.id
        <3>1. ASSUME NEW v \in charged PROVE \E z \in executions' : z.event = v.id
            <4>1. PICK z \in executions : z.event = v.id
                BY <1>2 DEF Books
            <4> QED BY <1>3, <1>4, <4>1
        <3> QED BY <3>1
    <2>2. \A z \in executions' : IF z.status = "succeeded"
                                 THEN z.event = z.id /\ \E v \in charged : v.id = z.id /\ v.tokens = z.tokens
                                 ELSE z.event = NoEvent
        BY <1>2, <1>3, <1>4 DEF Books
    <2>3. \A z, w \in executions' : z.id = w.id => z = w
        BY <1>2, <1>3, <1>4 DEF Books
    <2> QED BY <1>2, <2>1, <2>2, <2>3 DEF Books
<1>6. \A z \in executions' : z \in Executions /\ pcall[z.id[1]].at = "done"
    BY <1>2, <1>3, <1>4
<1> QED BY <1>2, <1>5, <1>6 DEF CallInv

LEMMA BooksMeanRealSpend == CallInv => PlaygroundSpendIsReal
<1> SUFFICES ASSUME CallInv PROVE PlaygroundSpendIsReal
    OBVIOUS
<1>1. Books(executions, charged, billed) /\ charged \subseteq Charges
    BY DEF CallInv
<1>2. ASSUME NEW e \in charged
      PROVE  /\ \E b \in billed : b.tokens = e.tokens /\ b.id = e.id
             /\ Cardinality({x \in executions : x.event = e.id}) = 1
    <2>1. PICK x \in executions : x.event = e.id
        BY <1>1 DEF Books
    <2>2. e.id # NoEvent
        BY <1>1, RowIdIsNoEvent DEF Charges
    <2>3. {y \in executions : y.event = e.id} = {x}
        BY <1>1, <2>1, <2>2 DEF Books
    <2>4. Cardinality({x}) = 1
        BY FS_Singleton
    <2> QED BY <1>1, <2>3, <2>4 DEF Books, Served
<1>3. \A x \in executions :
          IF x.status = "succeeded" THEN \E e \in charged : e.id = x.event /\ e.tokens = x.tokens
          ELSE x.event = NoEvent
    BY <1>1 DEF Books
<1> QED BY <1>1, <1>2, <1>3 DEF PlaygroundSpendIsReal, Books

(* Every playground event in the usage belongs to one execution that       *)
(* succeeded with those tokens and to an answer the provider served, and   *)
(* every successful execution has its event: for any callers, adapters     *)
(* and number of retries, whatever is aborted, retried, rerun or deleted.  *)
THEOREM PlaygroundChargesAreReal == CallsSpec => []PlaygroundSpendIsReal
<1>1. CallsInit => CallInv
    <2> SUFFICES ASSUME CallsInit PROVE CallInv
        OBVIOUS
    <2>1. \A r \in Callers : CallOK(r, NoCall, billed)
        <3>1. NoCall.at = "idle"
            BY DEF NoCall
        <3> QED BY <3>1, NoCallIs, EmptyCallOK
    <2> QED BY <2>1, NoCallIs DEF CallsInit, CallInv, Books
<1>2. CallInv /\ [CallsNext]_callVars => CallInv'
    <2> SUFFICES ASSUME CallInv, [CallsNext]_callVars PROVE CallInv'
        OBVIOUS
    <2>1. CASE UNCHANGED callVars
        BY <2>1 DEF callVars, CallInv
    <2>2. CASE DeleteExecution
        BY <2>2, DeletionKeepsCallInv
    <2>3. ASSUME NEW r \in Callers,
                 \/ Begin(r) \/ Rerun(r) \/ Prepare(r) \/ Attempt(r)
                 \/ TestAnswered(r) \/ ModelsAnswered(r) \/ UsageAnswered(r) \/ CollectAnswered(r)
                 \/ ExecutionFailed(r) \/ ExecutionSucceeded(r) \/ CompareNext(r)
                 \/ CommitExecutions(r) \/ AbortRequest(r)
          PROVE  CallInv'
        <3>1. CASE Begin(r) \/ Rerun(r) \/ Prepare(r) \/ Attempt(r)
            BY <3>1, BeginKeepsCallInv, RerunKeepsCallInv, PrepareKeepsCallInv, AttemptKeepsCallInv
        <3>2. CASE TestAnswered(r) \/ ModelsAnswered(r) \/ UsageAnswered(r) \/ CollectAnswered(r)
            BY <3>2, TestKeepsCallInv, ModelsKeepCallInv, UsageKeepsCallInv, CollectKeepsCallInv
        <3>3. CASE ExecutionFailed(r) \/ ExecutionSucceeded(r) \/ CompareNext(r) \/ CommitExecutions(r)
            BY <3>3, FailureKeepsCallInv, SuccessKeepsCallInv, CompareKeepsCallInv, CommitKeepsCallInv
        <3>4. CASE AbortRequest(r)
            BY <3>4, FinishesOK DEF AbortRequest, CallResults
        <3> QED BY <2>3, <3>1, <3>2, <3>3, <3>4
    <2> QED BY <2>1, <2>2, <2>3 DEF CallsNext
<1> QED BY <1>1, <1>2, BooksMeanRealSpend, PTL DEF CallsSpec

-----------------------------------------------------------------------------
(* Prices and costs.  An identity tells its bucket, so that a row, its     *)
(* cost record and the price it was computed at are of the same day.       *)

Figures == [prompt : Nat, cached : Nat]
UsageKeys == (Feeds \cup {"hash"}) \X Buckets \X Nat
Versions == {d.version : d \in Drafts}
UsageRows == [key : UsageKeys, price : Versions \cup {"none"}, day : Buckets, figures : Figures]
Pages == [Buckets -> TokenCounts]
RunRows == [at : {"idle", "fetched", "stored"}, run : Nat, feed : Feeds \cup {"none"},
         page : Pages \cup {<<>>}, wrote : SUBSET UsageRows, since : SUBSET UsageKeys]
PriceRows == [version : Versions, from : 1..Forever, to : 0..Forever, active : BOOLEAN, saw : SUBSET Versions]
PriceEdits == [at : {"idle", "checked", "done"}, draft : Drafts \cup {NoEdit.draft}, saw : SUBSET Versions]

PricingTypes ==
    /\ reporter \in Reporters /\ used \in [Feeds -> Pages] /\ runs_begun \in Nat
    /\ usageEvents \in [DOMAIN usageEvents -> UsageRows] /\ costs \in [DOMAIN costs -> UsageRows]
    /\ collector \in [Collectors -> RunRows]
    /\ prices \subseteq PriceRows /\ editor \in [Editors -> PriceEdits]

(* What the normalizers make of an item, all but one of them.              *)
KeyOf(rep, f, b, run) ==
    IF rep[2] = "id" THEN Named(f, b) ELSE Hashed(b, IF rep[2] = "time" THEN 0 ELSE run)
PromptOf(rep, u) == IF rep[1] = "anthropic" THEN u.fresh ELSE u.fresh + u.cached
CachedOf(rep, u) == IF rep[1] = "openrouter" THEN 0 ELSE u.cached

(* A row is of one connection's bucket, and says no more than that has.    *)
Reported(rep, u, key, g) ==
    \E f \in Feeds, b \in Buckets :
        /\ key = KeyOf(rep, f, b, key[3])
        /\ g.prompt <= PromptOf(rep, u[f][b]) /\ g.cached <= CachedOf(rep, u[f][b])

Faithful(rep, u, w) ==
    /\ w.key[2] = w.day /\ w.figures.cached <= w.figures.prompt
    /\ Reported(rep, u, w.key, w.figures)
    /\ rep[2] # "neither" => w.key[3] = 0

Explained(ps, w) == w.price # "none" => \E p \in ps : p.version = w.price /\ Covers(p, w.day)

(* What a run has written; it left without a price what had none before.   *)
RunInv(e, rep, u, ps, paid) ==
    /\ e.at # "idle" =>
          /\ e.feed \in Feeds /\ e.page \in Pages
          /\ \A b \in Buckets : /\ e.page[b].fresh <= u[e.feed][b].fresh
                                /\ e.page[b].cached <= u[e.feed][b].cached
    /\ e.at # "stored" => e.wrote = {}
    /\ \A w \in e.wrote : Faithful(rep, u, w) /\ Explained(ps, w) /\ (w.price = "none" => w.key \notin paid)
    /\ \A v, w \in e.wrote : v.key = w.key => v = w

EventsInv ==
    /\ \A key \in DOMAIN usageEvents : usageEvents[key].key = key /\ Faithful(reporter, used, usageEvents[key])
    /\ \A key \in DOMAIN usageEvents \ overtaken : key \in DOMAIN newest /\ newest[key] = usageEvents[key].figures

CostsInv ==
    \A key \in DOMAIN costs :
        /\ key \in DOMAIN usageEvents /\ costs[key].figures = usageEvents[key].figures
        /\ costs[key].day = key[2] /\ costs[key].price # "none" /\ Explained(prices, costs[key])

RunsApart == \A c, d \in Collectors : c # d => Touched(c) \cap Touched(d) = {}

(* Versions that a request saw are there, and its price overlaps none.     *)
PricesInv ==
    /\ \A p, q \in prices : p.version = q.version => p = q
    /\ \A q \in prices : \A v \in q.saw : \E p \in prices : p.version = v
    /\ \A p, q \in prices : p # q /\ Overlap(p, q) => p.version \notin q.saw
    /\ \A e \in Editors : editor[e].at = "checked" =>
          /\ editor[e].draft \in Drafts
          /\ \A v \in editor[e].saw : \E p \in prices : p.version = v /\ ~Overlap(p, editor[e].draft)

PricingInv ==
    /\ PricingTypes /\ EventsInv /\ CostsInv /\ RunsApart /\ PricesInv
    /\ \A c \in Collectors : RunInv(collector[c], reporter, used, prices, DOMAIN costs)

(* An event that OpenAI reports without a time and a name has the identity *)
(* of every other such event, whatever its day: the theorem is about the   *)
(* other forms.                                                            *)
LEMMA NormalizedIs ==
    ASSUME <<"openai", "neither">> \notin Reporters, reporter \in Reporters, NEW f, NEW b, NEW run, NEW u
    PROVE  Normalized(f, b, run, u) = [key |-> KeyOf(reporter, f, b, run), prompt |-> PromptOf(reporter, u),
                                       cached |-> CachedOf(reporter, u)]
<1>1. PICK p \in Reporting, form \in Forms : reporter = <<p, form>>
    BY PricingAssumption DEF PricingAssumption
<1>2. reporter[1] = p /\ reporter[2] = form
    BY <1>1
<1>3. CASE p = "openai"
    <2>1. form \in {"id", "time"}
        BY <1>1, <1>3 DEF Forms
    <2> QED BY <1>2, <1>3, <2>1 DEF Normalized, OpenAIItem, KeyOf, PromptOf, CachedOf
<1>4. CASE p = "anthropic"
    BY <1>2, <1>4 DEF Normalized, AnthropicItem, KeyOf, PromptOf, CachedOf
<1>5. CASE p = "openrouter"
    BY <1>2, <1>5 DEF Normalized, OpenRouterItem, KeyOf, PromptOf, CachedOf
<1> QED BY <1>3, <1>4, <1>5 DEF Reporting

LEMMA PricingTypeFacts ==
    /\ Buckets \subseteq Nat /\ \A v \in Versions : v # "none"
    /\ Forever \in Nat
    /\ \A u \in TokenCounts : u.fresh \in Nat /\ u.cached \in Nat
    /\ \A d \in Drafts : d.version \in Versions /\ d.from \in 1..Forever /\ d.to \in 0..Forever
                         /\ d.active \in BOOLEAN
    /\ NoUsage \in TokenCounts /\ NoRun \in RunRows /\ NoEdit \in PriceEdits
<1>1. Buckets \subseteq Nat /\ Forever \in Nat /\ MaxTokens \in Nat
    BY PricingAssumption DEF PricingAssumption, Forever
<1>2. \A u \in TokenCounts : u.fresh \in Nat /\ u.cached \in Nat
    BY <1>1 DEF TokenCounts
<1>3. NoUsage \in TokenCounts
    BY <1>1 DEF NoUsage, TokenCounts
<1>4. NoRun \in RunRows
    BY DEF NoRun, RunRows
<1>5. NoEdit \in PriceEdits
    BY DEF NoEdit, PriceEdits
<1>6. /\ \A v \in Versions : v # "none"
      /\ \A d \in Drafts : d.version \in Versions /\ d.from \in 1..Forever /\ d.to \in 0..Forever
                           /\ d.active \in BOOLEAN
    BY PricingAssumption DEF PricingAssumption, Versions
<1> QED BY <1>1, <1>2, <1>3, <1>4, <1>5, <1>6

(* An identity has its bucket in it, and what else it needs to be derived  *)
(* again.                                                                  *)
LEMMA KeyIs ==
    ASSUME NEW rep \in Reporting \X Forms, NEW f \in Feeds, NEW b \in Buckets, NEW run \in Nat
    PROVE  LET key == KeyOf(rep, f, b, run) IN
           /\ key \in UsageKeys /\ key[2] = b /\ key = KeyOf(rep, f, b, key[3])
           /\ rep[2] # "neither" => key[3] = 0
BY DEF KeyOf, Named, Hashed, UsageKeys, Forms

LEMMA FiguresGrow ==
    ASSUME NEW rep, NEW u \in TokenCounts, NEW v \in TokenCounts, u.fresh <= v.fresh, u.cached <= v.cached
    PROVE  /\ PromptOf(rep, u) \in Nat /\ PromptOf(rep, v) \in Nat /\ PromptOf(rep, u) <= PromptOf(rep, v)
           /\ CachedOf(rep, u) \in Nat /\ CachedOf(rep, v) \in Nat /\ CachedOf(rep, u) <= CachedOf(rep, v)
BY PricingTypeFacts DEF PromptOf, CachedOf

(* What the provider has only grows.                                       *)
NoLess(u, v) == \A f \in Feeds, b \in Buckets : u[f][b].fresh <= v[f][b].fresh /\ u[f][b].cached <= v[f][b].cached

LEMMA FaithfulStays ==
    ASSUME NEW rep, NEW u \in [Feeds -> Pages], NEW v \in [Feeds -> Pages], NoLess(u, v),
           NEW w \in UsageRows, Faithful(rep, u, w)
    PROVE  Faithful(rep, v, w)
<1>1. PICK f \in Feeds, b \in Buckets :
           /\ w.key = KeyOf(rep, f, b, w.key[3])
           /\ w.figures.prompt <= PromptOf(rep, u[f][b]) /\ w.figures.cached <= CachedOf(rep, u[f][b])
    BY DEF Faithful, Reported
<1>2. u[f][b] \in TokenCounts /\ v[f][b] \in TokenCounts
      /\ u[f][b].fresh <= v[f][b].fresh /\ u[f][b].cached <= v[f][b].cached
    BY DEF Pages, NoLess
<1>3. /\ PromptOf(rep, u[f][b]) \in Nat /\ PromptOf(rep, v[f][b]) \in Nat
      /\ PromptOf(rep, u[f][b]) <= PromptOf(rep, v[f][b])
      /\ CachedOf(rep, u[f][b]) \in Nat /\ CachedOf(rep, v[f][b]) \in Nat
      /\ CachedOf(rep, u[f][b]) <= CachedOf(rep, v[f][b])
    BY <1>2, FiguresGrow
<1>4. w.figures.prompt \in Nat /\ w.figures.cached \in Nat
    BY DEF UsageRows, Figures
<1>5. w.figures.prompt <= PromptOf(rep, v[f][b]) /\ w.figures.cached <= CachedOf(rep, v[f][b])
    BY <1>1, <1>3, <1>4
<1>6. Reported(rep, v, w.key, w.figures)
    BY <1>1, <1>5 DEF Reported
<1> QED BY <1>6 DEF Faithful

LEMMA RunStays ==
    ASSUME NEW e \in RunRows, NEW rep, NEW u \in [Feeds -> Pages], NEW v \in [Feeds -> Pages], NoLess(u, v),
           NEW ps, NEW qs, ps \subseteq qs, NEW paid, NEW later, RunInv(e, rep, u, ps, paid),
           \A w \in e.wrote : w.price = "none" /\ w.key \notin paid => w.key \notin later
    PROVE  RunInv(e, rep, v, qs, later)
<1>1. ASSUME NEW w \in e.wrote
      PROVE  Faithful(rep, v, w) /\ Explained(qs, w) /\ (w.price = "none" => w.key \notin later)
    <2>1. w \in UsageRows
        BY DEF RunRows
    <2>2. Faithful(rep, v, w)
        BY <2>1, FaithfulStays DEF RunInv
    <2> QED BY <2>2 DEF RunInv, Explained
<1>2. ASSUME e.at # "idle", NEW b \in Buckets
      PROVE  e.page[b].fresh <= v[e.feed][b].fresh /\ e.page[b].cached <= v[e.feed][b].cached
    <2>1. /\ e.feed \in Feeds /\ e.page \in Pages
          /\ e.page[b].fresh <= u[e.feed][b].fresh /\ e.page[b].cached <= u[e.feed][b].cached
        BY <1>2 DEF RunInv
    <2>2. e.page[b] \in TokenCounts /\ u[e.feed][b] \in TokenCounts /\ v[e.feed][b] \in TokenCounts
        BY <2>1 DEF Pages
    <2>3. u[e.feed][b].fresh <= v[e.feed][b].fresh /\ u[e.feed][b].cached <= v[e.feed][b].cached
        BY <2>1 DEF NoLess
    <2> QED BY <2>1, <2>2, <2>3, PricingTypeFacts
<1> QED BY <1>1, <1>2 DEF RunInv

LEMMA PricingInvInit ==
    ASSUME PricingInit PROVE PricingInv
<1>1. PricingTypes
    <2>1. used \in [Feeds -> Pages] /\ collector \in [Collectors -> RunRows] /\ editor \in [Editors -> PriceEdits]
        BY PricingTypeFacts DEF PricingInit, Pages
    <2>2. usageEvents \in [DOMAIN usageEvents -> UsageRows] /\ costs \in [DOMAIN costs -> UsageRows]
        BY DEF PricingInit
    <2> QED BY <2>1, <2>2 DEF PricingInit, PricingTypes
<1>2. EventsInv /\ CostsInv
    BY DEF PricingInit, EventsInv, CostsInv
<1>3. PricesInv
    BY DEF PricingInit, PricesInv, NoEdit
<1>4. RunsApart
    BY DEF PricingInit, RunsApart, Touched, NoRun
<1>5. \A c \in Collectors : RunInv(collector[c], reporter, used, prices, DOMAIN costs)
    BY DEF PricingInit, RunInv, NoRun
<1> QED BY <1>1, <1>2, <1>3, <1>4, <1>5 DEF PricingInv

(* A step that keeps events, costs and prices, and no run's writes change. *)
LEMMA RunsStep ==
    ASSUME PricingInv, PricingTypes', UNCHANGED <<reporter, usageEvents, costs, newest, overtaken, prices, editor>>,
           NoLess(used, used'), RunsApart',
           \A c \in Collectors : RunInv(collector'[c], reporter, used', prices, DOMAIN costs)
    PROVE  PricingInv'
<1>1. EventsInv'
    <2>1. used \in [Feeds -> Pages] /\ used' \in [Feeds -> Pages]
        BY DEF PricingInv, PricingTypes
    <2>2. ASSUME NEW key \in DOMAIN usageEvents
          PROVE  usageEvents[key].key = key /\ Faithful(reporter, used', usageEvents[key])
        <3>1. usageEvents[key] \in UsageRows /\ usageEvents[key].key = key
              /\ Faithful(reporter, used, usageEvents[key])
            BY DEF PricingInv, PricingTypes, EventsInv
        <3> QED BY <2>1, <3>1, FaithfulStays
    <2> QED BY <2>2 DEF PricingInv, EventsInv
<1>2. CostsInv'
    BY DEF PricingInv, CostsInv, Explained
<1>3. PricesInv'
    BY DEF PricingInv, PricesInv
<1> QED BY <1>1, <1>2, <1>3 DEF PricingInv

LEMMA GrowthKeepsPricingInv ==
    ASSUME PricingInv, NEW f \in Feeds, NEW b \in Buckets, UsageGrows(f, b)
    PROVE  PricingInv'
<1>1. PICK u \in TokenCounts : /\ u.fresh >= used[f][b].fresh /\ u.cached >= used[f][b].cached
                               /\ used' = [used EXCEPT ![f][b] = u]
    BY DEF UsageGrows
<1>2. UNCHANGED <<reporter, usageEvents, costs, newest, overtaken, prices, editor, collector, runs_begun>>
    BY DEF UsageGrows, priceVars, collectVars
<1>3. used \in [Feeds -> Pages]
    BY DEF PricingInv, PricingTypes
<1>4. used' \in [Feeds -> Pages]
    BY <1>1, <1>3 DEF Pages
<1>5. NoLess(used, used')
    <2> SUFFICES ASSUME NEW g \in Feeds, NEW a \in Buckets
                 PROVE  used[g][a].fresh <= used'[g][a].fresh /\ used[g][a].cached <= used'[g][a].cached
        BY DEF NoLess
    <2>1. used[g][a] \in TokenCounts
        BY <1>3 DEF Pages
    <2>2. used'[g][a] = IF g = f /\ a = b THEN u ELSE used[g][a]
        BY <1>1, <1>3 DEF Pages
    <2>3. CASE g = f /\ a = b
        BY <1>1, <2>1, <2>2, <2>3, PricingTypeFacts
    <2>4. CASE ~(g = f /\ a = b)
        BY <2>1, <2>2, <2>4, PricingTypeFacts
    <2> QED BY <2>3, <2>4
<1>6. PricingTypes'
    BY <1>2, <1>4 DEF PricingInv, PricingTypes
<1>7. RunsApart'
    BY <1>2 DEF PricingInv, RunsApart, Touched
<1>8. ASSUME NEW c \in Collectors PROVE RunInv(collector'[c], reporter, used', prices, DOMAIN costs)
    <2>1. collector[c] \in RunRows /\ RunInv(collector[c], reporter, used, prices, DOMAIN costs)
        BY DEF PricingInv, PricingTypes
    <2>2. RunInv(collector[c], reporter, used', prices, DOMAIN costs)
        BY <1>3, <1>4, <1>5, <2>1, RunStays
    <2> QED BY <1>2, <2>2
<1> QED BY <1>2, <1>5, <1>6, <1>7, <1>8, RunsStep

(* A step of one run that commits nothing.                                 *)
LEMMA RunMoves ==
    ASSUME PricingInv, NEW c \in Collectors, NEW e \in RunRows, collector' = [collector EXCEPT ![c] = e],
           runs_begun' \in Nat,
           UNCHANGED <<reporter, used, usageEvents, costs, newest, overtaken, prices, editor>>,
           RunInv(e, reporter, used, prices, DOMAIN costs),
           \A d \in Collectors \ {c} : Touched(d) \cap {w.key : w \in e.wrote} = {}
    PROVE  PricingInv'
<1>1. collector \in [Collectors -> RunRows]
    BY DEF PricingInv, PricingTypes
<1>2. collector'[c] = e /\ \A d \in Collectors \ {c} : collector'[d] = collector[d]
    BY <1>1
<1>3. PricingTypes'
    <2>1. collector' \in [Collectors -> RunRows]
        BY <1>1
    <2> QED BY <2>1 DEF PricingInv, PricingTypes
<1>4. NoLess(used, used')
    <2>1. used \in [Feeds -> Pages]
        BY DEF PricingInv, PricingTypes
    <2>2. \A f \in Feeds, b \in Buckets : used[f][b].fresh \in Nat /\ used[f][b].cached \in Nat
        BY <2>1, PricingTypeFacts DEF Pages
    <2> QED BY <2>2 DEF NoLess
<1>5. RunsApart'
    <2>1. Touched(c)' = {w.key : w \in e.wrote} /\ \A d \in Collectors \ {c} : Touched(d)' = Touched(d)
        BY <1>2 DEF Touched
    <2> QED BY <2>1 DEF PricingInv, RunsApart
<1>6. \A d \in Collectors : RunInv(collector'[d], reporter, used', prices, DOMAIN costs)
    BY <1>2 DEF PricingInv
<1> QED BY <1>3, <1>4, <1>5, <1>6, RunsStep

LEMMA FetchKeepsPricingInv ==
    ASSUME PricingInv, NEW c \in Collectors, NEW f \in Feeds, Fetch(c, f)
    PROVE  PricingInv'
<1> DEFINE e == [NoRun EXCEPT !.at = "fetched", !.feed = f, !.run = runs_begun + 1, !.page = used[f]]
<1>1. /\ collector' = [collector EXCEPT ![c] = e] /\ runs_begun' = runs_begun + 1
      /\ UNCHANGED <<reporter, used, usageEvents, costs, newest, overtaken, prices, editor>>
    BY DEF Fetch, priceVars
<1>2. runs_begun + 1 \in Nat /\ used[f] \in Pages
    BY DEF PricingInv, PricingTypes
<1>3. e \in RunRows /\ e.at = "fetched" /\ e.feed = f /\ e.page = used[f] /\ e.wrote = {}
    BY <1>2 DEF NoRun, RunRows
<1> HIDE DEF e
<1>4. RunInv(e, reporter, used, prices, DOMAIN costs)
    <2>1. \A b \in Buckets : used[f][b].fresh \in Nat /\ used[f][b].cached \in Nat
        BY <1>2, PricingTypeFacts DEF Pages
    <2> QED BY <1>2, <1>3, <2>1 DEF RunInv
<1> QED BY <1>1, <1>2, <1>3, <1>4, RunMoves, ZenonT(60)

LEMMA AbortKeepsPricingInv ==
    ASSUME PricingInv, NEW c \in Collectors, AbortRun(c)
    PROVE  PricingInv'
<1>1. /\ collector' = [collector EXCEPT ![c] = NoRun] /\ runs_begun' \in Nat
      /\ UNCHANGED <<reporter, used, usageEvents, costs, newest, overtaken, prices, editor>>
    BY DEF AbortRun, priceVars, PricingInv, PricingTypes
<1>2. NoRun.at = "idle" /\ NoRun.wrote = {} /\ NoRun \in RunRows
    BY PricingTypeFacts DEF NoRun
<1>3. RunInv(NoRun, reporter, used, prices, DOMAIN costs)
    BY <1>2 DEF RunInv
<1>4. {w.key : w \in NoRun.wrote} = {}
    BY <1>2
<1> QED BY <1>1, <1>2, <1>3, <1>4, RunMoves

LEMMA CheckPriceKeepsPricingInv ==
    ASSUME PricingInv, NEW e \in Editors, CheckPrice(e)
    PROVE  PricingInv'
<1>1. PICK d \in Drafts :
          /\ \A p \in prices : ~Overlap(p, d) /\ p.version # d.version
          /\ editor' = [editor EXCEPT ![e] = [at |-> "checked", draft |-> d, saw |-> {p.version : p \in prices}]]
    BY DEF CheckPrice
<1>2. UNCHANGED <<reporter, used, usageEvents, costs, newest, overtaken, collector, runs_begun, prices>>
    BY DEF CheckPrice, collectVars
<1> DEFINE f == [at |-> "checked", draft |-> d, saw |-> {p.version : p \in prices}]
<1>3. f \in PriceEdits
    <2>1. {p.version : p \in prices} \subseteq Versions
        BY DEF PricingInv, PricingTypes, PriceRows
    <2> QED BY <2>1 DEF PriceEdits
<1>4. f.at = "checked" /\ f.draft = d /\ \A v \in f.saw : \E p \in prices : p.version = v /\ ~Overlap(p, d)
    BY <1>1
<1>5. editor \in [Editors -> PriceEdits]
    BY DEF PricingInv, PricingTypes
<1>6. editor' = [editor EXCEPT ![e] = f]
    BY <1>1
<1> HIDE DEF f
<1>7. PricingTypes'
    BY <1>2, <1>3, <1>5, <1>6 DEF PricingInv, PricingTypes
<1>8. editor'[e] = f /\ \A x \in Editors \ {e} : editor'[x] = editor[x]
    BY <1>5, <1>6
<1>9. PricesInv'
    <2>1. ASSUME NEW x \in Editors, editor'[x].at = "checked"
          PROVE  /\ editor'[x].draft \in Drafts
                 /\ \A v \in editor'[x].saw : \E p \in prices : p.version = v /\ ~Overlap(p, editor'[x].draft)
        BY <1>4, <1>8, <2>1 DEF PricingInv, PricesInv
    <2> QED BY <1>2, <2>1 DEF PricingInv, PricesInv
<1>10. EventsInv' /\ CostsInv'
    BY <1>2 DEF PricingInv, EventsInv, CostsInv, Explained
<1>11. RunsApart'
    BY <1>2 DEF PricingInv, RunsApart, Touched
<1> QED BY <1>2, <1>7, <1>9, <1>10, <1>11 DEF PricingInv

LEMMA CreatePriceKeepsPricingInv ==
    ASSUME PricingInv, NEW e \in Editors, CreatePrice(e)
    PROVE  PricingInv'
<1> DEFINE d == editor[e].draft
           p0 == [version |-> d.version, from |-> d.from, to |-> d.to, active |-> d.active, saw |-> editor[e].saw]
<1>1. /\ editor[e].at = "checked"
      /\ prices' = IF \E p \in prices : p.version = d.version THEN prices ELSE prices \cup {p0}
      /\ editor' = [editor EXCEPT ![e].at = "done"]
      /\ UNCHANGED <<reporter, used, usageEvents, costs, newest, overtaken, collector, runs_begun>>
    BY DEF CreatePrice, collectVars
<1>2. editor[e] \in PriceEdits /\ d \in Drafts
      /\ \A v \in editor[e].saw : \E p \in prices : p.version = v /\ ~Overlap(p, d)
    BY <1>1 DEF PricingInv, PricingTypes, PricesInv
<1>3. p0 \in PriceRows /\ p0.version = d.version /\ p0.from = d.from /\ p0.to = d.to /\ p0.saw = editor[e].saw
    BY <1>2, PricingTypeFacts DEF PriceRows, PriceEdits
<1> HIDE DEF p0
<1>4. editor \in [Editors -> PriceEdits] /\ prices \subseteq PriceRows
    BY DEF PricingInv, PricingTypes
<1>5. /\ editor' \in [Editors -> PriceEdits] /\ editor'[e].at = "done"
      /\ \A x \in Editors \ {e} : editor'[x] = editor[x]
    <2>1. [editor[e] EXCEPT !.at = "done"] \in PriceEdits /\ [editor[e] EXCEPT !.at = "done"].at = "done"
        BY <1>2 DEF PriceEdits
    <2> QED BY <1>1, <1>4, <2>1
<1>6. prices \subseteq prices' /\ prices' \subseteq PriceRows
    BY <1>1, <1>3, <1>4
<1>7. PricingTypes'
    BY <1>1, <1>5, <1>6 DEF PricingInv, PricingTypes
<1>8. PricesInv'
    <2>1. CASE \E p \in prices : p.version = d.version
        <3>1. prices' = prices
            BY <1>1, <2>1
        <3>2. ASSUME NEW x \in Editors, editor'[x].at = "checked"
              PROVE  /\ editor'[x].draft \in Drafts
                     /\ \A v \in editor'[x].saw : \E p \in prices : p.version = v /\ ~Overlap(p, editor'[x].draft)
            BY <1>5, <3>2 DEF PricingInv, PricesInv
        <3> QED BY <3>1, <3>2 DEF PricingInv, PricesInv
    <2>2. CASE ~\E p \in prices : p.version = d.version
        <3>1. prices' = prices \cup {p0}
            BY <1>1, <2>2
        <3>2. \A p, q \in prices' : p.version = q.version => p = q
            BY <1>3, <2>2, <3>1 DEF PricingInv, PricesInv
        <3>3. \A q \in prices' : \A v \in q.saw : \E p \in prices' : p.version = v
            BY <1>2, <1>3, <3>1 DEF PricingInv, PricesInv
        <3>4. ASSUME NEW p \in prices', NEW q \in prices', p # q, Overlap(p, q) PROVE p.version \notin q.saw
            <4>1. CASE p \in prices /\ q \in prices
                BY <3>4, <4>1 DEF PricingInv, PricesInv
            <4>2. CASE q = p0 /\ p \in prices
                <5>1. SUFFICES ASSUME p.version \in editor[e].saw PROVE FALSE
                    BY <1>3, <4>2
                <5>2. PICK x \in prices : x.version = p.version /\ ~Overlap(x, d)
                    BY <1>2, <5>1
                <5>3. x = p
                    BY <4>2, <5>2 DEF PricingInv, PricesInv
                <5> QED BY <1>3, <3>4, <4>2, <5>2, <5>3 DEF Overlap
            <4>3. CASE p = p0 /\ q \in prices
                <5>1. \A v \in q.saw : \E x \in prices : x.version = v
                    BY <4>3 DEF PricingInv, PricesInv
                <5> QED BY <1>3, <2>2, <4>3, <5>1
            <4> QED BY <3>1, <3>4, <4>1, <4>2, <4>3
        <3>5. ASSUME NEW x \in Editors, editor'[x].at = "checked"
              PROVE  /\ editor'[x].draft \in Drafts
                     /\ \A v \in editor'[x].saw : \E p \in prices' : p.version = v /\ ~Overlap(p, editor'[x].draft)
            <4>1. x # e /\ editor'[x] = editor[x]
                BY <1>5, <3>5
            <4> QED BY <3>1, <3>5, <4>1 DEF PricingInv, PricesInv
        <3> QED BY <3>2, <3>3, <3>4, <3>5 DEF PricesInv
    <2> QED BY <2>1, <2>2
<1>9. EventsInv'
    BY <1>1 DEF PricingInv, EventsInv
<1>10. CostsInv'
    BY <1>1, <1>6 DEF PricingInv, CostsInv, Explained
<1>11. RunsApart'
    BY <1>1 DEF PricingInv, RunsApart, Touched
<1>12. ASSUME NEW c \in Collectors PROVE RunInv(collector[c], reporter, used, prices', DOMAIN costs)
    <2>1. used \in [Feeds -> Pages] /\ collector[c] \in RunRows /\ RunInv(collector[c], reporter, used, prices, DOMAIN costs)
        BY DEF PricingInv, PricingTypes
    <2>2. NoLess(used, used)
        <3>1. \A f \in Feeds, b \in Buckets : used[f][b].fresh \in Nat /\ used[f][b].cached \in Nat
            BY <2>1, PricingTypeFacts DEF Pages
        <3> QED BY <3>1 DEF NoLess
    <2> QED BY <1>6, <2>1, <2>2, RunStays
<1> QED BY <1>1, <1>7, <1>8, <1>9, <1>10, <1>11, <1>12 DEF PricingInv

(* A day that some price covers has a price in force: of those that cover  *)
(* it, one starts last.                                                    *)
LEMMA CoveredIsPriced ==
    ASSUME prices \subseteq PriceRows, NEW day, NEW p \in prices, Covers(p, day)
    PROVE  PricesFor(day) # {}
<1> DEFINE covering == {q \in prices : Covers(q, day)}
           starts == {q.from : q \in covering}
<1>1. Forever \in Nat /\ \A q \in prices : q.from \in 1..Forever
    BY PricingTypeFacts DEF PriceRows
<1>2. starts \subseteq 1..Forever /\ starts # {} /\ IsFiniteSet(starts)
    <2>1. starts \subseteq 1..Forever /\ starts # {}
        BY <1>1
    <2>2. IsFiniteSet(1..Forever)
        BY <1>1, FS_Interval
    <2> QED BY <2>1, <2>2, FS_Subset
<1>3. PICK last \in starts : \A n \in starts : n <= last
    <2>1. starts \in SUBSET Nat
        BY <1>1, <1>2
    <2> HIDE DEF starts
    <2>2. Max(starts) \in starts /\ \A n \in starts : Max(starts) >= n
        BY <1>2, <2>1, HasMaximum
    <2> QED BY <2>1, <2>2
<1>4. PICK q \in covering : q.from = last
    BY <1>3
<1>5. q \in PricesFor(day)
    BY <1>3, <1>4 DEF PricesFor
<1> QED BY <1>5

LEMMA PageKeepsPricingInv ==
    ASSUME <<"openai", "neither">> \notin Reporters, PricingInv, NEW c \in Collectors, ProcessPage(c)
    PROVE  PricingInv'
<1> DEFINE r == collector[c]
           countable == {i \in Items(c) : Countable(i.item)}
<1>1. PICK price \in [countable -> {p.version : p \in prices} \cup {"none"}] :
           /\ \A i \in countable : price[i] \in Priced(i.day)
           /\ collector' = [collector EXCEPT ![c].at = "stored", ![c].wrote =
                                 {[key |-> i.item.key, price |-> price[i], day |-> i.day, figures |->
                                    [prompt |-> i.item.prompt, cached |-> i.item.cached]] : i \in countable}]
    BY DEF ProcessPage
<1>2. /\ r.at = "fetched" /\ \A d \in Collectors \ {c} : Touched(d) \cap {i.item.key : i \in countable} = {}
      /\ UNCHANGED <<reporter, used, usageEvents, costs, newest, overtaken, runs_begun, prices, editor>>
    BY DEF ProcessPage, priceVars
<1> DEFINE RowFor(i) == [key |-> i.item.key, price |-> price[i], day |-> i.day, figures |->
                           [prompt |-> i.item.prompt, cached |-> i.item.cached]]
           rows == {RowFor(i) : i \in countable}
           e == [r EXCEPT !.at = "stored", !.wrote = rows]
<1>3. r \in RunRows /\ collector \in [Collectors -> RunRows] /\ reporter \in Reporters /\ used \in [Feeds -> Pages]
      /\ prices \subseteq PriceRows /\ runs_begun \in Nat
    BY DEF PricingInv, PricingTypes
<1>4. /\ r.feed \in Feeds /\ r.page \in Pages /\ r.run \in Nat
      /\ \A b \in Buckets : /\ r.page[b].fresh <= used[r.feed][b].fresh
                            /\ r.page[b].cached <= used[r.feed][b].cached
    BY <1>2, <1>3 DEF PricingInv, RunInv, RunRows
<1>5. reporter \in Reporting \X Forms
    BY <1>3, PricingAssumption DEF PricingAssumption
<1>6. ASSUME NEW i \in countable
      PROVE  /\ i.day \in Buckets /\ i.item.cached <= i.item.prompt
             /\ i = [item |-> Normalized(r.feed, i.day, r.run, r.page[i.day]), day |-> i.day]
             /\ i.item.key = KeyOf(reporter, r.feed, i.day, r.run)
             /\ i.item.prompt = PromptOf(reporter, r.page[i.day])
             /\ i.item.cached = CachedOf(reporter, r.page[i.day])
    <2>1. PICK b \in Buckets : i = [item |-> Normalized(r.feed, b, r.run, r.page[b]), day |-> b]
        BY DEF Items
    <2>2. i.day = b /\ i.item = Normalized(r.feed, b, r.run, r.page[b])
        BY <2>1
    <2>3. i.item = [key |-> KeyOf(reporter, r.feed, b, r.run), prompt |-> PromptOf(reporter, r.page[b]),
                    cached |-> CachedOf(reporter, r.page[b])]
        BY <1>3, <2>2, NormalizedIs
    <2>4. i.item.cached <= i.item.prompt
        BY DEF Countable
    <2>5. /\ i.item.key = KeyOf(reporter, r.feed, i.day, r.run)
          /\ i.item.prompt = PromptOf(reporter, r.page[i.day])
          /\ i.item.cached = CachedOf(reporter, r.page[i.day])
        <3>1. /\ i.item.key = KeyOf(reporter, r.feed, b, r.run)
              /\ i.item.prompt = PromptOf(reporter, r.page[b])
              /\ i.item.cached = CachedOf(reporter, r.page[b])
            BY <2>3
        <3> QED BY <2>2, <3>1
    <2>6. i = [item |-> Normalized(r.feed, i.day, r.run, r.page[i.day]), day |-> i.day] /\ i.day \in Buckets
        BY <2>1, <2>2
    <2> QED BY <2>4, <2>5, <2>6
<1>7. ASSUME NEW i \in countable
      PROVE  /\ i.item.key \in UsageKeys /\ i.item.key[2] = i.day
             /\ i.item.key = KeyOf(reporter, r.feed, i.day, i.item.key[3])
             /\ reporter[2] # "neither" => i.item.key[3] = 0
    BY <1>4, <1>5, <1>6, KeyIs
<1>8. ASSUME NEW i \in countable
      PROVE  /\ i.item.prompt \in Nat /\ i.item.cached \in Nat
             /\ i.item.prompt <= PromptOf(reporter, used[r.feed][i.day])
             /\ i.item.cached <= CachedOf(reporter, used[r.feed][i.day])
    <2>1. r.page[i.day] \in TokenCounts /\ used[r.feed][i.day] \in TokenCounts
        BY <1>3, <1>4, <1>6 DEF Pages
    <2>2. /\ r.page[i.day].fresh <= used[r.feed][i.day].fresh
          /\ r.page[i.day].cached <= used[r.feed][i.day].cached
        BY <1>4, <1>6
    <2> QED BY <1>6, <2>1, <2>2, FiguresGrow
<1>9. ASSUME NEW i \in countable
      PROVE  /\ price[i] \in Versions \cup {"none"}
             /\ price[i] # "none" => \E p \in prices : p.version = price[i] /\ Covers(p, i.day)
             /\ price[i] = "none" => PricesFor(i.day) = {}
    <2>1. \A p \in prices : p.version \in Versions /\ p.version # "none"
        BY <1>3, PricingTypeFacts DEF PriceRows
    <2>2. price[i] \in Priced(i.day) /\ PricesFor(i.day) \subseteq {p \in prices : Covers(p, i.day)}
        BY <1>1 DEF PricesFor
    <2> QED BY <2>1, <2>2 DEF Priced
<1>10. collector' = [collector EXCEPT ![c] = e]
    BY <1>1, <1>3
<1> DEFINE g(i) == [prompt |-> i.item.prompt, cached |-> i.item.cached]
<1>11. ASSUME NEW i \in countable
       PROVE  /\ RowFor(i) \in UsageRows /\ RowFor(i).key = i.item.key /\ RowFor(i).day = i.day
              /\ RowFor(i).price = price[i]
              /\ RowFor(i).figures.prompt = i.item.prompt /\ RowFor(i).figures.cached = i.item.cached
    <2>1. g(i) \in Figures
        BY <1>8 DEF Figures
    <2> QED BY <1>6, <1>7, <1>9, <2>1 DEF UsageRows
<1> HIDE DEF countable
<1>12. rows \subseteq UsageRows /\ \A w \in rows : \E i \in countable : w = RowFor(i)
    BY <1>11
<1> HIDE DEF RowFor, rows
<1>13. e \in RunRows /\ e.at = "stored" /\ e.wrote = rows /\ e.feed = r.feed /\ e.page = r.page
    BY <1>3, <1>12 DEF RunRows
<1> HIDE DEF e
<1>14. ASSUME NEW w \in rows
       PROVE  Faithful(reporter, used, w) /\ Explained(prices, w) /\ (w.price = "none" => w.key \notin DOMAIN costs)
    <2>1. PICK i \in countable : w = RowFor(i)
        BY <1>12
    <2>2. Reported(reporter, used, w.key, w.figures)
        <3>1. /\ r.feed \in Feeds /\ i.day \in Buckets /\ w.key = KeyOf(reporter, r.feed, i.day, w.key[3])
              /\ w.figures.prompt <= PromptOf(reporter, used[r.feed][i.day])
              /\ w.figures.cached <= CachedOf(reporter, used[r.feed][i.day])
            BY <1>4, <1>6, <1>7, <1>8, <1>11, <2>1
        <3> QED BY <3>1 DEF Reported
    <2>3. Faithful(reporter, used, w)
        BY <1>6, <1>7, <1>11, <2>1, <2>2 DEF Faithful
    <2>4. Explained(prices, w)
        BY <1>9, <1>11, <2>1 DEF Explained
    <2>5. ASSUME w.price = "none", w.key \in DOMAIN costs PROVE FALSE
        <3>1. \E p \in prices : Covers(p, w.key[2])
            BY <2>5 DEF PricingInv, CostsInv, Explained
        <3>2. w.key[2] = i.day /\ PricesFor(i.day) = {}
            BY <1>7, <1>9, <1>11, <2>1, <2>5
        <3> QED BY <1>3, <3>1, <3>2, CoveredIsPriced
    <2> QED BY <2>3, <2>4, <2>5
<1>15. ASSUME NEW v \in rows, NEW w \in rows, v.key = w.key PROVE v = w
    <2>1. PICK i \in countable : v = RowFor(i)
        BY <1>12
    <2>2. PICK j \in countable : w = RowFor(j)
        BY <1>12
    <2>3. i.item.key = j.item.key
        BY <1>11, <1>15, <2>1, <2>2
    <2>4. i.day = j.day
        BY <1>7, <2>3
    <2>5. i = j
        BY <1>6, <2>4
    <2> QED BY <2>1, <2>2, <2>5
<1>16. RunInv(e, reporter, used, prices, DOMAIN costs)
    BY <1>4, <1>13, <1>14, <1>15 DEF RunInv
<1>17. \A d \in Collectors \ {c} : Touched(d) \cap {w.key : w \in e.wrote} = {}
    <2>1. \A w \in rows : \E i \in countable : w.key = i.item.key
        BY <1>11, <1>12
    <2> QED BY <1>2, <1>13, <2>1
<1> QED BY <1>2, <1>3, <1>10, <1>13, <1>16, <1>17, RunMoves

LEMMA ByKeyIs ==
    ASSUME NEW rows, \A v, w \in rows : v.key = w.key => v = w
    PROVE  /\ DOMAIN ByKey(rows) = {w.key : w \in rows}
           /\ \A w \in rows : ByKey(rows)[w.key] = w
BY DEF ByKey

(* Rows written over others: those win, the others stay.                   *)
Upserted(rows, f) == Over(ByKey(rows), f)

LEMMA UpsertIs ==
    ASSUME NEW rows \in SUBSET UsageRows, \A v, w \in rows : v.key = w.key => v = w,
           NEW f, \A x \in DOMAIN f : f[x] \in UsageRows
    PROVE  /\ Upserted(rows, f) \in [DOMAIN Upserted(rows, f) -> UsageRows]
           /\ DOMAIN Upserted(rows, f) = {w.key : w \in rows} \cup DOMAIN f
           /\ \A w \in rows : Upserted(rows, f)[w.key] = w
           /\ \A key \in DOMAIN f \ {w.key : w \in rows} : Upserted(rows, f)[key] = f[key]
<1> DEFINE g == Over(ByKey(rows), f)
<1>1. DOMAIN ByKey(rows) = {w.key : w \in rows} /\ \A w \in rows : ByKey(rows)[w.key] = w
    BY ByKeyIs
<1>2. /\ DOMAIN g = DOMAIN ByKey(rows) \cup DOMAIN f /\ g = [x \in DOMAIN g |-> g[x]]
      /\ \A x \in DOMAIN ByKey(rows) : g[x] = ByKey(rows)[x]
      /\ \A x \in DOMAIN f \ DOMAIN ByKey(rows) : g[x] = f[x]
    BY DEF Over
<1>3. g = Upserted(rows, f)
    BY DEF Upserted
<1> HIDE DEF g
<1>4. \A w \in rows : g[w.key] = w
    BY <1>1, <1>2
<1>5. \A x \in DOMAIN g : g[x] \in UsageRows
    BY <1>1, <1>2, <1>4
<1>6. g \in [DOMAIN g -> UsageRows]
    BY <1>2, <1>5
<1> QED BY <1>1, <1>2, <1>3, <1>4, <1>6

LEMMA CommitRunKeepsPricingInv ==
    ASSUME PricingInv, NEW c \in Collectors, CommitRun(c)
    PROVE  PricingInv'
<1> DEFINE rows == collector[c].wrote
           keys == Touched(c)
           priced == {w \in rows : w.price # "none"}
           behind == keys \cap collector[c].since
<1>1. /\ collector[c].at = "stored"
      /\ usageEvents' = Upserted(rows, usageEvents) /\ costs' = Upserted(priced, costs)
      /\ overtaken' = (overtaken \ keys) \cup behind
      /\ newest' = Over([key \in keys \ behind |-> ByKey(rows)[key].figures], newest)
      /\ UNCHANGED <<reporter, used, runs_begun, prices, editor>>
    BY DEF CommitRun, UpsertEvents, UpsertCosts, CostRecords, Upserted, priceVars
<1>2. collector' = [d \in Collectors |->
                       IF d = c THEN NoRun
                       ELSE IF collector[d].at # "idle" /\ collector[d].run < collector[c].run
                            THEN [collector[d] EXCEPT !.since = @ \cup keys] ELSE collector[d]]
    BY DEF CommitRun
<1>3. collector \in [Collectors -> RunRows] /\ used \in [Feeds -> Pages]
      /\ usageEvents \in [DOMAIN usageEvents -> UsageRows] /\ costs \in [DOMAIN costs -> UsageRows]
    BY DEF PricingInv, PricingTypes
<1>4. rows \in SUBSET UsageRows /\ priced \in SUBSET UsageRows /\ priced \subseteq rows
      /\ keys = {w.key : w \in rows} /\ keys \subseteq UsageKeys
    BY <1>3 DEF RunRows, Touched, UsageRows
<1>5. /\ \A w \in rows : /\ Faithful(reporter, used, w) /\ Explained(prices, w)
                         /\ w.price = "none" => w.key \notin DOMAIN costs
      /\ \A v, w \in rows : v.key = w.key => v = w
    BY DEF PricingInv, RunInv
<1> HIDE DEF rows, keys, priced, behind
<1>6. /\ usageEvents' \in [DOMAIN usageEvents' -> UsageRows] /\ DOMAIN usageEvents' = keys \cup DOMAIN usageEvents
      /\ \A w \in rows : usageEvents'[w.key] = w
      /\ \A key \in DOMAIN usageEvents \ keys : usageEvents'[key] = usageEvents[key]
    <2>1. \A x \in DOMAIN usageEvents : usageEvents[x] \in UsageRows
        BY <1>3
    <2>2. /\ Upserted(rows, usageEvents) \in [DOMAIN Upserted(rows, usageEvents) -> UsageRows]
          /\ DOMAIN Upserted(rows, usageEvents) = {w.key : w \in rows} \cup DOMAIN usageEvents
          /\ \A w \in rows : Upserted(rows, usageEvents)[w.key] = w
          /\ \A key \in DOMAIN usageEvents \ {w.key : w \in rows} :
                Upserted(rows, usageEvents)[key] = usageEvents[key]
        BY <1>4, <1>5, <2>1, UpsertIs
    <2> QED BY <1>1, <1>4, <2>2
<1>7. /\ costs' \in [DOMAIN costs' -> UsageRows] /\ DOMAIN costs' = {w.key : w \in priced} \cup DOMAIN costs
      /\ \A w \in priced : costs'[w.key] = w
      /\ \A key \in DOMAIN costs \ {w.key : w \in priced} : costs'[key] = costs[key]
    <2>1. (\A x \in DOMAIN costs : costs[x] \in UsageRows) /\ \A v, w \in priced : v.key = w.key => v = w
        BY <1>3, <1>4, <1>5
    <2>2. /\ Upserted(priced, costs) \in [DOMAIN Upserted(priced, costs) -> UsageRows]
          /\ DOMAIN Upserted(priced, costs) = {w.key : w \in priced} \cup DOMAIN costs
          /\ \A w \in priced : Upserted(priced, costs)[w.key] = w
          /\ \A key \in DOMAIN costs \ {w.key : w \in priced} : Upserted(priced, costs)[key] = costs[key]
        BY <1>4, <2>1, UpsertIs
    <2> QED BY <1>1, <2>2
<1>8. DOMAIN newest' = (keys \ behind) \cup DOMAIN newest
      /\ (\A key \in keys \ behind : newest'[key] = ByKey(rows)[key].figures)
      /\ (\A key \in DOMAIN newest \ (keys \ behind) : newest'[key] = newest[key])
    <2> DEFINE f == [key \in keys \ behind |-> ByKey(rows)[key].figures]
    <2>1. DOMAIN f = keys \ behind /\ \A key \in keys \ behind : f[key] = ByKey(rows)[key].figures
        OBVIOUS
    <2>2. newest' = Over(f, newest)
        BY <1>1
    <2> HIDE DEF f
    <2>3. /\ DOMAIN Over(f, newest) = DOMAIN f \cup DOMAIN newest
          /\ \A x \in DOMAIN f : Over(f, newest)[x] = f[x]
          /\ \A x \in DOMAIN newest \ DOMAIN f : Over(f, newest)[x] = newest[x]
        BY DEF Over
    <2> QED BY <2>1, <2>2, <2>3
<1>9. \A w \in rows : ByKey(rows)[w.key] = w
    BY <1>5, ByKeyIs
<1>10. ASSUME NEW d \in Collectors \ {c}
       PROVE  collector'[d] \in RunRows /\ collector'[d].at = collector[d].at /\ collector'[d].feed = collector[d].feed
              /\ collector'[d].page = collector[d].page /\ collector'[d].wrote = collector[d].wrote
    <2>1. collector[d] \in RunRows
        BY <1>3
    <2> DEFINE e == [collector[d] EXCEPT !.since = @ \cup keys]
    <2>2. e \in RunRows /\ e.at = collector[d].at /\ e.feed = collector[d].feed
          /\ e.page = collector[d].page /\ e.wrote = collector[d].wrote
        BY <1>4, <2>1 DEF RunRows
    <2>3. collector'[d] = e \/ collector'[d] = collector[d]
        BY <1>2
    <2> HIDE DEF e
    <2> QED BY <2>1, <2>2, <2>3
<1>11. collector'[c] = NoRun /\ NoRun.at = "idle" /\ NoRun.wrote = {} /\ NoRun \in RunRows
    BY <1>2, PricingTypeFacts DEF NoRun
<1>12. PricingTypes'
    <2>1. collector' \in [Collectors -> RunRows]
        <3>1. \A d \in Collectors : collector'[d] \in RunRows
            BY <1>10, <1>11
        <3>2. collector' = [d \in Collectors |-> collector'[d]]
            BY <1>2
        <3> QED BY <3>1, <3>2
    <2> QED BY <1>1, <1>6, <1>7, <2>1 DEF PricingInv, PricingTypes
<1>13. EventsInv'
    <2>1. ASSUME NEW key \in DOMAIN usageEvents'
          PROVE  usageEvents'[key].key = key /\ Faithful(reporter, used, usageEvents'[key])
        <3>1. CASE key \in keys
            BY <1>4, <1>5, <1>6, <3>1
        <3>2. CASE key \notin keys
            BY <1>6, <2>1, <3>2 DEF PricingInv, EventsInv
        <3> QED BY <3>1, <3>2
    <2>2. ASSUME NEW key \in DOMAIN usageEvents' \ overtaken'
          PROVE  key \in DOMAIN newest' /\ newest'[key] = usageEvents'[key].figures
        <3>1. CASE key \in keys
            <4>1. key \in keys \ behind
                BY <1>1, <2>2, <3>1
            <4>2. PICK w \in rows : w.key = key
                BY <1>4, <3>1
            <4> QED BY <1>6, <1>8, <1>9, <4>1, <4>2
        <3>2. CASE key \notin keys
            <4>1. key \in DOMAIN usageEvents \ overtaken /\ usageEvents'[key] = usageEvents[key]
                BY <1>1, <1>6, <2>2, <3>2
            <4>2. key \in DOMAIN newest /\ newest[key] = usageEvents[key].figures
                BY <4>1 DEF PricingInv, EventsInv
            <4> QED BY <1>8, <3>2, <4>1, <4>2
        <3> QED BY <3>1, <3>2
    <2> QED BY <1>1, <2>1, <2>2 DEF EventsInv
<1>14. CostsInv'
    <2> SUFFICES ASSUME NEW key \in DOMAIN costs'
                 PROVE  /\ key \in DOMAIN usageEvents' /\ costs'[key].figures = usageEvents'[key].figures
                        /\ costs'[key].day = key[2] /\ costs'[key].price # "none" /\ Explained(prices, costs'[key])
        BY <1>1 DEF CostsInv, Explained, Covers
    <2>1. CASE key \in {w.key : w \in priced}
        <3>1. PICK w \in priced : w.key = key
            BY <2>1
        <3>2. w \in rows /\ w.price # "none"
            BY <3>1 DEF priced
        <3>3. w.key[2] = w.day /\ Explained(prices, w)
            BY <1>5, <3>2 DEF Faithful
        <3>4. key \in keys
            BY <1>4, <3>1, <3>2
        <3> QED BY <1>6, <1>7, <3>1, <3>2, <3>3, <3>4
    <2>2. CASE key \notin {w.key : w \in priced}
        <3>1. key \in DOMAIN costs /\ costs'[key] = costs[key]
            BY <1>7, <2>2
        <3>2. key \notin keys
            <4>1. ASSUME NEW w \in rows, w.key = key PROVE FALSE
                BY <1>5, <2>2, <3>1, <4>1 DEF priced
            <4> QED BY <1>4, <4>1
        <3>3. /\ key \in DOMAIN usageEvents /\ costs[key].figures = usageEvents[key].figures
              /\ costs[key].day = key[2] /\ costs[key].price # "none" /\ Explained(prices, costs[key])
            BY <3>1 DEF PricingInv, CostsInv
        <3> QED BY <1>6, <3>1, <3>2, <3>3
    <2> QED BY <2>1, <2>2
<1>15. PricesInv'
    BY <1>1 DEF PricingInv, PricesInv
<1>16. RunsApart'
    <2>1. Touched(c)' = {} /\ \A d \in Collectors \ {c} : Touched(d)' = Touched(d)
        BY <1>10, <1>11 DEF Touched
    <2> QED BY <2>1 DEF PricingInv, RunsApart
<1>17. ASSUME NEW d \in Collectors PROVE RunInv(collector'[d], reporter, used, prices, DOMAIN costs')
    <2>1. CASE d = c
        BY <1>11, <2>1 DEF RunInv
    <2>2. CASE d # c
        <3>1. collector[d] \in RunRows /\ RunInv(collector[d], reporter, used, prices, DOMAIN costs)
            BY <1>3 DEF PricingInv
        <3>2. ASSUME NEW w \in collector[d].wrote, w.price = "none", w.key \notin DOMAIN costs
              PROVE  w.key \notin DOMAIN costs'
            <4>1. w.key \notin keys
                BY <2>2 DEF PricingInv, RunsApart, Touched, keys
            <4>2. {v.key : v \in priced} \subseteq keys
                BY <1>4
            <4> QED BY <1>7, <3>2, <4>1, <4>2
        <3>3. RunInv(collector[d], reporter, used, prices, DOMAIN costs')
            BY <3>1, <3>2 DEF RunInv
        <3> QED BY <1>10, <2>2, <3>3 DEF RunInv
    <2> QED BY <2>1, <2>2
<1> QED BY <1>1, <1>12, <1>13, <1>14, <1>15, <1>16, <1>17 DEF PricingInv

LEMMA PricingInvMeansFollowing ==
    ASSUME <<"openai", "neither">> \notin Reporters, PricingInv PROVE CostsFollowUsage
<1>1. reporter \in Reporters /\ usageEvents \in [DOMAIN usageEvents -> UsageRows]
    BY DEF PricingInv, PricingTypes
<1>2. ASSUME NEW key \in DOMAIN usageEvents
      PROVE  /\ usageEvents[key].figures.cached <= usageEvents[key].figures.prompt
             /\ key \notin overtaken => usageEvents[key].figures = newest[key]
             /\ \E f \in Feeds, b \in Buckets :
                   LET now == Normalized(f, b, key[3], used[f][b])
                   IN now.key = key /\ usageEvents[key].figures.prompt <= now.prompt
                      /\ usageEvents[key].figures.cached <= now.cached
             /\ reporter[2] # "neither" => key[3] = 0
    <2>1. usageEvents[key].key = key /\ Faithful(reporter, used, usageEvents[key])
          /\ (key \notin overtaken => usageEvents[key].figures = newest[key])
        BY DEF PricingInv, EventsInv
    <2>2. PICK f \in Feeds, b \in Buckets :
              /\ key = KeyOf(reporter, f, b, key[3])
              /\ usageEvents[key].figures.prompt <= PromptOf(reporter, used[f][b])
              /\ usageEvents[key].figures.cached <= CachedOf(reporter, used[f][b])
        BY <2>1 DEF Faithful, Reported
    <2>3. Normalized(f, b, key[3], used[f][b]) =
              [key |-> KeyOf(reporter, f, b, key[3]), prompt |-> PromptOf(reporter, used[f][b]),
               cached |-> CachedOf(reporter, used[f][b])]
        BY <1>1, NormalizedIs
    <2> QED BY <2>1, <2>2, <2>3 DEF Faithful
<1>3. ASSUME NEW key \in DOMAIN costs
      PROVE  /\ costs[key].figures = usageEvents[key].figures
             /\ \E p \in prices : p.version = costs[key].price /\ Covers(p, costs[key].day)
    BY DEF PricingInv, CostsInv, Explained
<1>4. \A p, q \in prices : p # q /\ Overlap(p, q) => p.version \notin q.saw /\ q.version \notin p.saw
    BY DEF PricingInv, PricesInv, Overlap
<1> QED BY <1>2, <1>3, <1>4 DEF CostsFollowUsage

(* A usage row says what the last run to fetch it said, unless an earlier  *)
(* fetch was committed later, and no more than its provider reports of one *)
(* connection; its cost record is of the same figures, at a price that     *)
(* covers its day; and prices overlap only if their requests crossed.  For *)
(* any connections, days, runs, prices and requests, and items that have a *)
(* name or a time where the provider is OpenAI.                            *)
THEOREM CostsAreOfTheirUsage ==
    ASSUME <<"openai", "neither">> \notin Reporters
    PROVE  PricingSpec => []CostsFollowUsage
<1>1. PricingInv /\ [PricingNext]_pricingVars => PricingInv'
    <2> SUFFICES ASSUME PricingInv, [PricingNext]_pricingVars PROVE PricingInv'
        OBVIOUS
    <2>1. CASE UNCHANGED pricingVars
        <3>1. UNCHANGED <<reporter, used, usageEvents, costs, newest, overtaken, collector, runs_begun, prices, editor>>
            BY <2>1 DEF pricingVars
        <3>2. PricingTypes' /\ PricesInv'
            BY <3>1 DEF PricingInv, PricingTypes, PricesInv
        <3>3. EventsInv' /\ CostsInv'
            BY <3>1 DEF PricingInv, EventsInv, CostsInv
        <3>4. RunsApart'
            BY <3>1 DEF PricingInv, RunsApart, Touched
        <3> QED BY <3>1, <3>2, <3>3, <3>4 DEF PricingInv
    <2>2. ASSUME NEW f \in Feeds, NEW b \in Buckets, UsageGrows(f, b) PROVE PricingInv'
        BY <2>2, GrowthKeepsPricingInv
    <2>3. ASSUME NEW c \in Collectors, NEW f \in Feeds, Fetch(c, f) PROVE PricingInv'
        BY <2>3, FetchKeepsPricingInv
    <2>4. ASSUME NEW c \in Collectors, ProcessPage(c) PROVE PricingInv'
        BY <2>4, PageKeepsPricingInv
    <2>5. ASSUME NEW c \in Collectors, CommitRun(c) \/ AbortRun(c) PROVE PricingInv'
        BY <2>5, CommitRunKeepsPricingInv, AbortKeepsPricingInv
    <2>6. ASSUME NEW e \in Editors, CheckPrice(e) \/ CreatePrice(e) PROVE PricingInv'
        BY <2>6, CheckPriceKeepsPricingInv, CreatePriceKeepsPricingInv
    <2> QED BY <2>1, <2>2, <2>3, <2>4, <2>5, <2>6 DEF PricingNext
<1> QED BY <1>1, PricingInvInit, PricingInvMeansFollowing, PTL DEF PricingSpec
=============================================================================
