--------------------------- MODULE UsageCollection ---------------------------
(***************************************************************************)
(* Usage collected from one provider connection (backend/app/usage/        *)
(* service.py, services/provider_sync_service.py): the scheduler's job and *)
(* a request to sync page through the provider's usage of a window of      *)
(* time, upsert its events and move a checkpoint, each in one transaction  *)
(* that is committed when the run is over, completed or failed.            *)
(*                                                                         *)
(* Time is counted in instants with one unit of usage each, named by its   *)
(* time stamp.  The provider is external: it answers with the units of the *)
(* window after the cursor, in the order of their time stamps, and may     *)
(* report a unit late.  PostgreSQL (READ COMMITTED) is external: an upsert *)
(* waits for the transaction that wrote the row, a deadlock is broken.     *)
(***************************************************************************)
EXTENDS Naturals, Sequences, FiniteSets, FiniteSetsExt

CONSTANTS
    Syncs,              \* transactions that run sync_connection
    PageLimit,          \* page_limit
    Lookback,           \* lookback_days
    Arbiters,           \* whether the constraint that the checkpoint's ON
                        \* CONFLICT names is immediate (the schema declares
                        \* it deferrable)
    Swallowing,         \* whether the adapter answers an error with an empty
                        \* page (Anthropic's does, the others raise)
    Refusable,          \* instants whose unit the validator may refuse
    MaxTime,            \* bound: instants
    MaxFailures         \* bound: errors of the provider, the database, a
                        \* process, and late reports

ASSUME CollectionAssumption ==
    /\ PageLimit \in Nat \ {0} /\ Lookback \in Nat \ {0}
    /\ Arbiters \subseteq BOOLEAN /\ Swallowing \subseteq BOOLEAN
    /\ MaxTime \in Nat \ {0} /\ MaxFailures \in Nat
    /\ Refusable \subseteq 1..MaxTime

VARIABLES
    immediate,   \* of Arbiters
    swallows,    \* of Swallowing
    invalid,     \* of Refusable: units whose event the validator refuses
    clock,       \* the present instant
    reported,    \* units the provider reports
    late,        \* those it reported after their instant was over
    collected,   \* committed rows of usage_events
    checkpoint,  \* the committed checkpoint
    outdated,    \* units a run left out as older than its lookback
    unanswered,  \* units asked for when the adapter swallowed an error
    sync,        \* sync[x]: the run of transaction x
    failures

collectionVars ==
    <<immediate, swallows, invalid, clock, reported, late, collected, checkpoint, outdated,
      unanswered, sync, failures>>

connection == <<immediate, swallows, invalid>>

Instants == 1..MaxTime

(* last_collected_at and the cursor: 0 is NULL, last 0 is no checkpoint.   *)
Checkpoints == [last : 0..MaxTime, cursor : 0..MaxTime]
NoCheckpoint == [last |-> 0, cursor |-> 0]

(* wrote and moved: what x has written and not committed.                  *)
IdleSync == [at |-> "idle", start |-> 0, end |-> 0, cursor |-> 0, page |-> {},
             more |-> FALSE, wrote |-> {}, moved |-> NoCheckpoint]

Failure == failures < MaxFailures /\ failures' = failures + 1
Later(a, b) == IF a > b THEN a ELSE b
-----------------------------------------------------------------------------
(* Empty run, event and checkpoint tables, as the ep08 migration leaves    *)
(* them.                                                                   *)
CollectionInit ==
    /\ clock = 1 /\ failures = 0
    /\ immediate \in Arbiters /\ swallows \in Swallowing
    /\ invalid \in SUBSET Refusable
    /\ reported = {} /\ late = {} /\ collected = {} /\ outdated = {} /\ unanswered = {}
    /\ checkpoint = NoCheckpoint
    /\ sync = [x \in Syncs |-> IdleSync]
-----------------------------------------------------------------------------
(* Usage happens                                                           *)

TimePasses ==
    /\ clock < MaxTime
    /\ clock' = clock + 1
    /\ UNCHANGED <<connection, unanswered, reported, late, collected, checkpoint, outdated, sync, failures>>

Reports(e) ==
    /\ e \notin reported
    /\ reported' = reported \cup {e}
    /\ UNCHANGED <<connection, unanswered, clock, collected, checkpoint, outdated, sync>>

(* Bound: none at the last instant, which no window reaches.               *)
ReportUsage == clock < MaxTime /\ Reports(clock) /\ UNCHANGED <<late, failures>>

ReportLate(e) == e < clock /\ Failure /\ Reports(e) /\ late' = late \cup {e}
-----------------------------------------------------------------------------
(* sync_connection and collect                                             *)

(* _effective_start: from the checkpoint, within the lookback.             *)
OldestAllowed == IF clock > Lookback THEN clock - Lookback ELSE 1
EffectiveStart ==
    IF checkpoint.last # 0 /\ checkpoint.last < clock
    THEN Later(checkpoint.last, OldestAllowed) ELSE OldestAllowed

(* The window ends now; collect() reads the same checkpoint again, for its *)
(* cursor and for a later start.                                           *)
StartSync(x) ==
    /\ sync[x].at = "idle"
    /\ sync' = [sync EXCEPT ![x] = [IdleSync EXCEPT
                   !.at = "asking", !.end = clock, !.cursor = checkpoint.cursor,
                   !.start = Later(EffectiveStart, checkpoint.last)]]
    /\ outdated' = outdated \cup {e \in reported \ collected : e < OldestAllowed}
    /\ UNCHANGED <<connection, unanswered, clock, reported, late, collected, checkpoint, failures>>

(* Mutation: the window begins after the last time collected.            *)
WindowAfter(x) ==
    {e \in reported : sync[x].start < e /\ e < sync[x].end /\ e > sync[x].cursor}

(* get_usage: what is left of the window after the cursor                  *)
Window(x) == {e \in reported : sync[x].start <= e /\ e < sync[x].end /\ e > sync[x].cursor}

FirstOf(S, n) == {e \in S : Cardinality({f \in S : f < e}) < n}

GetPage(x) ==
    LET page == FirstOf(Window(x), PageLimit) IN
    /\ sync[x].at = "asking"
    /\ sync' = [sync EXCEPT ![x].at = "storing", ![x].page = page,
                            ![x].more = page # Window(x)]
    /\ UNCHANGED <<connection, unanswered, clock, reported, late, collected, checkpoint, outdated, failures>>

(* get_usage of the Anthropic adapter: whatever goes wrong, no usage and   *)
(* no further page.                                                        *)
ErrorSwallowed(x) ==
    /\ Failure
    /\ swallows
    /\ sync[x].at = "asking"
    /\ sync' = [sync EXCEPT ![x].at = "storing", ![x].page = {}, ![x].more = FALSE]
    /\ unanswered' = unanswered \cup Window(x)
    /\ UNCHANGED <<connection, clock, reported, late, collected, checkpoint, outdated>>

(* The run is marked FAILED; pages it stored stay in the transaction.      *)
ProviderFails(x) ==
    /\ Failure
    /\ ~swallows
    /\ sync[x].at = "asking"
    /\ sync' = [sync EXCEPT ![x].at = "ending"]
    /\ UNCHANGED <<connection, unanswered, clock, reported, late, collected, checkpoint, outdated>>

(* Rows of other transactions an upsert has to wait for                    *)
EventsWait(x) == \E y \in Syncs \ {x} : sync[y].wrote \cap sync[x].page # {}
CheckpointWaits(x) == \E y \in Syncs \ {x} : sync[y].moved # NoCheckpoint

(* _process_page: upsert by (organization, provider, request id) of the    *)
(* events the validator accepts; one it refuses is counted and skipped.    *)
StoreEvents(x) ==
    /\ sync[x].at = "storing"
    /\ ~EventsWait(x)
    /\ sync' = [sync EXCEPT ![x].at = "moving", ![x].wrote = @ \cup (sync[x].page \ invalid)]
    /\ UNCHANGED <<connection, unanswered, clock, reported, late, collected, checkpoint, outdated, failures>>

(* Mutation: the window counts as collected from the first page on.      *)
NextCheckpointEarly(x) ==
    [last |-> sync[x].end, cursor |-> IF sync[x].more THEN Max(sync[x].page) ELSE 0]

(* The page's cursor, and the end of the window if it is the last page     *)
NextCheckpoint(x) ==
    IF sync[x].more THEN [last |-> sync[x].start, cursor |-> Max(sync[x].page)]
                    ELSE [last |-> sync[x].end, cursor |-> 0]

MoveCheckpoint(x) ==
    /\ sync[x].at = "moving"
    /\ immediate
    /\ ~CheckpointWaits(x)
    /\ sync' = [sync EXCEPT ![x].at = IF sync[x].more THEN "asking" ELSE "ending",
                            ![x].moved = NextCheckpoint(x),
                            ![x].cursor = NextCheckpoint(x).cursor,
                            ![x].page = {}, ![x].more = FALSE]
    /\ UNCHANGED <<connection, unanswered, clock, reported, late, collected, checkpoint, outdated, failures>>

CommitSync(x) ==
    /\ sync[x].at = "ending"
    /\ collected' = collected \cup sync[x].wrote
    /\ checkpoint' = IF sync[x].moved # NoCheckpoint THEN sync[x].moved ELSE checkpoint
    /\ sync' = [sync EXCEPT ![x] = IdleSync]
    /\ UNCHANGED <<connection, unanswered, clock, reported, late, outdated, failures>>

RollbackSync(x) ==
    /\ sync' = [sync EXCEPT ![x] = IdleSync]
    /\ UNCHANGED <<connection, unanswered, clock, reported, late, collected, checkpoint, outdated>>

(* The process dies, the request is cancelled, or a statement fails: the   *)
(* run row, the FAILED status and every page go with the transaction.      *)
AbortSync(x) == Failure /\ sync[x].at # "idle" /\ RollbackSync(x)

(* PostgreSQL refuses a deferrable constraint as the arbiter.              *)
CheckpointRefused(x) ==
    /\ sync[x].at = "moving"
    /\ ~immediate
    /\ RollbackSync(x)
    /\ UNCHANGED failures

(* x waits for the events of y, which waits for x's checkpoint.            *)
DeadlockVictim(x) ==
    /\ \E y \in Syncs :
          \/ /\ sync[x].at = "storing" /\ sync[y].wrote \cap sync[x].page # {}
             /\ sync[y].at = "moving" /\ sync[x].moved # NoCheckpoint
          \/ /\ sync[y].at = "storing" /\ sync[x].wrote \cap sync[y].page # {}
             /\ sync[x].at = "moving" /\ sync[y].moved # NoCheckpoint
    /\ RollbackSync(x)
    /\ UNCHANGED failures
-----------------------------------------------------------------------------
RunSync(x) ==
    \/ StartSync(x) \/ GetPage(x) \/ StoreEvents(x) \/ MoveCheckpoint(x)
    \/ CommitSync(x) \/ CheckpointRefused(x) \/ DeadlockVictim(x)

CollectionNext ==
    \/ TimePasses \/ ReportUsage \/ \E e \in Instants : ReportLate(e)
    \/ \E x \in Syncs : RunSync(x) \/ ErrorSwallowed(x) \/ ProviderFails(x) \/ AbortSync(x)

CollectionSpec == CollectionInit /\ [][CollectionNext]_collectionVars

(* The scheduler dispatches again and again, a run proceeds, time passes;  *)
(* PostgreSQL hands a row lock to the transaction that waits for it.       *)
CollectionFairness ==
    /\ WF_collectionVars(TimePasses)
    /\ \A x \in Syncs :
          /\ WF_collectionVars(RunSync(x))
          /\ SF_collectionVars(StoreEvents(x) \/ MoveCheckpoint(x))

CollectionFairSpec == CollectionSpec /\ CollectionFairness
-----------------------------------------------------------------------------
CollectionTypeOK ==
    /\ clock \in Instants /\ failures \in 0..MaxFailures
    /\ reported \subseteq Instants /\ late \subseteq reported
    /\ collected \subseteq reported /\ outdated \subseteq reported /\ unanswered \subseteq reported
    /\ {immediate, swallows} \subseteq BOOLEAN /\ invalid \subseteq Instants
    /\ checkpoint \in Checkpoints
    /\ \A x \in Syncs :
          /\ sync[x].page \subseteq reported /\ sync[x].wrote \subseteq reported
          /\ sync[x].at \in {"idle", "asking", "storing", "moving", "ending"}
          /\ sync[x].moved \in Checkpoints

(* A failed sync does not lose progress, nor usage: whatever the next run  *)
(* will not ask for again -- it is before the checkpoint, or before its    *)
(* cursor -- is stored, unless the provider reported it after its instant  *)
(* had been collected, a run began more than the lookback after it, its    *)
(* window was answered with a swallowed error, or the validator refuses    *)
(* it.                                                                     *)
Passed(e) == e < checkpoint.last \/ e <= checkpoint.cursor

NothingSkipped ==
    \A e \in reported :
        Passed(e) => e \in collected \cup late \cup outdated \cup unanswered \cup invalid

(* "The next sync resumes from the last successful checkpoint": usage that *)
(* was reported in time and is valid is stored in the end, or too old to   *)
(* be asked for.                                                           *)
EventuallyCollected ==
    \A e \in Instants \ {MaxTime} :
        e \in reported \ (late \cup invalid) ~> e \in collected \cup outdated \cup unanswered
=============================================================================
