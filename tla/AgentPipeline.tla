--------------------------- MODULE AgentPipeline ----------------------------
(***************************************************************************)
(* The delivery pipeline of the monitoring agent                           *)
(* (monitoring-agent/costorah_agent: agent.py, queue/, transport/): a      *)
(* collection task puts the events of each poll into a bounded memory      *)
(* queue that overflows to SQLite; a delivery task sends the memory queue  *)
(* and then the due SQLite rows, one event at a time; shutdown() cancels   *)
(* both tasks and flushes once more.                                       *)
(*                                                                         *)
(* Every SQLite call runs on a worker thread (asyncio.to_thread) and its   *)
(* task waits for it: a cancelled task leaves the call running.  Request   *)
(* ids are derived from the provider's data, so a later poll may collect   *)
(* an event again.                                                         *)
(***************************************************************************)
EXTENDS Naturals, SequencesExt

CONSTANTS
    RequestIds,     \* request ids
    MaxMemoryEvents,\* config.queue.max_memory_events
    AgentBatchSize, \* config.collection.batch_size
    MaxPolls,       \* bound: how often one event may be collected
    MayStop,        \* SIGTERM/SIGINT may request a stop
    MayCrash,       \* the process may be killed
    StoreErrors     \* a SQLite call may raise (locked database, full disk)

ASSUME AgentSizesAssumption ==
    MaxMemoryEvents \in Nat \ {0} /\ AgentBatchSize \in Nat \ {0} /\ MaxPolls \in Nat
ASSUME FaultsAssumption ==
    MayStop \in BOOLEAN /\ MayCrash \in BOOLEAN /\ StoreErrors \in BOOLEAN

VARIABLES
    polled,         \* polled[e]: how often e was collected
    fresh,          \* collected events the collection task has still to put
    inMemory,       \* the asyncio.Queue
    rows,           \* ids in SQLite, by created_at
    dueRows,        \* rows whose next_retry_at has passed
    tried,          \* rows with attempts > 0
    batch,          \* items the delivery task has still to attempt
    current,        \* the item being attempted, in a sequence of length 0 or 1
    phase,          \* which of the two drains of run_once is under way
    post,           \* its POST: none, sent, or taken by the API
    collector,      \* where the collection task is
    sender,         \* where the delivery task is
    orphans,        \* SQLite calls left running by a cancelled task
    life,           \* running, final flush, or closed
    accepted,       \* events put() was called with
    delivered, refusedByApi,
    agentLost       \* events whose copy in memory went away unsettled

agentStoreVars == <<rows, dueRows, tried>>
sendVars  == <<batch, current, phase, post, sender>>
inVars    == <<polled, fresh, collector>>
agentFateVars  == <<delivered, refusedByApi, agentLost>>
pipelineVars == <<inVars, inMemory, accepted, agentStoreVars, sendVars, orphans, life, agentFateVars>>

Item == [id : RequestIds, first : BOOLEAN]

Ids(items) == {items[i].id : i \in DOMAIN items}

FirstItems(s, n) == SubSeq(s, 1, IF Len(s) < n THEN Len(s) ELSE n)

DeliveryRuns == life \in {"running", "flushing"}

(* Everything the agent holds in volatile memory: the queue, the batch of  *)
(* the first drain, and the arguments of the INSERTs under way.            *)
AgentVolatile ==
    ToSet(inMemory)
        \cup (IF phase = "memory" THEN Ids(batch) \cup Ids(current) ELSE {})
        \cup (IF collector = "storing" THEN {Head(fresh)} ELSE {})
        \cup {o.id : o \in {p \in orphans : p.op = "save"}}

(* The last copy in memory of these events goes away in this step.         *)
NoteLoss == agentLost' = agentLost \cup (AgentVolatile \ AgentVolatile')
-----------------------------------------------------------------------------
PipelineInit ==
    /\ polled = [e \in RequestIds |-> 0]
    /\ fresh = <<>> /\ inMemory = <<>> /\ accepted = {}
    /\ rows = <<>> /\ dueRows = {} /\ tried = {}
    /\ batch = <<>> /\ current = <<>> /\ phase = "memory" /\ post = "none"
    /\ collector = "poll" /\ sender = "idle" /\ orphans = {} /\ life = "running"
    /\ delivered = {} /\ refusedByApi = {} /\ agentLost = {}
-----------------------------------------------------------------------------
(* The collection task                                                     *)

(* external: a provider's usage API returns up to two new or known events  *)
Collect ==
    /\ life = "running" /\ collector = "poll" /\ fresh = <<>>
    /\ \E e, f \in RequestIds :
          /\ polled[e] < MaxPolls /\ polled[f] < MaxPolls
          /\ fresh' = IF e = f THEN <<e>> ELSE <<e, f>>
          /\ polled' = [x \in RequestIds |-> IF x \in {e, f} THEN polled[x] + 1 ELSE polled[x]]
    /\ UNCHANGED <<inMemory, accepted, collector, agentStoreVars, sendVars, orphans, life, agentFateVars>>

NextFresh ==
    /\ life = "running" /\ collector = "poll" /\ fresh # <<>>
    /\ accepted' = accepted \cup {Head(fresh)}
    /\ UNCHANGED <<polled, agentStoreVars, sendVars, orphans, life, agentFateVars>>

PutInMemory ==
    /\ NextFresh
    /\ Len(inMemory) < MaxMemoryEvents
    /\ inMemory' = Append(inMemory, Head(fresh))
    /\ fresh' = Tail(fresh)
    /\ UNCHANGED collector

PutOverflows ==
    /\ NextFresh
    /\ Len(inMemory) >= MaxMemoryEvents
    /\ collector' = "storing"
    /\ UNCHANGED <<inMemory, fresh>>

(* Mutation: INSERT without a primary key to conflict with.              *)
InsertAgain(e) ==
    rows' = Append(rows, e) /\ dueRows' = dueRows \cup {e} /\ UNCHANGED tried

(* INSERT OR IGNORE ... attempts 0, next_retry_at now                      *)
Insert(e) ==
    IF e \in ToSet(rows)
    THEN UNCHANGED agentStoreVars
    ELSE rows' = Append(rows, e) /\ dueRows' = dueRows \cup {e} /\ UNCHANGED tried

OverflowStored ==
    /\ collector = "storing"
    /\ Insert(Head(fresh))
    /\ fresh' = Tail(fresh)
    /\ collector' = "poll"
    /\ UNCHANGED <<polled, inMemory, accepted, sendVars, orphans, life, agentFateVars>>

(* put() is called outside the try block of _collect_once: the exception   *)
(* ends the collection task.                                               *)
OverflowRaises ==
    /\ StoreErrors
    /\ collector = "storing"
    /\ collector' = "crashed"
    /\ fresh' = <<>>
    /\ UNCHANGED <<polled, inMemory, accepted, agentStoreVars, sendVars, orphans, life,
                   delivered, refusedByApi>>
    /\ NoteLoss

Collection == Collect \/ PutInMemory \/ PutOverflows \/ OverflowStored \/ OverflowRaises
-----------------------------------------------------------------------------
(* The delivery task: Sender.run_once                                      *)

Sending(from) == DeliveryRuns /\ sender = from

BeginRunOnce ==
    /\ Sending("idle")
    /\ LET taken == FirstItems(inMemory, AgentBatchSize)
       IN  /\ batch' = [i \in DOMAIN taken |-> [id |-> taken[i], first |-> TRUE]]
           /\ inMemory' = SubSeq(inMemory, Len(taken) + 1, Len(inMemory))
    /\ phase' = "memory"
    /\ sender' = "next"
    /\ UNCHANGED <<inVars, accepted, agentStoreVars, current, post, orphans, life, agentFateVars>>

Post ==
    /\ Sending("next")
    /\ batch # <<>>
    /\ current' = <<Head(batch)>>
    /\ batch' = Tail(batch)
    /\ post' = "sent"
    /\ sender' = "posting"
    /\ UNCHANGED <<inVars, inMemory, accepted, agentStoreVars, phase, orphans, life, agentFateVars>>

MemoryDrained ==
    /\ Sending("next")
    /\ batch = <<>> /\ phase = "memory"
    /\ sender' = "fetching"
    /\ UNCHANGED <<inVars, inMemory, accepted, agentStoreVars, batch, current, phase, post,
                   orphans, life, agentFateVars>>

(* Mutation: only rows that already failed are fetched.                  *)
FailedAt == {i \in DOMAIN rows : rows[i] \in dueRows \cap tried}

DueAt == {i \in DOMAIN rows : rows[i] \in dueRows}

(* ORDER BY created_at LIMIT batch_size: where the earliest due rows are   *)
EarliestDue ==
    LET size == IF Cardinality(DueAt) < AgentBatchSize THEN Cardinality(DueAt) ELSE AgentBatchSize
    IN  {found \in [1..size -> DueAt] :
            /\ \A i, j \in 1..size : i < j => found[i] < found[j]
            /\ \A i \in 1..size, at \in DueAt \ ToSet(found) : found[i] < at}

(* dequeue_due; attempt = attempts + 1                                     *)
FetchDue ==
    /\ Sending("fetching")
    /\ \E found \in EarliestDue :
          batch' = [i \in DOMAIN found |->
                       [id |-> rows[found[i]], first |-> rows[found[i]] \notin tried]]
    /\ phase' = "due"
    /\ sender' = "next"
    /\ UNCHANGED <<inVars, inMemory, accepted, agentStoreVars, current, post, orphans, life,
                   agentFateVars>>

(* run_once is over: the loop waits for its interval, or shutdown closes.  *)
PassOver == IF life = "flushing" THEN life' = "closed" ELSE UNCHANGED life

EndRunOnce ==
    /\ Sending("next")
    /\ batch = <<>> /\ phase = "due"
    /\ sender' = "idle"
    /\ PassOver
    /\ UNCHANGED <<inVars, inMemory, accepted, agentStoreVars, batch, current, phase, post,
                   orphans, agentFateVars>>

ApiTakes ==
    /\ post = "sent"
    /\ post' = "taken"
    /\ delivered' = delivered \cup {current[1].id}
    /\ UNCHANGED <<inVars, inMemory, accepted, agentStoreVars, batch, current, phase, sender,
                   orphans, life, refusedByApi, agentLost>>

Answered(to) ==
    /\ Sending("posting")
    /\ sender' = to
    /\ post' = "none"
    /\ UNCHANGED <<inVars, inMemory, accepted, agentStoreVars, batch, current, phase, orphans,
                   life, delivered, agentLost>>

(* 200, with or without `duplicate`                                        *)
AnswerDelivered == post = "taken" /\ Answered("removing") /\ UNCHANGED refusedByApi

(* 400, 404, 422                                                           *)
AnswerInvalid ==
    /\ post = "sent"
    /\ Answered("removing")
    /\ refusedByApi' = refusedByApi \cup {current[1].id}

(* Mutation: a first failure is marked but not stored.                   *)
AnswerRetryUnsaved == Answered("marking") /\ UNCHANGED refusedByApi

(* no answer, 401, 403, 5xx: also when the API did take the event          *)
AnswerRetry ==
    /\ Answered(IF current[1].first THEN "saving" ELSE "marking")
    /\ UNCHANGED refusedByApi

(* DELETE by the primary key                                               *)
Delete(e) ==
    /\ \/ \E i \in DOMAIN rows : rows[i] = e /\ rows' = RemoveAt(rows, i)
       \/ e \notin ToSet(rows) /\ UNCHANGED rows
    /\ dueRows' = dueRows \ {e}
    /\ tried' = tried \ {e}

BackOff(e) ==
    /\ UNCHANGED rows
    /\ dueRows' = dueRows \ {e}
    /\ tried' = IF e \in ToSet(rows) THEN tried \cup {e} ELSE tried

StoreCall(from, to) ==
    /\ Sending(from)
    /\ sender' = to
    /\ current' = IF to = "next" THEN <<>> ELSE current
    /\ UNCHANGED <<inVars, inMemory, accepted, batch, phase, post, orphans, life, agentFateVars>>

Removed == StoreCall("removing", "next") /\ Delete(current[1].id)
Saved   == StoreCall("saving", "marking") /\ Insert(current[1].id)
Marked  == StoreCall("marking", "next") /\ BackOff(current[1].id)

(* An exception out of a SQLite call leaves run_once: both loops catch it, *)
(* and the rest of the local batch goes with it.                           *)
StoreRaises ==
    /\ StoreErrors
    /\ Sending(sender) /\ sender \in {"fetching", "removing", "saving", "marking"}
    /\ batch' = <<>> /\ current' = <<>>
    /\ sender' = "idle"
    /\ PassOver
    /\ UNCHANGED <<inVars, inMemory, accepted, agentStoreVars, phase, post, orphans, delivered,
                   refusedByApi>>
    /\ NoteLoss

Sender ==
    \/ BeginRunOnce \/ Post \/ MemoryDrained \/ FetchDue \/ EndRunOnce \/ StoreRaises
    \/ AnswerDelivered \/ AnswerInvalid \/ AnswerRetry \/ Removed \/ Saved \/ Marked

DueAgain(e) ==
    /\ e \in ToSet(rows) \ dueRows
    /\ dueRows' = dueRows \cup {e}
    /\ UNCHANGED <<inVars, inMemory, accepted, rows, tried, sendVars, orphans, life, agentFateVars>>
-----------------------------------------------------------------------------
(* Agent.shutdown                                                          *)

(* The SQLite calls under way keep running on their threads.               *)
CallsUnderWay ==
    (IF collector = "storing" THEN {[op |-> "save", id |-> Head(fresh)]} ELSE {})
    \cup (CASE sender = "removing" -> {[op |-> "remove", id |-> current[1].id]}
            [] sender = "saving"   -> {[op |-> "save", id |-> current[1].id]}
            [] sender = "marking"  -> {[op |-> "mark", id |-> current[1].id]}
            [] OTHER            -> {})

(* Both tasks are cancelled at their await.  A collection task that ended  *)
(* with an exception hands it to shutdown(), which ends without flushing.  *)
Shutdown ==
    /\ MayStop
    /\ life = "running"
    /\ life' = IF collector = "crashed" THEN "closed" ELSE "flushing"
    /\ orphans' = orphans \cup CallsUnderWay
    /\ collector' = "stopped" /\ fresh' = <<>>
    /\ batch' = <<>> /\ current' = <<>> /\ post' = "none" /\ sender' = "idle"
    /\ UNCHANGED <<polled, inMemory, accepted, agentStoreVars, phase, delivered, refusedByApi>>
    /\ NoteLoss

OrphanRuns ==
    /\ \E o \in orphans :
          /\ orphans' = orphans \ {o}
          /\ CASE o.op = "remove" -> Delete(o.id)
               [] o.op = "save"   -> Insert(o.id)
               [] o.op = "mark"   -> BackOff(o.id)
    /\ UNCHANGED <<inVars, inMemory, accepted, sendVars, life, agentFateVars>>

(* The process ends, by itself or killed, and the service starts again.    *)
AgentRestarts ==
    /\ life = "closed" \/ MayCrash
    /\ fresh' = <<>> /\ inMemory' = <<>> /\ orphans' = {}
    /\ batch' = <<>> /\ current' = <<>> /\ post' = "none"
    /\ collector' = "poll" /\ sender' = "idle" /\ phase' = "memory" /\ life' = "running"
    /\ UNCHANGED <<polled, accepted, agentStoreVars, delivered, refusedByApi>>
    /\ NoteLoss
-----------------------------------------------------------------------------
PipelineNext ==
    \/ Collection \/ Sender \/ ApiTakes
    \/ \E e \in RequestIds : DueAgain(e)
    \/ Shutdown \/ OrphanRuns \/ AgentRestarts

PipelineSpec == PipelineInit /\ [][PipelineNext]_pipelineVars

(* The event loop runs both tasks, threads finish, delays expire, and an   *)
(* event sent again and again is taken and answered in the end.            *)
PipelineFairness ==
    /\ WF_pipelineVars(OverflowStored)
    /\ WF_pipelineVars(Sender)
    /\ WF_pipelineVars(OrphanRuns)
    /\ \A e \in RequestIds :
          /\ WF_pipelineVars(DueAgain(e))
          /\ SF_pipelineVars(ApiTakes /\ current[1].id = e)
          /\ SF_pipelineVars(AnswerDelivered /\ current[1].id = e)

PipelineFairSpec == PipelineSpec /\ PipelineFairness
-----------------------------------------------------------------------------
PipelineTypeOK ==
    /\ polled \in [RequestIds -> 0..MaxPolls]
    /\ {fresh, inMemory, rows} \subseteq Seq(RequestIds) /\ Len(inMemory) <= MaxMemoryEvents
    /\ dueRows \subseteq ToSet(rows) /\ tried \subseteq ToSet(rows)
    /\ {batch, current} \subseteq Seq(Item) /\ Len(current) <= 1
    /\ phase \in {"memory", "due"} /\ post \in {"none", "sent", "taken"}
    /\ collector \in {"poll", "storing", "crashed", "stopped"}
    /\ sender \in {"idle", "next", "posting", "fetching", "removing", "saving", "marking"}
    /\ orphans \subseteq [op : {"save", "mark", "remove"}, id : RequestIds]
    /\ life \in {"running", "flushing", "closed"}
    /\ accepted \cup delivered \cup refusedByApi \cup agentLost \subseteq RequestIds

(* SQLite holds one row per event: overflow, first failures and re-polled  *)
(* copies of the same event never make two (two would be sent forever).    *)
OneRowPerEvent == IsInjective(rows)

(* The agent keeps the promise of AtLeastOnceDelivery: rows are durable,   *)
(* everything else is volatile.                                            *)
AgentDelivery ==
    INSTANCE AtLeastOnceDelivery WITH
        Events   <- RequestIds,
        buffered <- AgentVolatile,
        durable  <- ToSet(rows),
        received <- delivered,
        rejected <- refusedByApi,
        dropped  <- agentLost

AgentImplementsDelivery == AgentDelivery!Spec

(* "Never lose telemetry" (sqlite_store.py): while the agent runs          *)
(* undisturbed, every event it accepted is received or rejected in the     *)
(* end, overflow and retries included.                                     *)
EveryRequestIdSettles ==
    \A e \in RequestIds : e \in accepted ~> e \in delivered \cup refusedByApi
=============================================================================
