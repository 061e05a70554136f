----------------------------- MODULE SdkWorker ------------------------------
(***************************************************************************)
(* The delivery pipeline of the Python SDK                                 *)
(* (sdk/python/costorah/reliability/): application threads put events into *)
(* a bounded memory queue; a background thread drains it into a SQLite     *)
(* queue, posts what is due concurrently through the circuit breaker, and  *)
(* acknowledges, reschedules or drops each event by its answer.            *)
(*                                                                         *)
(* Application threads (Put..., Health), a thread that calls flush() again *)
(* and again, one that calls shutdown(), and the worker interleave; track  *)
(* and flush may also be called while shutdown() is under way and after    *)
(* it.  Within the worker every action runs from one await, lock or        *)
(* autocommitted statement to the next.                                    *)
(***************************************************************************)
EXTENDS CircuitBreaker

CONSTANTS
    QueueSize,      \* capacity of the memory queue
    BatchSize,      \* events taken per pass
    MaxConcurrent,  \* permits of the pass's semaphore
    Policy,         \* overflow policy of the memory queue
    Durable,        \* persistent_queue=True: the SQLite queue is a file
    RetryEnabled,   \* the `retry` option
    Refusals,       \* whether the API may answer with a permanent 4xx
    Poison          \* events whose metadata json.dumps refuses: track() does
                    \* not look at it

ASSUME SizesAssumption ==
    QueueSize \in Nat \ {0} /\ BatchSize \in Nat \ {0} /\ MaxConcurrent \in Nat \ {0}
ASSUME OptionsAssumption ==
    /\ Policy \in {"drop_newest", "drop_oldest", "block"}
    /\ Durable \in BOOLEAN /\ RetryEnabled \in BOOLEAN /\ Refusals \in BOOLEAN
    /\ Poison \subseteq Events

VARIABLES
    arrival,    \* position of an event in the order it entered the memory
                \* queue; 0 if it never did.  deque order, created_at order
                \* and the order within a batch are all this order
    memory,     \* events in MemoryQueue._items
    blocked,    \* events whose put() waits for room (policy "block")
    refused,    \* events put() answered False for
    evicted,    \* queued events pushed out by drop_oldest
    handoff,    \* popped from memory, not yet inserted: the local `batch`
    stored,     \* rows of the SQLite queue
    due,        \* rows with next_retry_at <= now
    waiting,    \* events of the current gather that have not started
    wire,       \* wire[e]: the POST of e: not sent, sent, or taken by the API
    wpc,        \* where the worker thread is
    final,      \* the worker is in the drain pass after the stop event
    stop,       \* _stop_event
    open,       \* the SQLite connection is open
    cpc,        \* where the thread that calls flush() is
    asked,      \* events queued when it called
    received,   \* events the API has taken at least once
    rejected,   \* events given up after an answer
    lost        \* events that went away with a process or a :memory: queue

queueVars  == <<arrival, memory, blocked, refused, evicted>>
storeVars  == <<handoff, stored, due>>
workerVars == <<waiting, wpc, final>>
callerVars == <<stop, open, cpc, asked>>
fateVars   == <<received, rejected, lost>>

vars == <<queueVars, storeVars, workerVars, callerVars, fateVars, wire, cbVars>>

Queued == {e \in Events : arrival[e] > 0}

Fresh(e) == arrival[e] = 0 /\ e \notin blocked \cup refused

InFlight == {e \in Events : calls[e] # "idle"}

(* The first n events of S: popleft, ORDER BY created_at LIMIT n, FIFO.    *)
FirstOf(S, n) ==
    {e \in S : Cardinality({f \in S : arrival[f] < arrival[e]}) < n}

HasRoom == Cardinality(memory) < QueueSize
-----------------------------------------------------------------------------
Init ==
    /\ CBInit
    /\ arrival = [e \in Events |-> 0]
    /\ memory = {} /\ blocked = {} /\ refused = {} /\ evicted = {}
    /\ handoff = {} /\ stored = {} /\ due = {}
    /\ waiting = {} /\ wpc = "check" /\ final = FALSE
    /\ stop = FALSE /\ open = TRUE
    /\ cpc = "app" /\ asked = {}
    /\ received = {} /\ rejected = {} /\ lost = {}
    /\ wire = [e \in Events |-> "none"]

-----------------------------------------------------------------------------
(* MemoryQueue.put, called by track() on any application thread            *)

EnterMemory(e, kept) ==
    /\ arrival' = [arrival EXCEPT ![e] = Cardinality(Queued) + 1]
    /\ memory' = kept \cup {e}

Put(e) ==
    /\ Fresh(e)
    /\ HasRoom
    /\ EnterMemory(e, memory)
    /\ UNCHANGED <<blocked, refused, evicted>>

PutDropNewest(e) ==
    /\ Fresh(e)
    /\ ~HasRoom
    /\ Policy = "drop_newest"
    /\ refused' = refused \cup {e}
    /\ UNCHANGED <<arrival, memory, blocked, evicted>>

PutDropOldest(e) ==
    /\ Fresh(e)
    /\ ~HasRoom
    /\ Policy = "drop_oldest"
    /\ LET oldest == FirstOf(memory, 1)
       IN  /\ EnterMemory(e, memory \ oldest)
           /\ evicted' = evicted \cup oldest
    /\ UNCHANGED <<blocked, refused>>

PutBlocks(e) ==
    /\ Fresh(e)
    /\ ~HasRoom
    /\ Policy = "block"
    /\ blocked' = blocked \cup {e}
    /\ UNCHANGED <<arrival, memory, refused, evicted>>

BlockedPutEnters(e) ==
    /\ e \in blocked
    /\ HasRoom
    /\ blocked' = blocked \ {e}
    /\ EnterMemory(e, memory)
    /\ UNCHANGED <<refused, evicted>>

BlockedPutTimesOut(e) ==
    /\ e \in blocked
    /\ ~HasRoom
    /\ blocked' = blocked \ {e}
    /\ refused' = refused \cup {e}
    /\ UNCHANGED <<arrival, memory, evicted>>

Track(e) ==
    /\ \/ Put(e) \/ PutDropNewest(e) \/ PutDropOldest(e) \/ PutBlocks(e)
       \/ BlockedPutEnters(e) \/ BlockedPutTimesOut(e)
    /\ UNCHANGED <<storeVars, workerVars, callerVars, fateVars, wire, cbVars>>

(* client.health() reads the breaker's state on an application thread      *)
Health ==
    /\ Observe
    /\ UNCHANGED <<queueVars, storeVars, workerVars, callerVars, fateVars, wire>>

-----------------------------------------------------------------------------
(* BackgroundWorker._run and _pass                                         *)

EndPass == wpc' = IF final THEN "exited" ELSE "check"

BeginPass ==
    /\ wpc = "check"
    /\ wpc' = "drain"
    /\ final' = stop
    /\ UNCHANGED <<queueVars, storeVars, waiting, callerVars, fateVars, wire, cbVars>>

(* Mutation: get_batch copies instead of popping.                        *)
GetBatchCopies ==
    /\ wpc = "drain"
    /\ handoff' = FirstOf(memory, BatchSize)
    /\ wpc' = "persist"
    /\ UNCHANGED <<queueVars, stored, due, waiting, final, callerVars, fateVars, wire, cbVars>>

(* get_batch: pops up to BatchSize events into a local list                *)
GetBatch ==
    /\ wpc = "drain"
    /\ handoff' = FirstOf(memory, BatchSize)
    /\ memory' = memory \ handoff'
    /\ wpc' = "persist"
    /\ UNCHANGED <<arrival, blocked, refused, evicted, stored, due, waiting, final,
                   callerVars, fateVars, wire, cbVars>>

(* Mutation: the rest of the batch is forgotten after one row.           *)
PersistOneOnly ==
    /\ wpc = "persist"
    /\ open
    /\ \E e \in FirstOf(handoff, 1) : stored' = stored \cup {e} /\ due' = due \cup {e}
    /\ handoff' = {}
    /\ UNCHANGED <<queueVars, workerVars, callerVars, fateVars, wire, cbVars>>

(* enqueue_many serialises the batch before its first INSERT: one event    *)
(* that json.dumps refuses raises, and ends the thread.                    *)
Serializable == handoff \cap Poison = {}

RaiseOnPoison ==
    /\ wpc = "persist"
    /\ ~Serializable
    /\ wpc' = "dead"
    /\ UNCHANGED <<queueVars, storeVars, waiting, final, callerVars, fateVars, wire, cbVars>>

(* Then each INSERT of the executemany commits by itself.                  *)
PersistOne ==
    /\ wpc = "persist"
    /\ Serializable
    /\ open
    /\ \E e \in FirstOf(handoff, 1) :
          /\ handoff' = handoff \ {e}
          /\ stored' = stored \cup {e}
          /\ due' = due \cup {e}
    /\ UNCHANGED <<queueVars, workerVars, callerVars, fateVars, wire, cbVars>>

(* The breaker's state decides whether the pass goes on to dequeue_due.    *)
SkipDelivery ==
    /\ wpc = "persist"
    /\ handoff = {}
    /\ Observe
    /\ \/ Current(breaker).state = "open"
       \/ open /\ due = {}
    /\ EndPass
    /\ UNCHANGED <<queueVars, storeVars, waiting, final, callerVars, fateVars, wire>>

StartDelivery ==
    /\ wpc = "persist"
    /\ handoff = {}
    /\ Observe
    /\ Current(breaker).state # "open"
    /\ open
    /\ due # {}
    /\ waiting' = FirstOf(due, BatchSize)
    /\ wpc' = "deliver"
    /\ UNCHANGED <<queueVars, storeVars, final, callerVars, fateVars, wire>>

(* INSERT or SELECT on a connection shutdown() has closed raises and ends  *)
(* the thread.                                                             *)
RaiseOnClosed ==
    /\ wpc = "persist"
    /\ ~open
    /\ \/ handoff # {} /\ UNCHANGED cbVars
       \/ handoff = {} /\ Observe /\ Current(breaker).state # "open"
    /\ wpc' = "dead"
    /\ UNCHANGED <<queueVars, storeVars, waiting, final, callerVars, fateVars, wire>>

FinishPass ==
    /\ wpc = "deliver"
    /\ waiting = {}
    /\ InFlight = {}
    /\ EndPass
    /\ UNCHANGED <<queueVars, storeVars, waiting, final, callerVars, fateVars, wire, cbVars>>
-----------------------------------------------------------------------------
(* _deliver_one for each event of the gather                               *)

(* Tasks start in batch order as the semaphore has permits.                *)
NextToStart(e) ==
    /\ wpc = "deliver"
    /\ e \in FirstOf(waiting, 1)
    /\ Cardinality(InFlight) < MaxConcurrent
    /\ waiting' = waiting \ {e}

Send(e) ==
    /\ NextToStart(e)
    /\ Allow(e)
    /\ wire' = [wire EXCEPT ![e] = "sent"]
    /\ UNCHANGED <<queueVars, storeVars, wpc, final, callerVars, fateVars>>

TurnAway(e) ==
    /\ NextToStart(e)
    /\ Refuse(e)
    /\ UNCHANGED <<queueVars, storeVars, wpc, final, callerVars, fateVars, wire>>

(* external: the API commits the event; the answer is still on its way     *)
ApiAccepts(e) ==
    /\ wire[e] = "sent"
    /\ wire' = [wire EXCEPT ![e] = "taken"]
    /\ received' = received \cup {e}
    /\ UNCHANGED <<queueVars, storeVars, workerVars, callerVars, rejected, lost, cbVars>>

(* An answer (or the exception that stands for its loss) resumes the task. *)
Resume(e) ==
    /\ wpc \in {"deliver", "dying"}
    /\ wire[e] # "none"
    /\ wire' = [wire EXCEPT ![e] = "none"]
    /\ UNCHANGED <<queueVars, handoff, waiting, final, callerVars, received, lost>>

(* A statement on a closed connection raises out of the gather.            *)
Raise ==
    /\ ~open
    /\ wpc' = "dying"
    /\ UNCHANGED <<stored, due, rejected>>

Ack(e) ==
    /\ open
    /\ stored' = stored \ {e}
    /\ due' = due \ {e}
    /\ UNCHANGED wpc

AnswerOk(e) ==
    /\ wire[e] = "taken"
    /\ Resume(e)
    /\ Succeed(e)
    /\ \/ Ack(e) /\ UNCHANGED rejected
       \/ Raise

(* Mutation: a transient failure acknowledges the event.                 *)
AnswerTransientAcks(e) ==
    /\ RetryEnabled
    /\ Resume(e)
    /\ Fail(e)
    /\ UNCHANGED rejected
    /\ Ack(e) \/ Raise

(* network error, 408, 429, 5xx: also when the API did take the event and  *)
(* only its answer was lost                                                *)
AnswerTransient(e) ==
    /\ RetryEnabled
    /\ Resume(e)
    /\ Fail(e)
    /\ \/ /\ open
          /\ due' = due \ {e}
          /\ UNCHANGED <<stored, rejected, wpc>>
       \/ Raise

GiveUp(e) ==
    /\ Resume(e)
    /\ Unreported(e)
    /\ \/ Ack(e) /\ rejected' = rejected \cup {e}
       \/ Raise

(* retry=False: any failure drops the event                                *)
AnswerUnretried(e) == ~RetryEnabled /\ GiveUp(e)

(* a 4xx that is_retryable refuses                                         *)
AnswerPermanent(e) == RetryEnabled /\ Refusals /\ wire[e] = "sent" /\ GiveUp(e)

Answer(e) ==
    AnswerOk(e) \/ AnswerTransient(e) \/ AnswerUnretried(e) \/ AnswerPermanent(e)

(* The exception has left _thread_main: the event loop is closed under the *)
(* tasks still waiting for answers.                                        *)
Die ==
    /\ wpc = "dying"
    /\ wpc' = "dead"
    /\ wire' = [e \in Events |-> "none"]
    /\ Abandon
    /\ UNCHANGED <<queueVars, storeVars, waiting, final, callerVars, fateVars>>
-----------------------------------------------------------------------------
(* time                                                                    *)

RetryDue(e) ==
    /\ e \in stored \ due
    /\ due' = due \cup {e}
    /\ UNCHANGED <<queueVars, handoff, stored, workerVars, callerVars, fateVars,
                   wire, cbVars>>

RecoveryTimeout ==
    /\ Elapse
    /\ UNCHANGED <<queueVars, storeVars, workerVars, callerVars, fateVars, wire>>
-----------------------------------------------------------------------------
(* flush(), polling from a caller's thread                                 *)

Flush ==
    /\ cpc = "app"
    /\ cpc' = "memory"
    /\ asked' = Queued
    /\ UNCHANGED <<queueVars, storeVars, workerVars, stop, open, fateVars, wire, cbVars>>

Poll(next) ==
    /\ cpc' = next
    /\ UNCHANGED <<queueVars, storeVars, workerVars, stop, open, asked, fateVars,
                   wire, cbVars>>

(* memory_queue.is_empty() and persistent_queue.count() are two reads.     *)
MemoryLooksEmpty == cpc = "memory" /\ memory = {} /\ Poll("store")

(* Mutation: flush() asks the memory queue only.                         *)
StoreUnread == cpc = "store" /\ Poll("drained")

(* A closed store counts 0, whatever its file still holds.                 *)
Count == IF open THEN stored ELSE {}

StoreLooksEmpty == cpc = "store" /\ Count = {} /\ Poll("drained")

StoreLooksFull == cpc = "store" /\ Count # {} /\ Poll("memory")

(* The deadline, or close() between the check and the SELECT of count()    *)
FlushGivesUp ==
    /\ \/ cpc = "memory" /\ memory # {}
       \/ cpc = "store" /\ (Count # {} \/ ~open)
    /\ Poll("app")

FlushReturns == cpc = "drained" /\ Poll("app")
-----------------------------------------------------------------------------
(* shutdown() flushes first, for as long as its timeout allows and whatever *)
(* the answer, and that flush changes nothing.                             *)
SignalStop ==
    /\ ~stop
    /\ stop' = TRUE
    /\ UNCHANGED <<queueVars, storeVars, workerVars, open, cpc, asked, fateVars,
                   wire, cbVars>>

(* close(): an in-memory database goes away with its connection            *)
CloseStore ==
    /\ stop /\ open
    /\ open' = FALSE
    /\ IF Durable
       THEN UNCHANGED <<stored, due, lost>>
       ELSE stored' = {} /\ due' = {} /\ lost' = lost \cup stored
    /\ UNCHANGED <<queueVars, handoff, workerVars, stop, cpc, asked, received,
                   rejected, wire, cbVars>>

CloseAfterExit == wpc \in {"exited", "dead"} /\ CloseStore

(* join(timeout) gives up on a worker that is still busy                   *)
CloseUnderWorker == wpc \notin {"exited", "dead"} /\ CloseStore
-----------------------------------------------------------------------------
(* The process ends, at any point, and a new one constructs a client with  *)
(* the same API key: the rows of a file are found again.                   *)
Volatile == memory \cup handoff \cup IF Durable THEN {} ELSE stored

NewProcess ==
    /\ Renew
    /\ memory' = {} /\ blocked' = {} /\ refused' = refused \cup blocked
    /\ handoff' = {}
    /\ IF Durable THEN UNCHANGED <<stored, due>> ELSE stored' = {} /\ due' = {}
    /\ waiting' = {} /\ wpc' = "check" /\ final' = FALSE
    /\ stop' = FALSE /\ open' = TRUE
    /\ cpc' = "app" /\ asked' = {}
    /\ wire' = [e \in Events |-> "none"]
    /\ lost' = lost \cup Volatile
    /\ UNCHANGED <<arrival, evicted, received, rejected>>
-----------------------------------------------------------------------------
Worker == BeginPass \/ GetBatch \/ PersistOne \/ SkipDelivery \/ StartDelivery
          \/ RaiseOnPoison \/ RaiseOnClosed \/ FinishPass \/ Die
          \/ \E e \in Events : Send(e) \/ TurnAway(e)

Caller == Flush \/ MemoryLooksEmpty \/ StoreLooksEmpty \/ StoreLooksFull \/ FlushGivesUp
          \/ FlushReturns \/ SignalStop \/ CloseAfterExit \/ CloseUnderWorker

Running ==
    \/ Worker
    \/ Health
    \/ RecoveryTimeout
    \/ \E e \in Events : Track(e) \/ ApiAccepts(e) \/ Answer(e) \/ RetryDue(e)

Next ==
    \/ Running
    \/ Caller
    \/ NewProcess

Spec == Init /\ [][Next]_vars

(* The worker's thread keeps running, timers fire, and an API that is asked *)
(* again and again about one event answers 200 in the end.  Only for a      *)
(* process that is neither shut down nor killed.                            *)
Fairness ==
    /\ WF_vars(Worker)
    /\ WF_vars(RecoveryTimeout)
    /\ \A e \in Events :
          /\ WF_vars(RetryDue(e))
          /\ WF_vars(Answer(e))
          /\ SF_vars(ApiAccepts(e))
          /\ SF_vars(AnswerOk(e))

RunningSpec == Init /\ [][Running]_vars /\ Fairness
-----------------------------------------------------------------------------
TypeOK ==
    /\ CBTypeOK
    /\ arrival \in [Events -> 0..Cardinality(Events)]
    /\ memory \subseteq Queued /\ blocked \subseteq Events /\ refused \subseteq Events
    /\ evicted \subseteq Queued /\ handoff \subseteq Queued
    /\ stored \subseteq Queued /\ due \subseteq stored
    /\ waiting \subseteq Events /\ wire \in [Events -> {"none", "sent", "taken"}]
    /\ wpc \in {"check", "drain", "persist", "deliver", "dying", "dead", "exited"}
    /\ final \in BOOLEAN /\ stop \in BOOLEAN /\ open \in BOOLEAN
    /\ cpc \in {"app", "memory", "store", "drained"} /\ asked \subseteq Queued
    /\ received \subseteq Queued /\ rejected \subseteq Queued /\ lost \subseteq Queued

(* An event is held in one place at a time: a hand-over between the queues *)
(* (get_batch, executemany, eviction) neither copies nor forgets one.      *)
OneHome ==
    /\ memory \cap handoff = {}
    /\ (memory \cup handoff) \cap stored = {}
    /\ evicted \cap (memory \cup handoff \cup stored) = {}

(* While the store is open, whatever is being posted or waits for a permit *)
(* still has its row: a crash during the POST cannot lose the event, and   *)
(* no event is sent again after it was acknowledged.                       *)
InFlightIsStored ==
    open => waiting \cup InFlight \subseteq stored

(* An event dropped after an answer is gone for good: it is not queued and *)
(* never posted again ("never retried", test_worker.py).                   *)
RejectedForGood ==
    rejected \cap (memory \cup handoff \cup stored) = {}

(* The pipeline keeps the promise of AtLeastOnceDelivery: memory, handoff  *)
(* and a :memory: queue are volatile, rows of a file are durable.          *)
Delivery ==
    INSTANCE AtLeastOnceDelivery WITH
        accepted <- Queued,
        buffered <- Volatile,
        durable  <- IF Durable THEN stored ELSE {},
        dropped  <- evicted \cup lost

ImplementsDelivery == Delivery!Spec

(* Every event that was queued is in a queue, or was received, rejected,   *)
(* evicted, or lost with a process: nothing falls between two stages.      *)
NothingVanishes == Delivery!NothingVanishes

(* The docs' "COSTORAH will receive every event that was successfully      *)
(* queued and did not receive a permanent rejection" (RELIABILITY.md),     *)
(* until the worker has taken an event that cannot be serialised.          *)
EveryEventSettles ==
    \A e \in Events :
        e \in Queued ~> e \in received \cup rejected \cup evicted \/ ~Serializable

(* flush() reports a drained queue after two reads, of the memory queue    *)
(* and then of the store: what it overlooks is what the worker has popped  *)
(* and not yet stored, at most one batch, and, once the store was closed   *)
(* under it or before it, the rows that are left in the file.              *)
FlushMissesAtMostABatch ==
    cpc = "drained" =>
        LET settled == received \cup rejected \cup evicted \cup lost
            inFile  == IF open THEN {} ELSE stored
        IN  Cardinality(asked \ (settled \cup inFile)) <= BatchSize
=============================================================================
