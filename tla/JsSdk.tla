------------------------------- MODULE JsSdk --------------------------------
(***************************************************************************)
(* The delivery pipeline of the JavaScript SDK                             *)
(* (sdk/javascript/src/reliability/).  It has the shape of SdkWorker's but *)
(* no threads: one event loop runs track(), the passes of the worker and   *)
(* the answers of its requests, each without interruption up to its next   *)
(* await.  The second queue is a Map mirrored to an append-only log by a   *)
(* chain of promises, so the log follows the Map late, and a write that    *)
(* fails ends the chain.                                                   *)
(*                                                                         *)
(* circuitBreaker.ts is the Python class in another language: the          *)
(* operators on a breaker's fields are those of BreakerState.              *)
(***************************************************************************)
EXTENDS BreakerState, SequencesExt

CONSTANTS
    JsEvents,
    Poison,          \* events JSON.stringify() refuses (a BigInt, a cycle in metadata)
    MaxSize,         \* capacity of the memory queue
    JsBatchSize,     \* events drained and delivered per pass
    JsConcurrent,    \* deliveries started together
    OverflowPolicies, PersistentQueues, \* the options of the clients that are run
    CompactEvery,    \* log lines between two compactions
    JsRefusals,      \* the API may answer with a permanent 4xx
    JsCalls,         \* the calls besides track(): of "flush", "shutdown"
    JsCrashes,       \* bound: how often the process is replaced
    DiskErrors,      \* reading or writing the log may fail
    MaxAppends,      \* bound: lines waiting to be written when a pass begins
    MaxPosts         \* bound: requests with one event when a pass begins

ASSUME JsSizesAssumption ==
    /\ {MaxSize, JsBatchSize, JsConcurrent, CompactEvery} \subseteq Nat \ {0}
    /\ Poison \subseteq JsEvents
    /\ OverflowPolicies \subseteq {"drop_newest", "drop_oldest", "block"}
    /\ PersistentQueues \subseteq BOOLEAN
    /\ JsCalls \subseteq {"flush", "shutdown"}

VARIABLES
    policy, file,   \* the options: overflowPolicy, and whether the log is a file
    buffer,         \* MemoryQueue.items
    waiters,        \* MemoryQueue.waiters, the settled ones included
    awaiting,       \* events whose put() waits for room
    woken,          \* events whose put() was woken and has not gone on yet
    turnedAway,     \* events put() answered false for
    pushedOut,      \* events evicted by drop_oldest
    kept,           \* the Map of PersistentQueue, oldest first
    later,          \* its rows whose nextRetryAt is in the future
    appends,        \* lines chained to writeQueue and not yet written
    written,        \* lines since the last compaction
    snapshot,       \* what a compaction under way will rename over the log
    broken,         \* writeQueue was rejected
    disk,           \* what replaying the log would rebuild
    torn,           \* the log ends in half a line
    overlooked,     \* a log with rows was taken for a log that is not there
    ready,          \* replay(): "replaying", "yes" or "failed"
    gate,           \* the circuit breaker
    loop,           \* the worker: between passes, in one, or stopped
    slice, todo,    \* deliveries this pass starts now, and after those
    sent, taken,    \* requests with an event: on their way, taken by the API
    caller,         \* where the call of flush() or shutdown() is
    flushed,        \* events queued when it was called
    replaced,       \* how often the process was replaced
    arrived, rejectedByApi, \* events the API took; events given up on an answer
    spilled         \* events that went away with a process or a failed pass

optionVars == <<policy, file>>
bufferVars == <<buffer, waiters, awaiting, woken, turnedAway, pushedOut>>
logVars    == <<appends, written, snapshot, broken, disk, torn>>
readyVars  == <<ready, overlooked>>
passVars   == <<loop, slice, todo>>
postVars   == <<sent, taken>>
callVars   == <<caller, flushed>>
endVars    == <<arrived, rejectedByApi, spilled>>
jsVars == <<optionVars, bufferVars, kept, later, logVars, readyVars, gate, passVars, postVars,
            callVars, replaced, endVars>>

NotCompacting == [on |-> FALSE, rows |-> <<>>]

FirstOnes(s, n) == SubSeq(s, 1, Min({n, Len(s)}))
AfterFirst(s, n) == SubSeq(s, Min({n, Len(s)}) + 1, Len(s))

Buffered == ToSet(buffer)
Kept == ToSet(kept)
OnDisk == ToSet(disk)
Requested == {e \in JsEvents : sent[e] + taken[e] > 0}

(* Events track() was ever called with and told they are queued.           *)
JsQueued == Buffered \cup Kept \cup OnDisk \cup pushedOut \cup arrived \cup rejectedByApi \cup spilled

Untracked(e) == e \notin JsQueued \cup awaiting \cup woken \cup turnedAway

(* Nothing is in the middle of its synchronous part.                       *)
LoopIsFree == slice = <<>> /\ woken = {}
-----------------------------------------------------------------------------
JsInit ==
    /\ policy \in OverflowPolicies /\ file \in PersistentQueues
    /\ buffer = <<>> /\ waiters = <<>> /\ awaiting = {} /\ woken = {}
    /\ turnedAway = {} /\ pushedOut = {}
    /\ kept = <<>> /\ later = {}
    /\ appends = <<>> /\ written = 0 /\ snapshot = NotCompacting /\ broken = FALSE
    /\ disk = <<>> /\ torn = FALSE
    /\ ready = IF file THEN "replaying" ELSE "yes"
    /\ overlooked = FALSE
    /\ gate = NewBreaker
    /\ loop = "timer" /\ slice = <<>> /\ todo = <<>>
    /\ sent = [e \in JsEvents |-> 0] /\ taken = [e \in JsEvents |-> 0]
    /\ caller = "app" /\ flushed = {}
    /\ replaced = 0
    /\ arrived = {} /\ rejectedByApi = {} /\ spilled = {}
-----------------------------------------------------------------------------
(* MemoryQueue.put: synchronous up to the wait for room                    *)
PutInRoom(e) ==
    /\ Len(buffer) < MaxSize
    /\ buffer' = Append(buffer, e)
    /\ UNCHANGED <<waiters, awaiting, woken, turnedAway, pushedOut>>

PutFull(e) ==
    /\ Len(buffer) >= MaxSize
    /\ CASE policy = "drop_newest" ->
                /\ turnedAway' = turnedAway \cup {e}
                /\ UNCHANGED <<buffer, waiters, awaiting, pushedOut>>
         [] policy = "drop_oldest" ->
                /\ buffer' = Append(Tail(buffer), e)
                /\ pushedOut' = pushedOut \cup {Head(buffer)}
                /\ UNCHANGED <<waiters, awaiting, turnedAway>>
         [] policy = "block" ->
                /\ waiters' = Append(waiters, e)
                /\ awaiting' = awaiting \cup {e}
                /\ UNCHANGED <<buffer, turnedAway, pushedOut>>
    /\ UNCHANGED woken

(* The waiter that gave up stays in `waiters`, where it will use up the    *)
(* next wake-up.                                                           *)
WaitTimesOut(e) ==
    /\ e \in awaiting
    /\ awaiting' = awaiting \ {e}
    /\ turnedAway' = turnedAway \cup {e}
    /\ UNCHANGED <<buffer, waiters, woken, pushedOut>>

(* The woken put() does not look at the size again.                        *)
WokenPushes(e) ==
    /\ e \in woken
    /\ woken' = woken \ {e}
    /\ buffer' = Append(buffer, e)
    /\ UNCHANGED <<waiters, awaiting, turnedAway, pushedOut>>

(* notifyRoom, after a batch left `left` in the buffer: one waiter         *)
NotifyRoom(left) ==
    IF waiters # <<>> /\ Len(left) < MaxSize
    THEN /\ waiters' = Tail(waiters)
         /\ awaiting' = awaiting \ {Head(waiters)}
         /\ woken' = woken \cup ({Head(waiters)} \cap awaiting)
    ELSE UNCHANGED <<waiters, awaiting, woken>>

JsTrack(e) ==
    /\ Untracked(e)
    /\ PutInRoom(e) \/ PutFull(e)

TrackGoesOn(e) == WaitTimesOut(e) \/ WokenPushes(e)
-----------------------------------------------------------------------------
(* appendLog: chained, unless there is no file; a rejected chain runs      *)
(* nothing any more.                                                       *)
Log(lines) ==
    /\ appends' = IF file /\ ~broken THEN appends \o lines ELSE appends
    /\ UNCHANGED <<written, snapshot, broken, disk, torn>>

Line(op, e) == [op |-> op, id |-> e]

(* enqueueMany: appendLog serialises the row it has just put in the Map,   *)
(* so an event JSON.stringify() refuses ends the loop over the batch.      *)
Unserializable(batch) == {i \in DOMAIN batch : file /\ batch[i] \in Poison}

Enqueued(batch) == IF Unserializable(batch) = {} THEN batch
                   ELSE FirstOnes(batch, Min(Unserializable(batch)))
Logged(batch) == IF Unserializable(batch) = {} THEN batch
                 ELSE FirstOnes(batch, Min(Unserializable(batch)) - 1)

(* getBatch and enqueueMany; an exception in the latter loses the rest of  *)
(* the batch and ends the pass.                                            *)
Drain(batch) ==
    /\ buffer' = AfterFirst(buffer, JsBatchSize)
    /\ IF batch = <<>> THEN UNCHANGED <<waiters, awaiting, woken>> ELSE NotifyRoom(buffer')
    /\ UNCHANGED <<turnedAway, pushedOut>>
    /\ kept' = kept \o Enqueued(batch)
    /\ Log([i \in DOMAIN Logged(batch) |-> Line("put", batch[i])])
    /\ spilled' = spilled \cup (ToSet(batch) \ ToSet(Enqueued(batch)))

(* dequeueDue: where the first rows are whose nextRetryAt has come         *)
DueRows ==
    LET at == {k \in DOMAIN kept' : kept'[k] \notin later}
    IN  {found \in [1..Min({JsBatchSize, Cardinality(at)}) -> at] :
            \A i \in DOMAIN found : {k \in at : k < found[i]} = {found[j] : j \in 1..i - 1}}

StartDeliveries(due) ==
    /\ loop' = "delivering"
    /\ slice' = FirstOnes(due, JsConcurrent)
    /\ todo' = AfterFirst(due, JsConcurrent)

(* A pass up to its first await: a batch moves to the second queue, and    *)
(* the first due rows start, unless the circuit is open.                   *)
JsPass ==
    LET batch == FirstOnes(buffer, JsBatchSize)
    IN  /\ loop = "timer" /\ ready = "yes"
        /\ Len(appends) < MaxAppends
        /\ \A e \in JsEvents : sent[e] + taken[e] < MaxPosts
        /\ Drain(batch)
        /\ IF Enqueued(batch) # batch
           THEN UNCHANGED <<gate, passVars>>
           ELSE /\ gate' = Current(gate)
                /\ \E found \in DueRows :
                      IF gate'.state = "open" \/ found = <<>>
                      THEN UNCHANGED passVars
                      ELSE StartDeliveries([i \in DOMAIN found |-> kept'[found[i]]])
        /\ UNCHANGED <<later, postVars, arrived, rejectedByApi>>

PassEnds ==
    /\ loop' = IF caller = "stopping" THEN "stopped" ELSE "timer"
    /\ todo' = <<>>

(* allowRequest(), asked by every delivery                                 *)
AllowRequest == gate' = IF Admits(gate) THEN AfterAllow(Current(gate)) ELSE Current(gate)

(* The synchronous part of deliverOne(); the slice starts as a whole.      *)
DeliverOne ==
    /\ slice # <<>>
    /\ slice' = Tail(slice)
    /\ AllowRequest
    /\ IF Admits(gate) /\ Head(slice) \in Poison
       THEN PassEnds /\ UNCHANGED sent   \* JSON.stringify throws
       ELSE /\ sent' = IF Admits(gate) THEN [sent EXCEPT ![Head(slice)] = @ + 1] ELSE sent
            /\ UNCHANGED <<loop, todo>>
    /\ UNCHANGED taken

NextSlice ==
    /\ loop = "delivering" /\ slice = <<>> /\ Requested = {}
    /\ IF todo = <<>>
       THEN PassEnds /\ UNCHANGED slice
       ELSE /\ slice' = FirstOnes(todo, JsConcurrent)
            /\ todo' = AfterFirst(todo, JsConcurrent)
            /\ UNCHANGED loop
-----------------------------------------------------------------------------
ApiArrival(e) ==
    /\ sent[e] > 0
    /\ sent' = [sent EXCEPT ![e] = @ - 1]
    /\ taken' = [taken EXCEPT ![e] = @ + 1]
    /\ arrived' = arrived \cup {e}

(* ack(); an event has one row                                             *)
Without(s, e) ==
    IF e \in ToSet(s) THEN RemoveAt(s, CHOOSE i \in DOMAIN s : s[i] = e) ELSE s

AckRow(e) ==
    /\ kept' = Without(kept, e)
    /\ later' = later \ {e}
    /\ Log(<<Line("ack", e)>>)

(* Mutation: an event whose delivery failed for now is acknowledged.       *)
MarkRetryAcks(e) == AckRow(e)

(* markRetry() knows nothing of a row that is gone.                        *)
MarkRetry(e) ==
    /\ UNCHANGED kept
    /\ IF e \in Kept
       THEN later' = later \cup {e} /\ Log(<<Line("retry", e)>>)
       ELSE UNCHANGED <<later, logVars>>

RequestEnds(e) ==
    \/ taken[e] > 0 /\ taken' = [taken EXCEPT ![e] = @ - 1] /\ UNCHANGED sent
    \/ sent[e] > 0 /\ sent' = [sent EXCEPT ![e] = @ - 1] /\ UNCHANGED taken

(* Mutation: a success is not reported to the circuit breaker.             *)
RecordNothing == UNCHANGED gate

RecordSuccess == gate' = AfterSuccess(gate)
RecordFailure == gate' = AfterFailure(gate)

Delivered(e) ==
    /\ taken[e] > 0
    /\ taken' = [taken EXCEPT ![e] = @ - 1]
    /\ RecordSuccess
    /\ AckRow(e)
    /\ UNCHANGED <<sent, rejectedByApi>>

(* A network error, a time-out, a lost answer or a retryable status.       *)
FailedForNow(e) ==
    /\ RequestEnds(e)
    /\ RecordFailure
    /\ MarkRetry(e)
    /\ UNCHANGED rejectedByApi

(* A permanent 4xx returns before recordFailure().                         *)
RefusedForGood(e) ==
    /\ JsRefusals
    /\ sent[e] > 0
    /\ sent' = [sent EXCEPT ![e] = @ - 1]
    /\ AckRow(e)
    /\ rejectedByApi' = rejectedByApi \cup {e}
    /\ UNCHANGED <<gate, taken>>

NextRetryComes(e) == e \in later /\ later' = later \ {e}

RecoveryComes ==
    /\ gate.state = "open" /\ gate.timer = "running"
    /\ gate' = [gate EXCEPT !.timer = "over"]
-----------------------------------------------------------------------------
(* Half a line swallows the line that is appended to it.                   *)
Replayed(line) ==
    IF torn THEN disk
    ELSE CASE line.op = "put"   -> IF line.id \in OnDisk THEN disk ELSE Append(disk, line.id)
           [] line.op = "ack"   -> Without(disk, line.id)
           [] line.op = "retry" -> disk

(* One appendFile() of the chain; every CompactEvery-th is followed by a   *)
(* compaction, which takes the rows of the Map as they are then.           *)
AppendLands ==
    /\ appends # <<>> /\ ~snapshot.on
    /\ appends' = Tail(appends)
    /\ disk' = Replayed(Head(appends))
    /\ torn' = FALSE
    /\ written' = (written + 1) % CompactEvery
    /\ snapshot' = IF written' = 0 THEN [on |-> TRUE, rows |-> kept] ELSE snapshot
    /\ UNCHANGED broken

CompactionLands ==
    /\ snapshot.on
    /\ disk' = snapshot.rows
    /\ torn' = FALSE
    /\ snapshot' = NotCompacting
    /\ UNCHANGED <<appends, written, broken>>

(* Nothing is written after the first error: nobody catches the rejection  *)
(* of writeQueue (Node ends the process then, unless the host handles it). *)
WriteFails ==
    /\ DiskErrors
    /\ snapshot.on \/ appends # <<>>
    /\ broken' = TRUE
    /\ appends' = <<>> /\ snapshot' = NotCompacting
    /\ torn' \in {torn, torn \/ ~snapshot.on}
    /\ UNCHANGED <<written, disk>>

Writing == AppendLands \/ CompactionLands

Replay ==
    /\ ready = "replaying"
    /\ kept' = disk
    /\ later' \in SUBSET OnDisk
    /\ ready' = "yes"
    /\ UNCHANGED overlooked

(* readFile fails for any reason: "no existing log".                       *)
ReplaySeesNothing ==
    /\ DiskErrors
    /\ ready = "replaying"
    /\ ready' = "yes"
    /\ overlooked' = (overlooked \/ disk # <<>>)
    /\ UNCHANGED <<kept, later>>

(* mkdir fails: every pass fails at whenReady().                           *)
ReplayFails ==
    /\ DiskErrors
    /\ ready = "replaying"
    /\ ready' = "failed"
    /\ UNCHANGED <<kept, later, overlooked>>
-----------------------------------------------------------------------------
(* flush(), by itself or in shutdown(): both queues are read at once.      *)
CallFlush ==
    /\ caller = "app"
    /\ caller' \in JsCalls
    /\ flushed' = Buffered \cup Kept
    /\ UNCHANGED passVars

(* Mutation: flush() looks at the memory queue only.                       *)
BufferDrained ==
    /\ caller = "flush"
    /\ buffer = <<>>
    /\ caller' = "drained"
    /\ UNCHANGED <<flushed, passVars>>

FlushDrained ==
    /\ caller = "flush"
    /\ buffer = <<>> /\ kept = <<>>
    /\ caller' = "drained"
    /\ UNCHANGED <<flushed, passVars>>

FlushGivesUp ==
    /\ caller = "flush"
    /\ caller' = "app" /\ flushed' = {}
    /\ UNCHANGED passVars

FlushAnswers ==
    /\ caller = "drained"
    /\ caller' = "app" /\ flushed' = {}
    /\ UNCHANGED passVars

(* shutdown() goes on after its flush, drained or not: the timer is        *)
(* cleared, a pass under way is waited for.                                *)
StopLoop ==
    /\ caller = "shutdown"
    /\ caller' = "stopping" /\ flushed' = {}
    /\ loop' = IF loop = "timer" THEN "stopped" ELSE loop
    /\ UNCHANGED <<slice, todo>>

(* close() waits for the chain; if that was rejected, shutdown() rejects.  *)
CloseLog ==
    /\ caller = "stopping" /\ loop = "stopped"
    /\ appends = <<>> /\ ~snapshot.on
    /\ caller' = "closed"
    /\ UNCHANGED <<flushed, passVars>>

Calling == CallFlush \/ FlushDrained \/ FlushGivesUp \/ FlushAnswers \/ StopLoop \/ CloseLog

(* The process ends and another begins with the same key; a line that was  *)
(* being written may be there in part.                                     *)
ReplaceProcess ==
    /\ replaced < JsCrashes
    /\ replaced' = replaced + 1
    /\ spilled' = spilled \cup ((Buffered \cup Kept) \ OnDisk)
    /\ turnedAway' = turnedAway \cup awaiting \cup woken
    /\ buffer' = <<>> /\ waiters' = <<>> /\ awaiting' = {} /\ woken' = {}
    /\ kept' = <<>> /\ later' = {}
    /\ appends' = <<>> /\ written' = 0 /\ snapshot' = NotCompacting /\ broken' = FALSE
    /\ torn' \in {torn, torn \/ (appends # <<>> /\ ~snapshot.on)}
    /\ ready' = IF file THEN "replaying" ELSE "yes"
    /\ gate' = NewBreaker
    /\ loop' = "timer" /\ slice' = <<>> /\ todo' = <<>>
    /\ sent' = [e \in JsEvents |-> 0] /\ taken' = [e \in JsEvents |-> 0]
    /\ caller' = "app" /\ flushed' = {}
    /\ UNCHANGED <<optionVars, pushedOut, disk, overlooked, arrived, rejectedByApi>>
-----------------------------------------------------------------------------
OnlyBuffer == UNCHANGED <<optionVars, kept, later, logVars, readyVars, gate, passVars, postVars,
                          callVars, replaced, endVars>>

JsWorker ==
    \/ LoopIsFree /\ JsPass
         /\ UNCHANGED <<optionVars, readyVars, callVars, replaced>>
    \/ DeliverOne
         /\ UNCHANGED <<optionVars, bufferVars, kept, later, logVars, readyVars, callVars, replaced, endVars>>
    \/ LoopIsFree /\ NextSlice
         /\ UNCHANGED <<optionVars, bufferVars, kept, later, logVars, readyVars, gate, postVars, callVars,
                        replaced, endVars>>

JsAnswer(e) ==
    /\ LoopIsFree
    /\ Delivered(e) \/ FailedForNow(e) \/ RefusedForGood(e)
    /\ UNCHANGED <<optionVars, bufferVars, readyVars, passVars, callVars, replaced, arrived, spilled>>

JsApiTakes(e) ==
    /\ ApiArrival(e)
    /\ UNCHANGED <<optionVars, bufferVars, kept, later, logVars, readyVars, gate, passVars, callVars,
                   replaced, rejectedByApi, spilled>>

RetryComes(e) ==
    /\ NextRetryComes(e)
    /\ UNCHANGED <<optionVars, bufferVars, kept, logVars, readyVars, gate, passVars, postVars, callVars,
                   replaced, endVars>>

TimerComes ==
    /\ RecoveryComes
    /\ UNCHANGED <<optionVars, bufferVars, kept, later, logVars, readyVars, passVars, postVars, callVars,
                   replaced, endVars>>

Disk ==
    /\ LoopIsFree
    /\ \/ (Writing \/ WriteFails) /\ UNCHANGED <<kept, later, readyVars>>
       \/ (Replay \/ ReplaySeesNothing \/ ReplayFails) /\ UNCHANGED logVars
    /\ UNCHANGED <<optionVars, bufferVars, gate, passVars, postVars, callVars, replaced, endVars>>

JsCaller ==
    /\ LoopIsFree
    /\ Calling
    /\ UNCHANGED <<optionVars, bufferVars, kept, later, logVars, readyVars, gate, postVars, replaced, endVars>>

JsNext ==
    \/ JsWorker \/ Disk \/ JsCaller \/ TimerComes \/ ReplaceProcess
    \/ \E e \in JsEvents :
          \/ slice = <<>> /\ (JsTrack(e) \/ TrackGoesOn(e)) /\ OnlyBuffer
          \/ JsAnswer(e) \/ JsApiTakes(e) \/ RetryComes(e)

JsSpec == JsInit /\ [][JsNext]_jsVars

(* The event loop runs, timers fire, and an API that is asked again and    *)
(* again about an event takes it and answers 200 in the end.               *)
JsFairness ==
    /\ WF_jsVars(JsWorker)
    /\ WF_jsVars(Disk)
    /\ WF_jsVars(TimerComes)
    /\ WF_jsVars(\E e \in JsEvents : slice = <<>> /\ WokenPushes(e) /\ OnlyBuffer)
    /\ \A e \in JsEvents :
          /\ WF_jsVars(RetryComes(e))
          /\ SF_jsVars(JsApiTakes(e))
          /\ SF_jsVars(JsAnswer(e) /\ Delivered(e))
-----------------------------------------------------------------------------
(* The buffer may hold one more than maxSize: a put() that was woken does  *)
(* not look again.  It is the only one, for a batch wakes one.             *)
JsTypeOK ==
    /\ {buffer, waiters, kept, disk, slice, todo} \subseteq Seq(JsEvents)
    /\ Len(buffer) <= MaxSize + 1 /\ Cardinality(woken) <= 1
    /\ awaiting \cup woken \subseteq JsEvents /\ awaiting \cap woken = {}
    /\ IsInjective(kept) /\ later \subseteq Kept
    /\ appends \in Seq([op : {"put", "retry", "ack"}, id : JsEvents])
    /\ written \in 0..CompactEvery - 1 /\ {snapshot.on, broken, torn, overlooked} \subseteq BOOLEAN
    /\ ready \in {"replaying", "yes", "failed"} /\ gate \in Breaker
    /\ loop \in {"timer", "delivering", "stopped"}
    /\ {sent, taken} \subseteq [JsEvents -> 0..MaxPosts]
    /\ caller \in {"app", "flush", "drained", "shutdown", "stopping", "closed"}

(* The pipeline keeps the promise of AtLeastOnceDelivery: what the log     *)
(* would give back is durable, what only this process holds is not --      *)
(* until a log that cannot be read is taken for one that is not there: the *)
(* next compaction writes it anew without its rows.                        *)
JsDelivery ==
    INSTANCE AtLeastOnceDelivery WITH
        Events   <- JsEvents,
        accepted <- JsQueued,
        buffered <- (Buffered \cup Kept) \ OnDisk,
        durable  <- OnDisk,
        received <- arrived,
        rejected <- rejectedByApi,
        dropped  <- pushedOut \cup spilled

JsImplementsDelivery ==
    JsDelivery!Init /\ [][JsDelivery!Next \/ overlooked]_(JsDelivery!vars)

(* flush() reads both queues in one go, and an event leaves them only when *)
(* it was answered: what this process held at the call is settled when it  *)
(* answers true -- what an unfinished replay would bring is not looked at. *)
JsFlushMissesNothing ==
    caller = "drained" => flushed \subseteq pushedOut \cup arrived \cup rejectedByApi

(* "COSTORAH will receive every event that was successfully queued and did *)
(* not receive a permanent rejection" (RELIABILITY.md).                    *)
JsEventsSettle ==
    \A e \in JsEvents :
        e \in Buffered \cup Kept ~> e \in pushedOut \cup arrived \cup rejectedByApi
=============================================================================
