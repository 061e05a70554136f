------------------------------ MODULE Realtime -------------------------------
(***************************************************************************)
(* Live events of one organization (backend/app/realtime/event_bus.py,     *)
(* connection_manager.py, api/v1/realtime.py): publishing sends an event   *)
(* to every process and appends it to a bounded replay buffer in Redis;    *)
(* each process has one dispatch task that puts what it receives into the  *)
(* bounded queue of each of its connections.  A WebSocket or an SSE stream *)
(* sends its queue to the client; an SSE stream opened with Last-Event-ID  *)
(* replays the buffer first.                                               *)
(*                                                                         *)
(* Events are numbered in the order of the PUBLISH commands.  Redis is     *)
(* external (PUBLISH, RPUSH and LTRIM are one transaction), and so are the *)
(* clients, modelled after the browser's EventSource: they connect again   *)
(* whenever a stream ends, to any process.  Authentication and the         *)
(* connection rate limit happen before and are left out.                   *)
(***************************************************************************)
EXTENDS Naturals, Sequences, FiniteSets

CONSTANTS
    Servers,          \* API processes
    SseClients,       \* clients of GET /v1/events
    WsClients,        \* clients of /v1/ws
    BufferSize,       \* replay_buffer_size
    QueueMaxsize,     \* DEFAULT_QUEUE_MAXSIZE
    MaxEvents,        \* bound: events published
    MaxOutages        \* bound: outages, each of a dispatch task, a process,
                      \* a connection or a Redis read

ASSUME RealtimeAssumption ==
    /\ Servers # {} /\ SseClients \cap WsClients = {}
    /\ BufferSize \in Nat \ {0} /\ QueueMaxsize \in Nat \ {0}
    /\ MaxEvents \in Nat /\ MaxOutages \in Nat

VARIABLES
    lastPublished,  \* events 1..lastPublished have been published
    kept,         \* the replay buffer holds kept+1..lastPublished
    dispatcher,   \* dispatcher[s]: starting, running or crashed
    dispatched,   \* dispatched[s]: the last event its subscription delivered
    stream,       \* stream[c]: off, registered, replaying or live
    home,         \* home[c]: the process that serves it
    queue,        \* queue[c]: ConnectionInfo.queue
    replay,       \* replay[c]: replayed events still to be sent
    cursor,       \* cursor[c]: the last event received, its Last-Event-ID
    seen,         \* seen[c]: events received
    gone,         \* gone[c]: events c misses for a reason this code accepts
    outages

streamVars == <<stream, home, queue, replay>>
clientVars == <<cursor, seen, gone>>
realtimeVars ==
    <<lastPublished, kept, dispatcher, dispatched, streamVars, clientVars, outages>>

Clients == SseClients \cup WsClients
EventIds == 1..MaxEvents

Between(from, to) == {e \in EventIds : from < e /\ e <= to}
QueuedFor(c) == {queue[c][i] : i \in DOMAIN queue[c]}
ToReplay(c) == {replay[c][i] : i \in DOMAIN replay[c]}

Outage == outages < MaxOutages /\ outages' = outages + 1
-----------------------------------------------------------------------------
RealtimeInit ==
    /\ lastPublished = 0 /\ kept = 0 /\ outages = 0
    /\ dispatcher = [s \in Servers |-> "starting"]
    /\ dispatched = [s \in Servers |-> 0]
    /\ stream = [c \in Clients |-> "off"]
    /\ home = [c \in Clients |-> CHOOSE s \in Servers : TRUE]
    /\ queue = [c \in Clients |-> <<>>] /\ replay = [c \in Clients |-> <<>>]
    /\ cursor = [c \in Clients |-> 0]
    /\ seen = [c \in Clients |-> {}] /\ gone = [c \in Clients |-> {}]
-----------------------------------------------------------------------------
(* EventBus                                                                *)

(* publish(): PUBLISH, RPUSH, LTRIM -N -1.  An event whose pipeline fails  *)
(* is logged and was never published.                                      *)
PublishEvent ==
    /\ lastPublished < MaxEvents
    /\ lastPublished' = lastPublished + 1
    /\ kept' = IF lastPublished + 1 > kept + BufferSize THEN kept + 1 ELSE kept
    /\ UNCHANGED <<dispatcher, dispatched, streamVars, clientVars, outages>>

(* EXPIRE: an hour without an event                                        *)
BufferExpires ==
    /\ Outage
    /\ kept < lastPublished
    /\ kept' = lastPublished
    /\ UNCHANGED <<lastPublished, dispatcher, dispatched, streamVars, clientVars>>

(* Mutation: an id the buffer has rotated past replays nothing.          *)
ReplayKnown(id) == IF id > kept THEN [i \in 1..(lastPublished - id) |-> id + i] ELSE <<>>
-----------------------------------------------------------------------------
(* ConnectionManager, one per process                                      *)

(* replay_since(): what is buffered after the id, or all that is buffered  *)
(* if the id is not.                                                       *)
ReplaySince(id) == [i \in 1..(lastPublished - (IF id > kept THEN id ELSE kept))
                       |-> (IF id > kept THEN id ELSE kept) + i]

(* The PSUBSCRIBE: what was published before is not delivered.             *)
Subscribe(s) ==
    /\ dispatcher[s] = "starting"
    /\ dispatcher' = [dispatcher EXCEPT ![s] = "running"]
    /\ dispatched' = [dispatched EXCEPT ![s] = lastPublished]
    /\ gone' = [c \in Clients |->
                   IF stream[c] \in {"replaying", "live"} /\ home[c] = s
                   THEN gone[c] \cup (Between(dispatched[s], lastPublished) \ (seen[c] \cup ToReplay(c)))
                   ELSE gone[c]]
    /\ UNCHANGED <<lastPublished, kept, streamVars, cursor, seen, outages>>

(* Mutation: only event streams are dispatched to.                       *)
StreamsOnly(s) == {c \in SseClients : home[c] = s /\ stream[c] # "off"}

Connected(s) == {c \in Clients : home[c] = s /\ stream[c] # "off"}

Full(c) == Len(queue[c]) >= QueueMaxsize

(* dispatch(): put_nowait for every connection, QueueFull drops the event. *)
DispatchNext(s) ==
    /\ dispatcher[s] = "running"
    /\ dispatched[s] < lastPublished
    /\ LET e == dispatched[s] + 1 IN
       /\ dispatched' = [dispatched EXCEPT ![s] = e]
       /\ queue' = [c \in Clients |-> IF c \in Connected(s) /\ ~Full(c)
                                      THEN Append(queue[c], e) ELSE queue[c]]
       /\ gone' = [c \in Clients |-> IF c \in Connected(s) /\ Full(c) /\ e \notin seen[c]
                                     THEN gone[c] \cup {e} ELSE gone[c]]
    /\ UNCHANGED <<lastPublished, kept, dispatcher, stream, home, replay, cursor, seen, outages>>

(* An error of the subscription ends the one dispatch task for good.       *)
DispatchLoopCrashes(s) ==
    /\ Outage
    /\ dispatcher[s] = "running"
    /\ dispatcher' = [dispatcher EXCEPT ![s] = "crashed"]
    /\ UNCHANGED <<lastPublished, kept, dispatched, streamVars, clientVars>>

(* What was queued behind a replay that started past it, the buffer having *)
(* rotated already, cannot be replayed when its connection closes.         *)
Overtaken(c) == {e \in QueuedFor(c) : e < cursor[c]} \ seen[c]

(* The process is replaced; start() spawns a new task.                     *)
ServerRestarts(s) ==
    /\ Outage
    /\ dispatcher' = [dispatcher EXCEPT ![s] = "starting"]
    /\ dispatched' = [dispatched EXCEPT ![s] = lastPublished]
    /\ stream' = [c \in Clients |-> IF home[c] = s THEN "off" ELSE stream[c]]
    /\ queue' = [c \in Clients |-> IF home[c] = s THEN <<>> ELSE queue[c]]
    /\ replay' = [c \in Clients |-> IF home[c] = s THEN <<>> ELSE replay[c]]
    /\ gone' = [c \in Clients |-> IF home[c] = s THEN gone[c] \cup Overtaken(c) ELSE gone[c]]
    /\ UNCHANGED <<lastPublished, kept, home, cursor, seen>>
-----------------------------------------------------------------------------
(* The two endpoints                                                       *)

(* websocket_gateway, sse_events: register, an empty queue                 *)
Register(c, s, to) ==
    /\ stream[c] = "off"
    /\ stream' = [stream EXCEPT ![c] = to]
    /\ home' = [home EXCEPT ![c] = s]
    /\ UNCHANGED <<lastPublished, kept, dispatcher, dispatched, queue, replay, clientVars, outages>>

OpenWebSocket(c, s) == c \in WsClients /\ Register(c, s, "live")

(* Last-Event-ID is sent once an event was received.                       *)
OpenEventStream(c, s) ==
    /\ c \in SseClients
    /\ Register(c, s, IF cursor[c] = 0 THEN "live" ELSE "registered")

(* The LRANGE of event_stream.  What an error or a rotated buffer keeps    *)
(* from the replay, and is not in the queue, is missed.                    *)
Replaying(c, events) ==
    /\ stream[c] = "registered"
    /\ stream' = [stream EXCEPT ![c] = "replaying"]
    /\ replay' = [replay EXCEPT ![c] = events]
    /\ UNCHANGED <<lastPublished, kept, dispatcher, dispatched, home, queue, cursor, seen>>

(* An event that the buffer cannot give back and dispatch is past.         *)
Unrecoverable(c) == Between(cursor[c], kept) \ (seen[c] \cup QueuedFor(c))

ReadReplay(c) ==
    /\ Replaying(c, ReplaySince(cursor[c]))
    /\ gone' = [gone EXCEPT ![c] = @ \cup Unrecoverable(c)]
    /\ UNCHANGED outages

ReplayFails(c) ==
    /\ Outage
    /\ Replaying(c, <<>>)
    /\ gone' = [gone EXCEPT ![c] = @ \cup (Between(cursor[c], lastPublished) \ (seen[c] \cup QueuedFor(c)))]

Receive(c, e) ==
    /\ cursor' = [cursor EXCEPT ![c] = e]
    /\ seen' = [seen EXCEPT ![c] = @ \cup {e}]
    /\ gone' = [gone EXCEPT ![c] = @ \ {e}]
    /\ UNCHANGED <<lastPublished, kept, dispatcher, dispatched, home, outages>>

SendReplayed(c) ==
    /\ stream[c] = "replaying" /\ replay[c] # <<>>
    /\ Receive(c, Head(replay[c]))
    /\ replay' = [replay EXCEPT ![c] = Tail(@)]
    /\ UNCHANGED <<stream, queue>>

ReplayDone(c) ==
    /\ stream[c] = "replaying" /\ replay[c] = <<>>
    /\ stream' = [stream EXCEPT ![c] = "live"]
    /\ UNCHANGED <<lastPublished, kept, dispatcher, dispatched, home, queue, replay, clientVars, outages>>

(* receive() yields what the queue holds, in its order.                    *)
SendLive(c) ==
    /\ stream[c] = "live" /\ queue[c] # <<>>
    /\ Receive(c, Head(queue[c]))
    /\ queue' = [queue EXCEPT ![c] = Tail(@)]
    /\ UNCHANGED <<stream, replay>>

(* unregister: the queue goes away with the connection.                    *)
Close(c) ==
    /\ stream[c] # "off"
    /\ stream' = [stream EXCEPT ![c] = "off"]
    /\ queue' = [queue EXCEPT ![c] = <<>>] /\ replay' = [replay EXCEPT ![c] = <<>>]
    /\ gone' = [gone EXCEPT ![c] = @ \cup Overtaken(c)]
    /\ UNCHANGED <<lastPublished, kept, dispatcher, dispatched, home, cursor, seen>>

(* Mutation: the stream goes on after a heartbeat, as the docs say.      *)
HeartbeatOnly(c) ==
    /\ c \in SseClients /\ stream[c] = "live" /\ queue[c] = <<>>
    /\ UNCHANGED realtimeVars

(* 30 seconds without an event: wait_for cancels __anext__(), which ends   *)
(* the generator receive(); after the heartbeat the stream is over.        *)
HeartbeatEndsStream(c) ==
    /\ c \in SseClients /\ stream[c] = "live" /\ queue[c] = <<>>
    /\ Close(c)
    /\ UNCHANGED outages

(* The network, the client, or a pong that is late (4408)                  *)
Disconnect(c) == Outage /\ Close(c)
-----------------------------------------------------------------------------
Deliver(c) ==
    \/ ReadReplay(c) \/ SendReplayed(c) \/ ReplayDone(c) \/ SendLive(c)

RealtimeNext ==
    \/ PublishEvent \/ BufferExpires
    \/ \E s \in Servers :
          \/ Subscribe(s) \/ DispatchNext(s) \/ DispatchLoopCrashes(s) \/ ServerRestarts(s)
          \/ \E c \in Clients : OpenWebSocket(c, s) \/ OpenEventStream(c, s)
    \/ \E c \in Clients :
          Deliver(c) \/ ReplayFails(c) \/ HeartbeatEndsStream(c) \/ Disconnect(c)

RealtimeSpec == RealtimeInit /\ [][RealtimeNext]_realtimeVars

(* Tasks run, clients read, an idle stream gets its heartbeat, and an      *)
(* EventSource connects again.  Nothing starts a crashed dispatch task.    *)
RealtimeFairness ==
    /\ \A s \in Servers :
          WF_realtimeVars(Subscribe(s)) /\ WF_realtimeVars(DispatchNext(s))
    /\ \A c \in Clients : WF_realtimeVars(Deliver(c))
    /\ \A c \in SseClients :
          /\ WF_realtimeVars(HeartbeatEndsStream(c))
          /\ WF_realtimeVars(\E s \in Servers : OpenEventStream(c, s))
-----------------------------------------------------------------------------
RealtimeTypeOK ==
    /\ lastPublished \in 0..MaxEvents /\ kept \in 0..lastPublished
    /\ lastPublished - kept <= BufferSize
    /\ dispatcher \in [Servers -> {"starting", "running", "crashed"}]
    /\ dispatched \in [Servers -> 0..lastPublished]
    /\ stream \in [Clients -> {"off", "registered", "replaying", "live"}]
    /\ home \in [Clients -> Servers]
    /\ \A c \in Clients : queue[c] \in Seq(1..lastPublished) /\ Len(queue[c]) <= QueueMaxsize
    /\ \A c \in Clients : replay[c] \in Seq(1..lastPublished)
    /\ cursor \in [Clients -> 0..lastPublished]
    /\ \A c \in Clients : seen[c] \subseteq 1..lastPublished /\ gone[c] \subseteq 1..lastPublished
    /\ outages \in 0..MaxOutages

(* "The server replays everything published after it, before resuming the  *)
(* live stream" (03-sse-guide.md): between two events an SSE client has    *)
(* received, over whatever reconnections and processes, none is missing    *)
(* but those a full queue dropped, the buffer or the queue behind the      *)
(* replay had lost when it reconnected, a failed replay did not read, or   *)
(* no subscription was there to hear.                                      *)
GapsAreExplained ==
    \A c \in SseClients : \A f \in seen[c] :
        Between(f, cursor[c]) \subseteq seen[c] \cup gone[c] \cup QueuedFor(c)

(* A client that has received an event gets every later one (or it is gone *)
(* for one of those reasons), even from a process whose dispatch task is   *)
(* dead: its stream ends, and it reconnects with the id.                   *)
EventStreamCatchesUp ==
    \A c \in SseClients, e \in EventIds :
        (e <= lastPublished /\ \E f \in seen[c] : f < e) ~> e \in seen[c] \cup gone[c]

(* While the dispatch task of its process runs, an open connection         *)
(* receives every event, unless its queue is full or it closes: a slow     *)
(* client, a replay or another connection never stalls it.                 *)
OpenConnectionsKeepUp ==
    \A c \in Clients, s \in Servers, e \in EventIds :
        (stream[c] # "off" /\ home[c] = s /\ dispatcher[s] = "running"
              /\ dispatched[s] < e /\ e <= lastPublished)
          ~> \/ e \in seen[c] \cup gone[c]
             \/ stream[c] = "off" \/ dispatcher[s] # "running"

(* Both kinds of client get the whole history: over reconnections for an   *)
(* event stream, while it lasts for any open connection.                   *)
EveryClientCatchesUp == EventStreamCatchesUp /\ OpenConnectionsKeepUp
=============================================================================
