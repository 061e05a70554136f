------------------------ MODULE Notifications_proofs -------------------------
(***************************************************************************)
(* What people are told: the live events an event stream may miss, and the *)
(* alerts of a budget, for any number of clients, processes, transactions  *)
(* and limits.                                                             *)
(***************************************************************************)
EXTENDS Realtime, Alerts, SumLemmas, FiniteSetTheorems, TLAPS

-----------------------------------------------------------------------------
(* Live events                                                             *)
(*                                                                         *)
(* GapsAreExplained is not inductive: that no event is missing up to the   *)
(* cursor depends on what a connection still has to send.  Its queue holds *)
(* all that was dispatched since its first element; and from the read of   *)
(* the replay on, replay and queue together hold all that comes after the  *)
(* cursor, up to the last replayed or dispatched event.                    *)

RealtimeTypes ==
    /\ lastPublished \in 0..MaxEvents /\ kept \in Nat
    /\ dispatcher \in [Servers -> {"starting", "running", "crashed"}]
    /\ dispatched \in [Servers -> 0..lastPublished]
    /\ stream \in [Clients -> {"off", "registered", "replaying", "live"}]
    /\ home \in [Clients -> Servers]
    /\ queue \in [Clients -> Seq(EventIds)] /\ replay \in [Clients -> Seq(EventIds)]
    /\ cursor \in [Clients -> 0..MaxEvents]
    /\ seen \in [Clients -> SUBSET EventIds] /\ gone \in [Clients -> SUBSET EventIds]

(* What a client has received, will never receive, or has in its queue.    *)
Held(c) == seen[c] \cup gone[c] \cup QueuedFor(c)

(* A client's cursor is an event it received, once it received any.        *)
CursorIsSeen(c) == IF cursor[c] = 0 THEN seen[c] = {} ELSE cursor[c] \in seen[c]

(* Queues and replays end with their connections, and a process that has   *)
(* no subscription yet has queued nothing.                                 *)
ConnectionsOwnQueues(c) ==
    /\ stream[c] = "off" \/ dispatcher[home[c]] = "starting" => queue[c] = <<>>
    /\ stream[c] # "replaying" => replay[c] = <<>>
    /\ stream[c] \in {"registered", "replaying"} => cursor[c] # 0

(* A replay is sent in order and goes forward.                             *)
ReplayGoesForward(c) ==
    /\ \A i \in DOMAIN replay[c] : cursor[c] < replay[c][i]
    /\ \A i, j \in DOMAIN replay[c] : i < j => replay[c][i] < replay[c][j]

(* Behind an event of its queue nothing is missing.                        *)
QueueIsGapless(c) ==
    \A e \in QueuedFor(c) :
        /\ e <= dispatched[home[c]]
        /\ Between(e, dispatched[home[c]]) \subseteq Held(c)

(* Nor behind its cursor, from the read of the replay on.                  *)
ToCome(c) == {e \in EventIds :
                 /\ cursor[c] < e
                 /\ \/ e <= dispatched[home[c]]
                    \/ \E x \in ToReplay(c) : e <= x}

NothingBehindCursor(c) ==
    (stream[c] \in {"replaying", "live"} /\ cursor[c] # 0)
        => ToCome(c) \subseteq (Held(c) \cup ToReplay(c))

NoGap(c) == \A f \in seen[c] : Between(f, cursor[c]) \subseteq Held(c)

ClientInv(c) ==
    /\ CursorIsSeen(c) /\ ConnectionsOwnQueues(c) /\ ReplayGoesForward(c)
    /\ QueueIsGapless(c) /\ NothingBehindCursor(c) /\ NoGap(c)

RealtimeInv == RealtimeTypes /\ \A c \in SseClients : ClientInv(c)

LEMMA ElementsOfTail ==
    ASSUME NEW S, NEW q \in Seq(S), q # <<>>
    PROVE  /\ Head(q) \in S /\ Tail(q) \in Seq(S)
           /\ {q[i] : i \in DOMAIN q} = {Head(q)} \cup {Tail(q)[i] : i \in DOMAIN Tail(q)}
<1>1. Head(q) \in S /\ Tail(q) \in Seq(S) /\ Head(q) = q[1]
    OBVIOUS
<1>2. Len(q) \in Nat \ {0} /\ DOMAIN q = 1..Len(q) /\ DOMAIN Tail(q) = 1..(Len(q) - 1)
    OBVIOUS
<1>3. \A i \in DOMAIN Tail(q) : Tail(q)[i] = q[i + 1]
    BY <1>2
<1>4. {q[i] : i \in DOMAIN q} \subseteq {Head(q)} \cup {Tail(q)[i] : i \in DOMAIN Tail(q)}
    <2> SUFFICES ASSUME NEW i \in DOMAIN q, i # 1
                 PROVE  \E j \in DOMAIN Tail(q) : q[i] = Tail(q)[j]
        BY <1>1
    <2>1. i - 1 \in DOMAIN Tail(q) /\ Tail(q)[i - 1] = q[i]
        BY <1>2, <1>3
    <2> QED BY <2>1
<1>5. {Tail(q)[i] : i \in DOMAIN Tail(q)} \subseteq {q[i] : i \in DOMAIN q}
    BY <1>2, <1>3
<1>6. {q[i] : i \in DOMAIN q} = {Head(q)} \cup {Tail(q)[i] : i \in DOMAIN Tail(q)}
    <2>1. Head(q) \in {q[i] : i \in DOMAIN q}
        BY <1>1, <1>2
    <2> QED BY <2>1, <1>4, <1>5
<1> QED BY <1>1, <1>6

Elements(q) == {q[i] : i \in DOMAIN q}

LEMMA SequenceOfFunction ==
    ASSUME NEW S, NEW n \in Nat, NEW f \in [1..n -> S]
    PROVE  f \in Seq(S) /\ Len(f) = n
OBVIOUS

LEMMA SequenceOfElements ==
    ASSUME NEW S, NEW T, NEW q \in Seq(S), Elements(q) \subseteq T
    PROVE  q \in Seq(T)
<1>1. Len(q) \in Nat /\ q \in [1..Len(q) -> S] /\ DOMAIN q = 1..Len(q)
    OBVIOUS
<1>2. \A i \in 1..Len(q) : q[i] \in T
    BY <1>1 DEF Elements
<1>3. q \in [1..Len(q) -> T]
    BY <1>1, <1>2
<1> QED BY <1>1, <1>3

LEMMA ElementsAfterTail ==
    ASSUME NEW S, NEW q \in Seq(S), q # <<>>
    PROVE  Elements(q) = {Head(q)} \cup Elements(Tail(q))
BY ElementsOfTail DEF Elements

LEMMA QueuedAfterAppend ==
    ASSUME NEW c, NEW e, queue[c] \in Seq(EventIds), e \in EventIds,
           \/ queue'[c] = queue[c] \/ queue'[c] = Append(queue[c], e)
    PROVE  /\ QueuedFor(c)' = QueuedFor(c) \/ QueuedFor(c)' = QueuedFor(c) \cup {e}
           /\ queue'[c] = Append(queue[c], e) => e \in QueuedFor(c)'
<1>1. CASE queue'[c] = queue[c] /\ queue'[c] # Append(queue[c], e)
    BY <1>1 DEF QueuedFor
<1>2. CASE queue'[c] = Append(queue[c], e)
    <2>1. Len(queue[c]) \in Nat /\ DOMAIN queue[c] = 1..Len(queue[c])
          /\ DOMAIN queue'[c] = 1..(Len(queue[c]) + 1)
        BY <1>2
    <2>2. /\ queue'[c][Len(queue[c]) + 1] = e
          /\ \A i \in 1..Len(queue[c]) : queue'[c][i] = queue[c][i]
        BY <1>2, <2>1
    <2>3. e \in QueuedFor(c)'
        BY <2>1, <2>2 DEF QueuedFor
    <2>4. QueuedFor(c) \subseteq QueuedFor(c)'
        BY <2>1, <2>2 DEF QueuedFor
    <2>5. QueuedFor(c)' \subseteq QueuedFor(c) \cup {e}
        <3> SUFFICES ASSUME NEW i \in DOMAIN queue'[c], i # Len(queue[c]) + 1
                     PROVE  queue'[c][i] \in QueuedFor(c)
            BY <2>2 DEF QueuedFor
        <3>1. i \in 1..Len(queue[c])
            BY <2>1
        <3> QED BY <3>1, <2>1, <2>2 DEF QueuedFor
    <2> QED BY <2>3, <2>4, <2>5
<1> QED BY <1>1, <1>2

(* A client none of whose state a step touches                             *)
Untouched(c) ==
    /\ stream'[c] = stream[c] /\ home'[c] = home[c]
    /\ queue'[c] = queue[c] /\ replay'[c] = replay[c]
    /\ cursor'[c] = cursor[c] /\ seen'[c] = seen[c] /\ gone[c] \subseteq gone'[c]
    /\ dispatched'[home[c]] = dispatched[home[c]]
    /\ dispatcher'[home[c]] = "starting" => dispatcher[home[c]] = "starting"

LEMMA ClientFrame ==
    ASSUME NEW c \in SseClients, ClientInv(c), Untouched(c)
    PROVE  ClientInv(c)'
<1> USE DEF Untouched
<1>1. /\ QueuedFor(c)' = QueuedFor(c) /\ ToReplay(c)' = ToReplay(c)
      /\ ToCome(c)' = ToCome(c)
    BY DEF QueuedFor, ToReplay, ToCome
<1>2. Held(c) \subseteq Held(c)'
    BY <1>1 DEF Held
<1>3. CursorIsSeen(c)' /\ ConnectionsOwnQueues(c)' /\ ReplayGoesForward(c)'
    BY DEF ClientInv, CursorIsSeen, ConnectionsOwnQueues, ReplayGoesForward
<1>4. QueueIsGapless(c)'
    BY <1>1, <1>2 DEF ClientInv, QueueIsGapless, Between
<1>5. NothingBehindCursor(c)'
    BY <1>1, <1>2 DEF ClientInv, NothingBehindCursor
<1>6. NoGap(c)'
    BY <1>2 DEF ClientInv, NoGap, Between
<1> QED BY <1>3, <1>4, <1>5, <1>6 DEF ClientInv

LEMMA InitRealtimeInv == RealtimeInit => RealtimeInv
<1> SUFFICES ASSUME RealtimeInit PROVE RealtimeInv
    OBVIOUS
<1> USE DEF RealtimeInit
<1>1. (CHOOSE s \in Servers : TRUE) \in Servers
    BY RealtimeAssumption DEF RealtimeAssumption
<1>2. RealtimeTypes
    BY <1>1, RealtimeAssumption DEF RealtimeTypes, RealtimeAssumption
<1>3. ASSUME NEW c \in SseClients PROVE ClientInv(c)
    <2>1. /\ c \in Clients /\ queue[c] = <<>> /\ replay[c] = <<>> /\ stream[c] = "off"
          /\ cursor[c] = 0 /\ seen[c] = {}
        BY DEF Clients
    <2>2. QueuedFor(c) = {} /\ ToReplay(c) = {}
        BY <2>1 DEF QueuedFor, ToReplay
    <2> QED BY <2>1, <2>2 DEF ClientInv, CursorIsSeen, ConnectionsOwnQueues,
                ReplayGoesForward, QueueIsGapless, NothingBehindCursor, NoGap
<1> QED BY <1>2, <1>3 DEF RealtimeInv

(* An event published, the buffer's rotation and expiry, and a crash of a  *)
(* dispatch task change nothing a client has or waits for.                 *)
LEMMA PublisherKeepsRealtimeInv ==
    ASSUME RealtimeInv,
           \/ PublishEvent \/ BufferExpires
           \/ \E s \in Servers : DispatchLoopCrashes(s)
    PROVE  RealtimeInv'
<1> USE RealtimeAssumption DEF RealtimeAssumption, streamVars, clientVars
<1>1. /\ UNCHANGED <<dispatched, streamVars, clientVars>>
      /\ lastPublished <= lastPublished' /\ lastPublished' \in 0..MaxEvents
    BY DEF RealtimeInv, RealtimeTypes, PublishEvent, BufferExpires, DispatchLoopCrashes
<1>2. kept' \in Nat
    BY DEF RealtimeInv, RealtimeTypes, PublishEvent, BufferExpires, DispatchLoopCrashes
<1>3. \/ dispatcher' = dispatcher
      \/ \E s \in Servers : dispatcher' = [dispatcher EXCEPT ![s] = "crashed"]
    BY DEF PublishEvent, BufferExpires, DispatchLoopCrashes
<1>4. /\ dispatcher' \in [Servers -> {"starting", "running", "crashed"}]
      /\ \A s \in Servers : dispatcher'[s] = "starting" => dispatcher[s] = "starting"
    BY <1>3 DEF RealtimeInv, RealtimeTypes
<1>5. dispatched' \in [Servers -> 0..lastPublished']
    <2>1. 0..lastPublished \subseteq 0..lastPublished'
        BY <1>1 DEF RealtimeInv, RealtimeTypes
    <2> QED BY <1>1, <2>1 DEF RealtimeInv, RealtimeTypes
<1>6. RealtimeTypes'
    BY <1>1, <1>2, <1>4, <1>5 DEF RealtimeInv, RealtimeTypes
<1>7. ASSUME NEW c \in SseClients PROVE ClientInv(c)'
    <2>1. home[c] \in Servers
        BY DEF RealtimeInv, RealtimeTypes, Clients
    <2>2. Untouched(c)
        BY <1>1, <1>4, <2>1 DEF Untouched
    <2> QED BY <2>2, ClientFrame DEF RealtimeInv
<1> QED BY <1>6, <1>7 DEF RealtimeInv

(* The dispatcher of a process                                             *)
LEMMA SubscribeKeepsRealtimeInv ==
    ASSUME RealtimeInv, NEW s \in Servers, Subscribe(s)
    PROVE  RealtimeInv'
<1> USE RealtimeAssumption DEF RealtimeAssumption, streamVars
<1>1. /\ dispatcher[s] = "starting"
      /\ dispatcher' = [dispatcher EXCEPT ![s] = "running"]
      /\ dispatched' = [dispatched EXCEPT ![s] = lastPublished]
      /\ UNCHANGED <<lastPublished, kept, streamVars, cursor, seen, outages>>
    BY DEF Subscribe
<1>2. gone' = [c \in Clients |->
                   IF stream[c] \in {"replaying", "live"} /\ home[c] = s
                   THEN gone[c] \cup (Between(dispatched[s], lastPublished) \ (seen[c] \cup ToReplay(c)))
                   ELSE gone[c]]
    BY DEF Subscribe
<1>3. \A c \in Clients : gone[c] \subseteq gone'[c] /\ gone'[c] \in SUBSET EventIds
    BY <1>2 DEF RealtimeInv, RealtimeTypes, Between
<1>4. gone' \in [Clients -> SUBSET EventIds]
    BY <1>2, <1>3
<1>5. RealtimeTypes'
    BY <1>1, <1>4 DEF RealtimeInv, RealtimeTypes
<1>6. ASSUME NEW c \in SseClients PROVE ClientInv(c)'
    <2>1. c \in Clients /\ home[c] \in Servers /\ ClientInv(c)
        BY DEF RealtimeInv, RealtimeTypes, Clients
    <2>2. CASE home[c] # s
        <3>1. Untouched(c)
            BY <1>1, <1>3, <2>1, <2>2 DEF Untouched, RealtimeInv, RealtimeTypes
        <3> QED BY <2>1, <3>1, ClientFrame
    <2>3. CASE home[c] = s
        <3>1. queue[c] = <<>> /\ queue'[c] = <<>> /\ home'[c] = s
            BY <1>1, <2>1, <2>3 DEF ClientInv, ConnectionsOwnQueues
        <3>2. QueuedFor(c) = {} /\ QueuedFor(c)' = {} /\ ToReplay(c)' = ToReplay(c)
            BY <1>1, <3>1 DEF QueuedFor, ToReplay
        <3>3. Held(c) \subseteq Held(c)'
            BY <1>1, <1>3, <2>1, <3>2 DEF Held
        <3>4. CursorIsSeen(c)' /\ ConnectionsOwnQueues(c)' /\ ReplayGoesForward(c)'
            BY <1>1, <2>1, <3>1
               DEF ClientInv, CursorIsSeen, ConnectionsOwnQueues, ReplayGoesForward
        <3>5. QueueIsGapless(c)'
            BY <3>2 DEF QueueIsGapless
        <3>6. ASSUME stream[c] \in {"replaying", "live"}, cursor[c] # 0,
                     NEW e \in ToCome(c)'
              PROVE  e \in Held(c)' \cup ToReplay(c)'
            <4>1. e \in EventIds /\ cursor[c] < e
                  /\ (e <= lastPublished \/ \E x \in ToReplay(c) : e <= x)
                BY <1>1, <3>1, <3>2, <3>6 DEF ToCome, RealtimeInv, RealtimeTypes
            <4>2. CASE e \in ToCome(c)
                BY <4>2, <2>1, <3>2, <3>3, <3>6 DEF ClientInv, NothingBehindCursor
            <4>3. CASE e \notin ToCome(c)
                <5>1. e \in Between(dispatched[s], lastPublished)
                    BY <4>1, <4>3, <2>1, <2>3
                       DEF ToCome, Between, RealtimeInv, RealtimeTypes, EventIds
                <5>2. e \in seen[c] \cup ToReplay(c) \cup gone'[c]
                    BY <5>1, <1>2, <2>1, <2>3, <3>6
                <5> QED BY <5>2, <1>1, <3>2 DEF Held
            <4> QED BY <4>2, <4>3
        <3>7. NothingBehindCursor(c)'
            BY <1>1, <3>6 DEF NothingBehindCursor
        <3>8. NoGap(c)'
            BY <1>1, <2>1, <3>3 DEF ClientInv, NoGap, Between
        <3> QED BY <3>4, <3>5, <3>7, <3>8 DEF ClientInv
    <2> QED BY <2>2, <2>3
<1> QED BY <1>5, <1>6 DEF RealtimeInv

LEMMA DispatchKeepsRealtimeInv ==
    ASSUME RealtimeInv, NEW s \in Servers, DispatchNext(s)
    PROVE  RealtimeInv'
<1> USE RealtimeAssumption DEF RealtimeAssumption
<1> DEFINE e == dispatched[s] + 1
<1>1. /\ dispatcher[s] = "running" /\ dispatched[s] < lastPublished
      /\ dispatched' = [dispatched EXCEPT ![s] = e]
      /\ UNCHANGED <<lastPublished, kept, dispatcher, stream, home, replay, cursor, seen, outages>>
    BY DEF DispatchNext
<1>2. queue' = [c \in Clients |-> IF c \in Connected(s) /\ ~Full(c)
                                  THEN Append(queue[c], e) ELSE queue[c]]
    BY DEF DispatchNext
<1>3. gone' = [c \in Clients |-> IF c \in Connected(s) /\ Full(c) /\ e \notin seen[c]
                                 THEN gone[c] \cup {e} ELSE gone[c]]
    BY DEF DispatchNext
<1>4. dispatched[s] \in Nat /\ e \in EventIds /\ e <= lastPublished
    BY <1>1 DEF RealtimeInv, RealtimeTypes, EventIds
<1>5. \A c \in Clients : gone[c] \subseteq gone'[c] /\ gone'[c] \in SUBSET EventIds
    BY <1>3, <1>4 DEF RealtimeInv, RealtimeTypes
<1>6. gone' \in [Clients -> SUBSET EventIds]
    BY <1>3, <1>5
<1>7. \A c \in Clients : queue'[c] \in Seq(EventIds)
    BY <1>2, <1>4 DEF RealtimeInv, RealtimeTypes
<1>8. queue' \in [Clients -> Seq(EventIds)]
    BY <1>2, <1>7
<1>9. RealtimeTypes'
    BY <1>1, <1>4, <1>6, <1>8 DEF RealtimeInv, RealtimeTypes
<1>10. ASSUME NEW c \in SseClients PROVE ClientInv(c)'
    <2> HIDE DEF e
    <2>1. c \in Clients /\ home[c] \in Servers /\ ClientInv(c) /\ queue[c] \in Seq(EventIds)
        BY DEF RealtimeInv, RealtimeTypes, Clients
    <2>2. CASE home[c] # s
        <3>1. queue'[c] = queue[c]
            BY <1>2, <2>1, <2>2 DEF Connected
        <3>2. Untouched(c)
            BY <1>1, <1>5, <2>1, <2>2, <3>1 DEF Untouched, RealtimeInv, RealtimeTypes
        <3> QED BY <2>1, <3>2, ClientFrame
    <2>3. CASE home[c] = s
        <3>1. home'[c] = s /\ dispatched'[s] = e /\ e = dispatched[s] + 1
            BY <1>1, <2>1, <2>3 DEF RealtimeInv, RealtimeTypes, e
        <3>2. ToReplay(c)' = ToReplay(c)
            BY <1>1 DEF ToReplay
        <3>3. QueuedFor(c)' = QueuedFor(c) \/ QueuedFor(c)' = QueuedFor(c) \cup {e}
            BY <1>2, <1>4, <2>1, QueuedAfterAppend
        <3>4. Held(c) \subseteq Held(c)'
            BY <1>1, <1>5, <2>1, <3>3 DEF Held
        <3>5. ASSUME stream[c] # "off" PROVE e \in Held(c)'
            <4>1. CASE Full(c)
                BY <4>1, <3>5, <1>1, <1>3, <2>1, <2>3 DEF Connected, Held
            <4>2. CASE ~Full(c)
                <5>1. queue'[c] = Append(queue[c], e)
                    BY <4>2, <3>5, <1>2, <2>1, <2>3 DEF Connected
                <5> QED BY <5>1, <2>1, <1>4, QueuedAfterAppend DEF Held
            <4> QED BY <4>1, <4>2
        <3>6. stream[c] = "off" => QueuedFor(c)' = QueuedFor(c) /\ queue'[c] = queue[c]
            BY <1>2, <2>1 DEF Connected, QueuedFor
        <3>7. CursorIsSeen(c)' /\ ConnectionsOwnQueues(c)' /\ ReplayGoesForward(c)'
            BY <1>1, <2>1, <2>3, <3>6
               DEF ClientInv, CursorIsSeen, ConnectionsOwnQueues, ReplayGoesForward
        <3>8. QueueIsGapless(c)'
            <4> SUFFICES ASSUME NEW f \in QueuedFor(c)'
                         PROVE  f <= e /\ Between(f, e) \subseteq Held(c)'
                BY <3>1 DEF QueueIsGapless, Between
            <4>1. CASE f = e
                BY <4>1, <1>4 DEF Between, EventIds
            <4>2. CASE f # e
                <5>1. f \in QueuedFor(c) /\ f \in EventIds /\ stream[c] # "off"
                    <6>1. f \in QueuedFor(c)
                        BY <3>3, <4>2
                    <6>2. queue[c] # <<>>
                        BY <6>1 DEF QueuedFor
                    <6>3. f \in EventIds
                        BY <6>1, <2>1 DEF QueuedFor
                    <6> QED BY <6>1, <6>2, <6>3, <2>1 DEF ClientInv, ConnectionsOwnQueues
                <5>2. f <= dispatched[s] /\ Between(f, dispatched[s]) \subseteq Held(c)
                    BY <5>1, <2>1, <2>3 DEF ClientInv, QueueIsGapless
                <5>3. Between(f, e) \subseteq Between(f, dispatched[s]) \cup {e}
                    BY <3>1, <1>4 DEF Between, EventIds
                <5>4. f <= e
                    BY <5>1, <5>2, <3>1, <1>4 DEF EventIds
                <5> QED BY <5>1, <5>2, <5>3, <5>4, <3>4, <3>5
            <4> QED BY <4>1, <4>2
        <3>9. NothingBehindCursor(c)'
            <4> SUFFICES ASSUME stream[c] \in {"replaying", "live"}, cursor[c] # 0
                         PROVE  ToCome(c)' \subseteq Held(c)' \cup ToReplay(c)'
                BY <1>1 DEF NothingBehindCursor
            <4>1. ToCome(c)' \subseteq ToCome(c) \cup {e}
                BY <1>1, <1>4, <2>3, <3>1, <3>2 DEF ToCome, EventIds
            <4>2. ToCome(c) \subseteq Held(c) \cup ToReplay(c)
                BY <2>1 DEF ClientInv, NothingBehindCursor
            <4> QED BY <4>1, <4>2, <3>2, <3>4, <3>5
        <3>10. NoGap(c)'
            BY <1>1, <2>1, <3>4 DEF ClientInv, NoGap, Between
        <3> QED BY <3>7, <3>8, <3>9, <3>10 DEF ClientInv
    <2> QED BY <2>2, <2>3
<1> QED BY <1>9, <1>10 DEF RealtimeInv

(* A connection ends: by itself or with its process.                       *)
LEMMA ClosingKeepsClientInv ==
    ASSUME RealtimeTypes, NEW c \in SseClients, ClientInv(c),
           stream'[c] = "off", queue'[c] = <<>>, replay'[c] = <<>>,
           UNCHANGED <<cursor, seen>>, gone'[c] = gone[c] \cup Overtaken(c)
    PROVE  ClientInv(c)'
<1>1. QueuedFor(c)' = {} /\ ToReplay(c)' = {}
    BY DEF QueuedFor, ToReplay
<1>2. CursorIsSeen(c)' /\ ConnectionsOwnQueues(c)' /\ ReplayGoesForward(c)'
    BY DEF ClientInv, CursorIsSeen, ConnectionsOwnQueues, ReplayGoesForward
<1>3. QueueIsGapless(c)' /\ NothingBehindCursor(c)'
    BY <1>1 DEF QueueIsGapless, NothingBehindCursor
<1>4. NoGap(c)'
    <2> SUFFICES ASSUME NEW f \in seen[c], NEW e \in Between(f, cursor[c])
                 PROVE  e \in seen[c] \cup gone'[c]
        BY DEF NoGap, Held, Between
    <2>1. e \in Held(c) /\ e \in Nat \ {0} /\ e <= cursor[c] /\ cursor[c] \in Nat
        BY RealtimeAssumption
           DEF ClientInv, NoGap, Between, EventIds, RealtimeTypes, Clients, RealtimeAssumption
    <2>2. CASE e = cursor[c]
        BY <2>1, <2>2 DEF ClientInv, CursorIsSeen
    <2>3. CASE e < cursor[c]
        BY <2>1, <2>3 DEF Held, Overtaken
    <2> QED BY <2>1, <2>2, <2>3
<1> QED BY <1>2, <1>3, <1>4 DEF ClientInv

LEMMA RestartKeepsRealtimeInv ==
    ASSUME RealtimeInv, NEW s \in Servers, ServerRestarts(s)
    PROVE  RealtimeInv'
<1> USE RealtimeAssumption DEF RealtimeAssumption
<1>1. /\ dispatcher' = [dispatcher EXCEPT ![s] = "starting"]
      /\ dispatched' = [dispatched EXCEPT ![s] = lastPublished]
      /\ UNCHANGED <<lastPublished, kept, home, cursor, seen>>
    BY DEF ServerRestarts
<1>2. /\ stream' = [c \in Clients |-> IF home[c] = s THEN "off" ELSE stream[c]]
      /\ queue' = [c \in Clients |-> IF home[c] = s THEN <<>> ELSE queue[c]]
      /\ replay' = [c \in Clients |-> IF home[c] = s THEN <<>> ELSE replay[c]]
      /\ gone' = [c \in Clients |-> IF home[c] = s THEN gone[c] \cup Overtaken(c) ELSE gone[c]]
    BY DEF ServerRestarts
<1>3. \A c \in Clients : Overtaken(c) \subseteq EventIds
    BY DEF RealtimeInv, RealtimeTypes, Overtaken, QueuedFor
<1>4. /\ stream' \in [Clients -> {"off", "registered", "replaying", "live"}]
      /\ gone' \in [Clients -> SUBSET EventIds]
    BY <1>2, <1>3 DEF RealtimeInv, RealtimeTypes
<1>5. /\ queue' \in [Clients -> Seq(EventIds)] /\ replay' \in [Clients -> Seq(EventIds)]
    BY <1>2 DEF RealtimeInv, RealtimeTypes
<1>6. RealtimeTypes'
    BY <1>1, <1>4, <1>5 DEF RealtimeInv, RealtimeTypes
<1>7. ASSUME NEW c \in SseClients PROVE ClientInv(c)'
    <2>1. c \in Clients /\ home[c] \in Servers /\ ClientInv(c)
        BY DEF RealtimeInv, RealtimeTypes, Clients
    <2>2. CASE home[c] # s
        <3>1. Untouched(c)
            BY <1>1, <1>2, <2>1, <2>2 DEF Untouched, RealtimeInv, RealtimeTypes
        <3> QED BY <2>1, <3>1, ClientFrame
    <2>3. CASE home[c] = s
        BY <1>1, <1>2, <2>1, <2>3, ClosingKeepsClientInv DEF RealtimeInv
    <2> QED BY <2>2, <2>3
<1> QED BY <1>6, <1>7 DEF RealtimeInv

(* The two endpoints                                                       *)
LEMMA OpeningKeepsRealtimeInv ==
    ASSUME RealtimeInv, NEW s \in Servers, NEW c \in Clients,
           OpenWebSocket(c, s) \/ OpenEventStream(c, s)
    PROVE  RealtimeInv'
<1>1. PICK to \in {"registered", "live"} :
          /\ Register(c, s, to)
          /\ c \in SseClients => to = IF cursor[c] = 0 THEN "live" ELSE "registered"
    BY RealtimeAssumption DEF OpenWebSocket, OpenEventStream, RealtimeAssumption
<1>2. /\ stream[c] = "off"
      /\ stream' = [stream EXCEPT ![c] = to] /\ home' = [home EXCEPT ![c] = s]
      /\ UNCHANGED <<lastPublished, kept, dispatcher, dispatched, queue, replay>>
      /\ UNCHANGED <<cursor, seen, gone>>
    BY <1>1 DEF Register, clientVars
<1>3. RealtimeTypes'
    BY <1>2 DEF RealtimeInv, RealtimeTypes
<1>4. ASSUME NEW d \in SseClients PROVE ClientInv(d)'
    <2>1. d \in Clients /\ ClientInv(d)
        BY DEF RealtimeInv, Clients
    <2>2. CASE d # c
        <3>1. Untouched(d)
            BY <1>2, <2>1, <2>2 DEF Untouched, RealtimeInv, RealtimeTypes
        <3> QED BY <2>1, <3>1, ClientFrame
    <2>3. CASE d = c
        <3>1. queue[d] = <<>> /\ replay[d] = <<>> /\ stream'[d] = to
            BY <1>2, <2>1, <2>3 DEF ClientInv, ConnectionsOwnQueues, RealtimeInv, RealtimeTypes
        <3>2. QueuedFor(d)' = {} /\ QueuedFor(d) = {} /\ ToReplay(d)' = {}
            BY <1>2, <3>1 DEF QueuedFor, ToReplay
        <3>3. Held(d)' = Held(d)
            BY <1>2, <3>2 DEF Held
        <3>4. stream'[d] \in {"registered", "replaying"} => cursor[d] # 0
            BY <1>1, <2>3, <3>1
        <3>5. CursorIsSeen(d)' /\ ConnectionsOwnQueues(d)' /\ ReplayGoesForward(d)'
            BY <1>2, <2>1, <3>1, <3>4
               DEF ClientInv, CursorIsSeen, ConnectionsOwnQueues, ReplayGoesForward
        <3>6. QueueIsGapless(d)'
            BY <3>2 DEF QueueIsGapless
        <3>7. NothingBehindCursor(d)'
            BY <1>1, <1>2, <2>3, <3>1 DEF NothingBehindCursor
        <3>8. NoGap(d)'
            BY <1>2, <2>1, <3>3 DEF ClientInv, NoGap, Between
        <3> QED BY <3>5, <3>6, <3>7, <3>8 DEF ClientInv
    <2> QED BY <2>2, <2>3
<1> QED BY <1>3, <1>4 DEF RealtimeInv

(* From the read on, all that a replay does not hold is held or gone.      *)
LEMMA ReplayKeepsRealtimeInv ==
    ASSUME RealtimeInv, NEW c \in Clients, ReadReplay(c) \/ ReplayFails(c)
    PROVE  RealtimeInv'
<1> USE RealtimeAssumption DEF RealtimeAssumption
<1>1. PICK events : /\ Replaying(c, events)
                    /\ \/ /\ events = ReplaySince(cursor[c])
                          /\ gone' = [gone EXCEPT ![c] = @ \cup Unrecoverable(c)]
                       \/ /\ events = <<>>
                          /\ gone' = [gone EXCEPT ![c] = @ \cup
                                 (Between(cursor[c], lastPublished) \ (seen[c] \cup QueuedFor(c)))]
    BY DEF ReadReplay, ReplayFails
<1>2. /\ stream[c] = "registered"
      /\ stream' = [stream EXCEPT ![c] = "replaying"]
      /\ replay' = [replay EXCEPT ![c] = events]
      /\ UNCHANGED <<lastPublished, kept, dispatcher, dispatched, home, queue, cursor, seen>>
    BY <1>1 DEF Replaying
<1> DEFINE base == IF cursor[c] > kept THEN cursor[c] ELSE kept
<1>3. base \in Nat /\ cursor[c] <= base /\ cursor[c] \in Nat
    BY DEF RealtimeInv, RealtimeTypes
<1>4. \/ events = [i \in 1..(lastPublished - base) |-> base + i]
      \/ events = <<>>
    BY <1>1 DEF ReplaySince
<1> HIDE DEF base
<1>5. /\ events \in Seq(EventIds)
      /\ \A i \in DOMAIN events : events[i] > cursor[c] /\ events[i] <= lastPublished
      /\ \A i, j \in DOMAIN events : i < j => events[i] < events[j]
    <2>1. CASE events = <<>>
        BY <2>1
    <2>2. CASE events = [i \in 1..(lastPublished - base) |-> base + i]
        <3>1. CASE lastPublished <= base
            <4>1. 1..(lastPublished - base) = {}
                BY <3>1, <1>3 DEF RealtimeInv, RealtimeTypes
            <4>2. events = <<>>
                BY <4>1, <2>2
            <4> QED BY <2>1, <4>2
        <3>2. CASE lastPublished > base
            <4>1. lastPublished - base \in Nat
                BY <3>2, <1>3 DEF RealtimeInv, RealtimeTypes
            <4>2. \A i \in 1..(lastPublished - base) :
                      base + i \in EventIds /\ base + i > cursor[c] /\ base + i <= lastPublished
                BY <4>1, <1>3 DEF RealtimeInv, RealtimeTypes, EventIds
            <4>3. events \in Seq(EventIds)
                BY <2>2, <4>1, <4>2
            <4> QED BY <2>2, <4>2, <4>3, <1>3
        <3> QED BY <3>1, <3>2, <1>3 DEF RealtimeInv, RealtimeTypes
    <2> QED BY <1>4, <2>1, <2>2
<1>6. gone[c] \subseteq gone'[c] /\ gone'[c] \in SUBSET EventIds
      /\ gone' = [gone EXCEPT ![c] = gone'[c]]
    BY <1>1 DEF RealtimeInv, RealtimeTypes, Unrecoverable, Between
<1>7. RealtimeTypes'
    <2>1. gone' \in [Clients -> SUBSET EventIds]
        BY <1>6 DEF RealtimeInv, RealtimeTypes
    <2> QED BY <1>2, <1>5, <2>1 DEF RealtimeInv, RealtimeTypes
<1>8. ASSUME NEW d \in SseClients PROVE ClientInv(d)'
    <2>1. d \in Clients /\ home[d] \in Servers /\ ClientInv(d)
        BY DEF RealtimeInv, RealtimeTypes, Clients
    <2>2. CASE d # c
        <3>1. Untouched(d)
            BY <1>2, <1>6, <2>1, <2>2 DEF Untouched, RealtimeInv, RealtimeTypes
        <3> QED BY <2>1, <3>1, ClientFrame
    <2>3. CASE d = c
        <3>1. stream'[c] = "replaying" /\ replay'[c] = events /\ cursor[c] # 0
            BY <1>2, <2>1, <2>3 DEF ClientInv, ConnectionsOwnQueues, RealtimeInv, RealtimeTypes
        <3>2. QueuedFor(c)' = QueuedFor(c)
            BY <1>2 DEF QueuedFor
        <3>3. Held(c) \subseteq Held(c)'
            BY <1>2, <1>6, <3>2 DEF Held
        <3>4. CursorIsSeen(c)' /\ ConnectionsOwnQueues(c)'
            BY <1>2, <2>1, <2>3, <3>1 DEF ClientInv, CursorIsSeen, ConnectionsOwnQueues
        <3>5. ReplayGoesForward(c)'
            BY <1>2, <1>5, <3>1 DEF ReplayGoesForward
        <3>6. QueueIsGapless(c)'
            BY <1>2, <2>1, <2>3, <3>2, <3>3 DEF ClientInv, QueueIsGapless, Between
        <3>7. ASSUME NEW e \in ToCome(c)' PROVE e \in Held(c)' \cup ToReplay(c)'
            <4>1. e \in EventIds /\ e \in Nat /\ cursor[c] < e /\ e <= lastPublished
                <5>1. e \in EventIds /\ e \in Nat /\ cursor[c] < e
                    BY <1>2 DEF ToCome, EventIds
                <5>2. CASE e <= dispatched[home[c]]
                    BY <5>1, <5>2, <2>1, <2>3 DEF RealtimeInv, RealtimeTypes
                <5>3. CASE \E x \in ToReplay(c)' : e <= x
                    <6>1. PICK i \in DOMAIN events : e <= events[i]
                        BY <5>3, <3>1 DEF ToReplay
                    <6>2. events[i] <= lastPublished /\ events[i] \in Nat
                        BY <1>5 DEF EventIds
                    <6> QED BY <5>1, <6>1, <6>2 DEF RealtimeInv, RealtimeTypes
                <5> QED BY <1>2, <5>1, <5>2, <5>3 DEF ToCome
            <4>2. CASE events = <<>> /\ gone' = [gone EXCEPT ![c] = @ \cup
                                 (Between(cursor[c], lastPublished) \ (seen[c] \cup QueuedFor(c)))]
                <5>1. e \in seen[c] \cup QueuedFor(c) \cup gone'[c]
                    BY <4>1, <4>2 DEF Between, RealtimeInv, RealtimeTypes
                <5> QED BY <5>1, <1>2, <3>2 DEF Held
            <4>3. CASE /\ events = ReplaySince(cursor[c])
                       /\ gone' = [gone EXCEPT ![c] = @ \cup Unrecoverable(c)]
                <5>1. CASE e <= base
                    <6>1. e <= kept
                        BY <5>1, <4>1, <1>3 DEF base
                    <6>2. e \in seen[c] \cup QueuedFor(c) \cup gone'[c]
                        BY <4>1, <4>3, <6>1 DEF Unrecoverable, Between, RealtimeInv, RealtimeTypes
                    <6> QED BY <6>2, <1>2, <3>2 DEF Held
                <5>2. CASE e > base
                    <6>1. events = [i \in 1..(lastPublished - base) |-> base + i]
                        BY <4>3 DEF ReplaySince, base
                    <6>2. e - base \in 1..(lastPublished - base) /\ base + (e - base) = e
                        BY <4>1, <5>2, <1>3 DEF RealtimeInv, RealtimeTypes
                    <6>3. e - base \in DOMAIN events /\ events[e - base] = e
                        BY <6>1, <6>2
                    <6> QED BY <6>3, <3>1 DEF ToReplay
                <5> QED BY <5>1, <5>2, <4>1, <1>3
            <4> QED BY <1>1, <4>2, <4>3
        <3>8. NothingBehindCursor(c)'
            BY <3>7 DEF NothingBehindCursor
        <3>9. NoGap(c)'
            BY <1>2, <2>1, <2>3, <3>3 DEF ClientInv, NoGap, Between
        <3> QED BY <2>3, <3>4, <3>5, <3>6, <3>8, <3>9 DEF ClientInv
    <2> QED BY <2>2, <2>3
<1> QED BY <1>7, <1>8 DEF RealtimeInv

LEMMA ReplayDoneKeepsRealtimeInv ==
    ASSUME RealtimeInv, NEW c \in Clients, ReplayDone(c)
    PROVE  RealtimeInv'
<1>1. /\ stream[c] = "replaying" /\ replay[c] = <<>>
      /\ stream' = [stream EXCEPT ![c] = "live"]
      /\ UNCHANGED <<lastPublished, kept, dispatcher, dispatched, home, queue, replay>>
      /\ UNCHANGED <<cursor, seen, gone>>
    BY DEF ReplayDone, clientVars
<1>2. RealtimeTypes'
    BY <1>1 DEF RealtimeInv, RealtimeTypes
<1>3. ASSUME NEW d \in SseClients PROVE ClientInv(d)'
    <2>1. d \in Clients /\ ClientInv(d)
        BY DEF RealtimeInv, Clients
    <2>2. CASE d # c
        <3>1. Untouched(d)
            BY <1>1, <2>1, <2>2 DEF Untouched, RealtimeInv, RealtimeTypes
        <3> QED BY <2>1, <3>1, ClientFrame
    <2>3. CASE d = c
        <3>1. stream'[d] = "live"
            BY <1>1, <2>1, <2>3 DEF RealtimeInv, RealtimeTypes
        <3>2. /\ QueuedFor(d)' = QueuedFor(d) /\ ToReplay(d)' = ToReplay(d)
              /\ ToCome(d)' = ToCome(d) /\ Held(d)' = Held(d)
            BY <1>1 DEF QueuedFor, ToReplay, ToCome, Held
        <3>3. CursorIsSeen(d)' /\ ConnectionsOwnQueues(d)' /\ ReplayGoesForward(d)'
            BY <1>1, <2>1, <2>3, <3>1
               DEF ClientInv, CursorIsSeen, ConnectionsOwnQueues, ReplayGoesForward
        <3>4. QueueIsGapless(d)' /\ NoGap(d)'
            BY <1>1, <2>1, <3>2 DEF ClientInv, QueueIsGapless, NoGap, Between
        <3>5. NothingBehindCursor(d)'
            BY <1>1, <2>1, <2>3, <3>2 DEF ClientInv, NothingBehindCursor
        <3> QED BY <3>3, <3>4, <3>5 DEF ClientInv
    <2> QED BY <2>2, <2>3
<1> QED BY <1>2, <1>3 DEF RealtimeInv

(* What a client receives was held: by its replay, whose first event is    *)
(* the least, or by its queue, behind which nothing is missing.            *)
LEMMA ReceiveKeepsRealtimeInv ==
    ASSUME RealtimeInv, NEW c \in Clients, SendReplayed(c) \/ SendLive(c)
    PROVE  RealtimeInv'
<1> USE RealtimeAssumption DEF RealtimeAssumption
<1>1. PICK x :
          /\ Receive(c, x)
          /\ \/ /\ stream[c] = "replaying" /\ replay[c] # <<>> /\ x = Head(replay[c])
                /\ replay' = [replay EXCEPT ![c] = Tail(@)] /\ queue' = queue
             \/ /\ stream[c] = "live" /\ queue[c] # <<>> /\ x = Head(queue[c])
                /\ queue' = [queue EXCEPT ![c] = Tail(@)] /\ replay' = replay
          /\ UNCHANGED stream
    BY DEF SendReplayed, SendLive
<1>2. /\ cursor' = [cursor EXCEPT ![c] = x]
      /\ seen' = [seen EXCEPT ![c] = @ \cup {x}]
      /\ gone' = [gone EXCEPT ![c] = @ \ {x}]
      /\ UNCHANGED <<lastPublished, kept, dispatcher, dispatched, home, stream>>
    BY <1>1 DEF Receive
<1>3. queue[c] \in Seq(EventIds) /\ replay[c] \in Seq(EventIds)
    BY DEF RealtimeInv, RealtimeTypes
<1>4. x \in EventIds /\ x \in Nat \ {0} /\ x <= MaxEvents
    <2>1. x \in EventIds
        BY <1>1, <1>3, ElementsOfTail
    <2> QED BY <2>1 DEF EventIds
<1>5. queue' \in [Clients -> Seq(EventIds)] /\ replay' \in [Clients -> Seq(EventIds)]
    <2>1. /\ replay[c] # <<>> => Tail(replay[c]) \in Seq(EventIds)
          /\ queue[c] # <<>> => Tail(queue[c]) \in Seq(EventIds)
        BY <1>3, ElementsOfTail
    <2> QED BY <1>1, <2>1, ZenonT(60) DEF RealtimeInv, RealtimeTypes
<1>6. RealtimeTypes'
    <2>1. cursor' \in [Clients -> 0..MaxEvents]
        BY <1>2, <1>4 DEF RealtimeInv, RealtimeTypes
    <2>2. seen' \in [Clients -> SUBSET EventIds] /\ gone' \in [Clients -> SUBSET EventIds]
        BY <1>2, <1>4 DEF RealtimeInv, RealtimeTypes
    <2> QED BY <1>2, <1>5, <2>1, <2>2 DEF RealtimeInv, RealtimeTypes
<1>7. ASSUME NEW d \in SseClients PROVE ClientInv(d)'
    <2>1. d \in Clients /\ ClientInv(d) /\ home[d] \in Servers
        BY DEF RealtimeInv, RealtimeTypes, Clients
    <2>2. CASE d # c
        <3>1. Untouched(d)
            BY <1>1, <1>2, <2>1, <2>2 DEF Untouched, RealtimeInv, RealtimeTypes
        <3> QED BY <2>1, <3>1, ClientFrame
    <2>3. CASE d = c
        <3>1. /\ cursor'[c] = x /\ seen'[c] = seen[c] \cup {x} /\ gone'[c] = gone[c] \ {x}
              /\ cursor[c] \in Nat
            BY <1>2 DEF RealtimeInv, RealtimeTypes
        <3>2. QueuedFor(c) \subseteq QueuedFor(c)' \cup {x} /\ QueuedFor(c)' \subseteq QueuedFor(c)
            <4>1. CASE queue' = queue
                BY <4>1 DEF QueuedFor
            <4>2. CASE queue' # queue
                <5>1. queue[c] # <<>> /\ x = Head(queue[c]) /\ queue'[c] = Tail(queue[c])
                    BY <1>1, <4>2 DEF RealtimeInv, RealtimeTypes
                <5>2. Elements(queue[c]) = {x} \cup Elements(queue'[c])
                    BY <5>1, <1>3, ElementsAfterTail
                <5> QED BY <5>2 DEF QueuedFor, Elements
            <4> QED BY <4>1, <4>2
        <3>3. ToReplay(c) \subseteq ToReplay(c)' \cup {x} /\ ToReplay(c)' \subseteq ToReplay(c)
            <4>1. CASE replay' = replay
                BY <4>1 DEF ToReplay
            <4>2. CASE replay' # replay
                <5>1. replay[c] # <<>> /\ x = Head(replay[c]) /\ replay'[c] = Tail(replay[c])
                    BY <1>1, <4>2 DEF RealtimeInv, RealtimeTypes
                <5>2. Elements(replay[c]) = {x} \cup Elements(replay'[c])
                    BY <5>1, <1>3, ElementsAfterTail
                <5> QED BY <5>2 DEF ToReplay, Elements
            <4> QED BY <4>1, <4>2
        <3>4. Held(c) \subseteq Held(c)' /\ x \in Held(c)'
            BY <3>1, <3>2 DEF Held
        <3>5. CursorIsSeen(c)'
            BY <3>1, <1>4 DEF CursorIsSeen
        <3>6. ConnectionsOwnQueues(c)'
            <4>1. queue[c] = <<>> => queue'[c] = <<>>
                BY <1>1
            <4>2. stream[c] # "replaying" => replay'[c] = replay[c]
                BY <1>1
            <4> QED BY <1>2, <1>4, <2>1, <2>3, <3>1, <4>1, <4>2 DEF ClientInv, ConnectionsOwnQueues
        <3>7. QueueIsGapless(c)'
            BY <1>2, <2>1, <2>3, <3>2, <3>4 DEF ClientInv, QueueIsGapless, Between
        <3>8. ASSUME stream[c] = "replaying"
              PROVE  /\ ReplayGoesForward(c)' /\ NothingBehindCursor(c)'
                     /\ \A e \in EventIds : cursor[c] # 0 /\ cursor[c] < e /\ e <= x => e \in Held(c)'
            <4>1. /\ replay[c] # <<>> /\ x = Head(replay[c]) /\ replay'[c] = Tail(replay[c])
                  /\ cursor[c] # 0
                BY <1>1, <2>1, <2>3, <3>8
                   DEF ClientInv, ConnectionsOwnQueues, RealtimeInv, RealtimeTypes
            <4>2. /\ Len(replay[c]) \in Nat \ {0} /\ DOMAIN replay[c] = 1..Len(replay[c])
                  /\ DOMAIN replay'[c] = 1..(Len(replay[c]) - 1) /\ x = replay[c][1]
                  /\ \A i \in DOMAIN replay'[c] : replay'[c][i] = replay[c][i + 1]
                BY <1>3, <4>1
            <4>3. \A i \in DOMAIN replay[c] : i # 1 => x < replay[c][i]
                BY <4>2, <2>1, <2>3 DEF ClientInv, ReplayGoesForward
            <4>4. ReplayGoesForward(c)'
                <5>1. \A i \in DOMAIN replay'[c] : i + 1 \in DOMAIN replay[c] /\ i + 1 # 1
                    BY <4>2
                <5>2. \A i, j \in DOMAIN replay'[c] : i < j => i + 1 < j + 1
                    BY <4>2
                <5>3. \A i \in DOMAIN replay'[c] : cursor'[c] < replay'[c][i]
                    BY <3>1, <4>2, <4>3, <5>1
                <5>4. \A i, j \in DOMAIN replay'[c] : i < j => replay'[c][i] < replay'[c][j]
                    BY <2>1, <2>3, <4>2, <5>1, <5>2 DEF ClientInv, ReplayGoesForward
                <5> QED BY <5>3, <5>4 DEF ReplayGoesForward
            <4>5. \A y \in ToReplay(c) : y = x \/ x < y
                BY <4>2, <4>3 DEF ToReplay
            <4>6. cursor[c] < x /\ x \in ToReplay(c)
                BY <2>1, <2>3, <4>2 DEF ClientInv, ReplayGoesForward, ToReplay
            <4>7. ToCome(c) \subseteq Held(c) \cup ToReplay(c)
                BY <2>1, <2>3, <3>8, <4>1 DEF ClientInv, NothingBehindCursor
            <4>8. NothingBehindCursor(c)'
                <5>1. ASSUME NEW e \in ToCome(c)' PROVE e \in ToCome(c) \ {x}
                    <6>1. e \in EventIds /\ e \in Nat /\ x < e
                        BY <3>1 DEF ToCome, EventIds
                    <6>2. e <= dispatched[home[c]] \/ \E y \in ToReplay(c) : e <= y
                        BY <1>2, <3>3 DEF ToCome
                    <6>3. cursor[c] < e
                        BY <6>1, <4>6, <3>1, <1>4
                    <6> QED BY <6>1, <6>2, <6>3, <1>4 DEF ToCome
                <5> QED BY <5>1, <4>7, <3>3, <3>4 DEF NothingBehindCursor
            <4>9. ASSUME NEW e \in EventIds, cursor[c] < e, e <= x PROVE e \in Held(c)'
                <5>1. e \in ToCome(c)
                    BY <4>6, <4>9 DEF ToCome
                <5>2. e \in Nat
                    BY DEF EventIds
                <5> QED BY <5>1, <5>2, <4>5, <4>7, <4>9, <3>4, <1>4
            <4> QED BY <4>4, <4>8, <4>9
        <3>9. ASSUME stream[c] = "live"
              PROVE  /\ ReplayGoesForward(c)' /\ NothingBehindCursor(c)'
                     /\ \A e \in EventIds : cursor[c] # 0 /\ cursor[c] < e /\ e <= x => e \in Held(c)'
            <4>1. queue[c] # <<>> /\ x = Head(queue[c]) /\ replay'[c] = <<>> /\ replay[c] = <<>>
                BY <1>1, <2>1, <2>3, <3>9 DEF ClientInv, ConnectionsOwnQueues
            <4>2. ToReplay(c) = {} /\ ToReplay(c)' = {}
                BY <4>1 DEF ToReplay
            <4>3. x \in QueuedFor(c)
                BY <1>3, <4>1, ElementsOfTail DEF QueuedFor
            <4>4. x <= dispatched[home[c]] /\ Between(x, dispatched[home[c]]) \subseteq Held(c)
                BY <2>1, <2>3, <4>3 DEF ClientInv, QueueIsGapless
            <4>5. ReplayGoesForward(c)'
                BY <4>1 DEF ReplayGoesForward
            <4>6. NothingBehindCursor(c)'
                <5>1. ToCome(c)' \subseteq Between(x, dispatched[home[c]])
                    BY <1>2, <3>1, <4>2 DEF ToCome, Between
                <5> QED BY <5>1, <4>4, <3>4 DEF NothingBehindCursor
            <4>7. ASSUME NEW e \in EventIds, cursor[c] # 0, cursor[c] < e, e <= x PROVE e \in Held(c)'
                <5>1. dispatched[home[c]] \in Nat /\ e \in Nat
                    BY <2>1, <2>3 DEF RealtimeInv, RealtimeTypes, EventIds
                <5>2. e \in ToCome(c)
                    BY <1>4, <4>4, <4>7, <5>1 DEF ToCome
                <5> QED BY <5>2, <2>1, <2>3, <3>4, <3>9, <4>2, <4>7 DEF ClientInv, NothingBehindCursor
            <4> QED BY <4>5, <4>6, <4>7
        <3>10. NoGap(c)'
            <4> SUFFICES ASSUME NEW f \in seen[c] \cup {x}, NEW e \in Between(f, x)
                         PROVE  e \in Held(c)'
                BY <3>1 DEF NoGap, Between
            <4>1. e \in EventIds /\ e \in Nat /\ e <= x /\ f < e
                BY DEF Between, EventIds
            <4>2. CASE f = x
                BY <4>1, <4>2, <1>4
            <4>3. CASE f \in seen[c] /\ e <= cursor[c]
                BY <4>1, <4>3, <2>1, <2>3, <3>4 DEF ClientInv, NoGap, Between
            <4>4. CASE f \in seen[c] /\ cursor[c] < e
                <5>1. cursor[c] # 0
                    BY <4>4, <2>1, <2>3 DEF ClientInv, CursorIsSeen
                <5> QED BY <5>1, <4>1, <4>4, <3>8, <3>9, <1>1
            <4> QED BY <4>1, <4>2, <4>3, <4>4, <3>1
        <3> QED BY <1>1, <2>3, <3>5, <3>6, <3>7, <3>8, <3>9, <3>10 DEF ClientInv
    <2> QED BY <2>2, <2>3
<1> QED BY <1>6, <1>7 DEF RealtimeInv

LEMMA CloseKeepsRealtimeInv ==
    ASSUME RealtimeInv, NEW c \in Clients, Close(c)
    PROVE  RealtimeInv'
<1>1. /\ stream' = [stream EXCEPT ![c] = "off"]
      /\ queue' = [queue EXCEPT ![c] = <<>>] /\ replay' = [replay EXCEPT ![c] = <<>>]
      /\ gone' = [gone EXCEPT ![c] = @ \cup Overtaken(c)]
      /\ UNCHANGED <<lastPublished, kept, dispatcher, dispatched, home, cursor, seen>>
    BY DEF Close
<1>2. Overtaken(c) \subseteq EventIds
    BY DEF RealtimeInv, RealtimeTypes, Overtaken, QueuedFor
<1>3. queue' \in [Clients -> Seq(EventIds)] /\ replay' \in [Clients -> Seq(EventIds)]
    BY <1>1 DEF RealtimeInv, RealtimeTypes
<1>4. RealtimeTypes'
    BY <1>1, <1>2, <1>3 DEF RealtimeInv, RealtimeTypes
<1>5. ASSUME NEW d \in SseClients PROVE ClientInv(d)'
    <2>1. d \in Clients /\ ClientInv(d)
        BY DEF RealtimeInv, Clients
    <2>2. CASE d # c
        <3>1. Untouched(d)
            BY <1>1, <2>1, <2>2 DEF Untouched, RealtimeInv, RealtimeTypes
        <3> QED BY <2>1, <3>1, ClientFrame
    <2>3. CASE d = c
        <3>1. stream'[d] = "off" /\ queue'[d] = <<>> /\ replay'[d] = <<>>
              /\ gone'[d] = gone[d] \cup Overtaken(d)
            BY <1>1, <2>1, <2>3 DEF RealtimeInv, RealtimeTypes
        <3> QED BY <1>1, <2>1, <3>1, ClosingKeepsClientInv DEF RealtimeInv
    <2> QED BY <2>2, <2>3
<1> QED BY <1>4, <1>5 DEF RealtimeInv

LEMMA RealtimeStep == RealtimeInv /\ [RealtimeNext]_realtimeVars => RealtimeInv'
<1> SUFFICES ASSUME RealtimeInv, [RealtimeNext]_realtimeVars PROVE RealtimeInv'
    OBVIOUS
<1>1. CASE PublishEvent \/ BufferExpires
    BY <1>1, PublisherKeepsRealtimeInv
<1>2. ASSUME NEW s \in Servers,
             \/ Subscribe(s) \/ DispatchNext(s) \/ DispatchLoopCrashes(s) \/ ServerRestarts(s)
             \/ \E c \in Clients : OpenWebSocket(c, s) \/ OpenEventStream(c, s)
      PROVE  RealtimeInv'
    BY <1>2, SubscribeKeepsRealtimeInv, DispatchKeepsRealtimeInv, PublisherKeepsRealtimeInv,
       RestartKeepsRealtimeInv, OpeningKeepsRealtimeInv
<1>3. ASSUME NEW c \in Clients,
             Deliver(c) \/ ReplayFails(c) \/ HeartbeatEndsStream(c) \/ Disconnect(c)
      PROVE  RealtimeInv'
    BY <1>3, ReplayKeepsRealtimeInv, ReceiveKeepsRealtimeInv, ReplayDoneKeepsRealtimeInv,
       CloseKeepsRealtimeInv DEF Deliver, HeartbeatEndsStream, Disconnect
<1>4. CASE UNCHANGED realtimeVars
    <2>1. /\ UNCHANGED <<lastPublished, kept, dispatcher, dispatched>>
          /\ UNCHANGED <<stream, home, queue, replay>> /\ UNCHANGED <<cursor, seen, gone>>
        BY <1>4 DEF realtimeVars, streamVars, clientVars
    <2>2. RealtimeTypes'
        BY <2>1 DEF RealtimeInv, RealtimeTypes
    <2>3. \A c \in SseClients : Untouched(c)
        BY <2>1 DEF Untouched
    <2> QED BY <2>2, <2>3, ClientFrame DEF RealtimeInv
<1> QED BY <1>1, <1>2, <1>3, <1>4 DEF RealtimeNext

(* GapsAreExplained, in every state and for any number of processes and    *)
(* clients: whatever an event stream has not received between two events   *)
(* it has, is in its queue, or was lost in one of the ways event_bus.py    *)
(* and connection_manager.py accept.                                       *)
THEOREM StreamsMissNothingSilently == RealtimeSpec => []GapsAreExplained
<1>1. RealtimeInv => GapsAreExplained
    BY DEF RealtimeInv, ClientInv, NoGap, Held, GapsAreExplained
<1> QED BY <1>1, InitRealtimeInv, RealtimeStep, PTL DEF RealtimeSpec

(* The bounds of the buffer and of the queues, and that nothing but what   *)
(* was published is anywhere: each stream has its part of them.            *)
PublishedOnly(c) ==
    /\ QueuedFor(c) \cup ToReplay(c) \cup seen[c] \cup gone[c] \subseteq 1..lastPublished
    /\ cursor[c] \in 0..lastPublished

RealtimeBounds ==
    /\ kept \in 0..lastPublished /\ lastPublished - kept <= BufferSize
    /\ outages \in 0..MaxOutages
    /\ \A c \in Clients : PublishedOnly(c) /\ Len(queue[c]) <= QueueMaxsize

(* A step that only takes away from what a client holds keeps its part.    *)
LEMMA FewerKeepsBounds ==
    ASSUME RealtimeTypes, RealtimeTypes', NEW c \in Clients,
           PublishedOnly(c), Len(queue[c]) <= QueueMaxsize,
           lastPublished <= lastPublished',
           queue'[c] \in {queue[c], <<>>}, replay'[c] \in {replay[c], <<>>},
           cursor'[c] = cursor[c], seen'[c] = seen[c],
           gone'[c] \subseteq gone[c] \cup 1..lastPublished'
    PROVE  PublishedOnly(c)' /\ Len(queue'[c]) <= QueueMaxsize
<1>1. lastPublished \in Nat /\ lastPublished' \in Nat /\ QueueMaxsize \in Nat
    BY RealtimeAssumption DEF RealtimeTypes, RealtimeAssumption
<1>2. 1..lastPublished \subseteq 1..lastPublished' /\ 0..lastPublished \subseteq 0..lastPublished'
    BY <1>1
<1>3. QueuedFor(c)' \subseteq QueuedFor(c) /\ ToReplay(c)' \subseteq ToReplay(c)
    <2>1. \A x : Elements(<<>>) \subseteq Elements(x)
        BY DEF Elements
    <2>2. /\ QueuedFor(c) = Elements(queue[c]) /\ QueuedFor(c)' = Elements(queue'[c])
          /\ ToReplay(c) = Elements(replay[c]) /\ ToReplay(c)' = Elements(replay'[c])
        BY DEF Elements, QueuedFor, ToReplay
    <2> QED BY <2>1, <2>2
<1>4. Len(queue'[c]) <= QueueMaxsize
    <2>1. Len(<<>>) = 0
        OBVIOUS
    <2> QED BY <1>1, <2>1
<1>5. /\ QueuedFor(c)' \subseteq 1..lastPublished' /\ ToReplay(c)' \subseteq 1..lastPublished'
      /\ seen'[c] \subseteq 1..lastPublished' /\ gone'[c] \subseteq 1..lastPublished'
      /\ cursor'[c] \in 0..lastPublished'
    BY <1>2, <1>3 DEF PublishedOnly
<1> QED BY <1>4, <1>5 DEF PublishedOnly

LEMMA ServersKeepBounds ==
    ASSUME RealtimeTypes, RealtimeTypes', RealtimeBounds, NEW s \in Servers,
           \/ PublishEvent \/ BufferExpires
           \/ Subscribe(s) \/ DispatchLoopCrashes(s) \/ ServerRestarts(s)
           \/ \E c \in Clients : OpenWebSocket(c, s) \/ OpenEventStream(c, s)
    PROVE  RealtimeBounds'
<1> USE RealtimeAssumption DEF RealtimeAssumption
<1>1. /\ lastPublished \in Nat /\ kept \in Nat /\ dispatched[s] \in Nat
      /\ kept <= lastPublished /\ lastPublished - kept <= BufferSize
      /\ outages \in 0..MaxOutages
    BY DEF RealtimeTypes, RealtimeBounds
<1>2. /\ lastPublished <= lastPublished' /\ lastPublished' \in Nat /\ kept' \in Nat
      /\ kept' <= lastPublished' /\ lastPublished' - kept' <= BufferSize
    <2>1. CASE PublishEvent
        BY <1>1, <2>1 DEF PublishEvent
    <2>2. CASE BufferExpires
        BY <1>1, <2>2 DEF BufferExpires
    <2>3. CASE ~PublishEvent /\ ~BufferExpires
        <3>1. lastPublished' = lastPublished /\ kept' = kept
            BY <2>3 DEF Subscribe, DispatchLoopCrashes, ServerRestarts, OpenWebSocket,
                        OpenEventStream, Register
        <3> QED BY <1>1, <3>1
    <2> QED BY <2>1, <2>2, <2>3
<1>3. outages' \in 0..MaxOutages
    <2>1. outages' = outages \/ (outages < MaxOutages /\ outages' = outages + 1)
        BY DEF PublishEvent, BufferExpires, Subscribe, DispatchLoopCrashes, ServerRestarts,
               OpenWebSocket, OpenEventStream, Register, Outage
    <2> QED BY <1>1, <2>1
<1>4. ASSUME NEW c \in Clients
      PROVE  PublishedOnly(c)' /\ Len(queue'[c]) <= QueueMaxsize
    <2>1. PublishedOnly(c) /\ Len(queue[c]) <= QueueMaxsize
        BY DEF RealtimeBounds
    <2>2. cursor'[c] = cursor[c] /\ seen'[c] = seen[c]
        BY DEF PublishEvent, BufferExpires, Subscribe, DispatchLoopCrashes, ServerRestarts,
               OpenWebSocket, OpenEventStream, Register, clientVars
    <2>3. queue'[c] \in {queue[c], <<>>} /\ replay'[c] \in {replay[c], <<>>}
        BY DEF PublishEvent, BufferExpires, Subscribe, DispatchLoopCrashes, ServerRestarts,
               OpenWebSocket, OpenEventStream, Register, streamVars
    <2>4. gone'[c] \subseteq gone[c] \cup 1..lastPublished'
        <3>1. CASE Subscribe(s)
            <4>1. gone'[c] \subseteq gone[c] \cup Between(dispatched[s], lastPublished)
                BY <3>1 DEF Subscribe
            <4>2. Between(dispatched[s], lastPublished) \subseteq 1..lastPublished'
                BY <1>1, <1>2 DEF Between, EventIds
            <4> QED BY <4>1, <4>2
        <3>2. CASE ServerRestarts(s)
            <4>1. gone'[c] \subseteq gone[c] \cup QueuedFor(c)
                BY <3>2 DEF ServerRestarts, Overtaken
            <4>2. QueuedFor(c) \subseteq 1..lastPublished'
                BY <1>1, <1>2, <2>1 DEF PublishedOnly
            <4> QED BY <4>1, <4>2
        <3>3. CASE ~Subscribe(s) /\ ~ServerRestarts(s)
            BY <3>3 DEF PublishEvent, BufferExpires, DispatchLoopCrashes,
                        OpenWebSocket, OpenEventStream, Register, clientVars
        <3> QED BY <3>1, <3>2, <3>3
    <2> QED BY <1>2, <2>1, <2>2, <2>3, <2>4, FewerKeepsBounds
<1>5. kept' \in 0..lastPublished'
    BY <1>2
<1> QED BY <1>2, <1>3, <1>4, <1>5 DEF RealtimeBounds

LEMMA DispatchKeepsBounds ==
    ASSUME RealtimeTypes, RealtimeTypes', RealtimeBounds, NEW s \in Servers, DispatchNext(s)
    PROVE  RealtimeBounds'
<1> USE RealtimeAssumption DEF RealtimeAssumption
<1> DEFINE e == dispatched[s] + 1
<1>1. /\ lastPublished \in Nat /\ e \in 1..lastPublished /\ e \in EventIds
      /\ UNCHANGED <<lastPublished, kept, replay, cursor, seen, outages>>
    BY DEF RealtimeTypes, DispatchNext, EventIds
<1>2. ASSUME NEW c \in Clients
      PROVE  PublishedOnly(c)' /\ Len(queue'[c]) <= QueueMaxsize
    <2>1. PublishedOnly(c) /\ Len(queue[c]) <= QueueMaxsize /\ queue[c] \in Seq(EventIds)
        BY DEF RealtimeBounds, RealtimeTypes
    <2>2. \/ queue'[c] = queue[c]
          \/ ~Full(c) /\ queue'[c] = Append(queue[c], e)
        BY DEF DispatchNext
    <2>3. gone'[c] \subseteq gone[c] \cup {e}
        BY DEF DispatchNext
    <2> HIDE DEF e
    <2>4. QueuedFor(c)' \subseteq QueuedFor(c) \cup {e}
        BY <1>1, <2>1, <2>2, QueuedAfterAppend
    <2>5. ToReplay(c)' = ToReplay(c)
        BY <1>1 DEF ToReplay
    <2>6. Len(queue'[c]) <= QueueMaxsize
        <3>1. CASE queue'[c] = queue[c]
            BY <2>1, <3>1
        <3>2. CASE ~Full(c) /\ queue'[c] = Append(queue[c], e)
            <4>1. Len(queue[c]) \in Nat /\ Len(queue'[c]) = Len(queue[c]) + 1
                BY <1>1, <2>1, <3>2
            <4> QED BY <3>2, <4>1 DEF Full
        <3> QED BY <2>2, <3>1, <3>2
    <2> QED BY <1>1, <2>1, <2>3, <2>4, <2>5, <2>6 DEF PublishedOnly
<1> QED BY <1>1, <1>2 DEF RealtimeBounds

LEMMA ReceivedKeepBounds ==
    ASSUME RealtimeTypes, RealtimeTypes', RealtimeBounds, NEW c \in Clients,
           SendReplayed(c) \/ SendLive(c)
    PROVE  RealtimeBounds'
<1> USE RealtimeAssumption DEF RealtimeAssumption
<1>1. /\ lastPublished \in Nat /\ PublishedOnly(c) /\ Len(queue[c]) <= QueueMaxsize
      /\ queue[c] \in Seq(EventIds) /\ replay[c] \in Seq(EventIds)
    BY DEF RealtimeBounds, RealtimeTypes
<1>2. PICK x :
          /\ Receive(c, x)
          /\ \/ /\ replay[c] # <<>> /\ x = Head(replay[c])
                /\ replay' = [replay EXCEPT ![c] = Tail(@)] /\ queue' = queue
             \/ /\ queue[c] # <<>> /\ x = Head(queue[c])
                /\ queue' = [queue EXCEPT ![c] = Tail(@)] /\ replay' = replay
    BY DEF SendReplayed, SendLive
<1>3. /\ cursor' = [cursor EXCEPT ![c] = x]
      /\ seen' = [seen EXCEPT ![c] = @ \cup {x}]
      /\ gone' = [gone EXCEPT ![c] = @ \ {x}]
      /\ UNCHANGED <<lastPublished, kept, outages>>
    BY <1>2 DEF Receive
<1>4. /\ x \in QueuedFor(c) \cup ToReplay(c)
      /\ QueuedFor(c)' \subseteq QueuedFor(c) /\ ToReplay(c)' \subseteq ToReplay(c)
      /\ Len(queue'[c]) <= QueueMaxsize
    <2>1. /\ QueuedFor(c) = Elements(queue[c]) /\ QueuedFor(c)' = Elements(queue'[c])
          /\ ToReplay(c) = Elements(replay[c]) /\ ToReplay(c)' = Elements(replay'[c])
        BY DEF Elements, QueuedFor, ToReplay
    <2>2. CASE replay[c] # <<>> /\ x = Head(replay[c])
               /\ replay' = [replay EXCEPT ![c] = Tail(@)] /\ queue' = queue
        <3>1. replay'[c] = Tail(replay[c]) /\ queue'[c] = queue[c]
            BY <2>2 DEF RealtimeTypes
        <3>2. Elements(replay[c]) = {x} \cup Elements(Tail(replay[c]))
            BY <1>1, <2>2, ElementsAfterTail
        <3> QED BY <1>1, <2>1, <3>1, <3>2
    <2>3. CASE queue[c] # <<>> /\ x = Head(queue[c])
               /\ queue' = [queue EXCEPT ![c] = Tail(@)] /\ replay' = replay
        <3>1. queue'[c] = Tail(queue[c]) /\ replay'[c] = replay[c]
            BY <2>3 DEF RealtimeTypes
        <3>2. Elements(queue[c]) = {x} \cup Elements(Tail(queue[c]))
            BY <1>1, <2>3, ElementsAfterTail
        <3>3. Len(Tail(queue[c])) = Len(queue[c]) - 1 /\ Len(queue[c]) \in Nat
            BY <1>1, <2>3
        <3>4. Len(queue'[c]) <= QueueMaxsize
            BY <1>1, <3>1, <3>3
        <3> QED BY <2>1, <3>1, <3>2, <3>4
    <2> QED BY <1>2, <2>2, <2>3
<1>5. x \in 1..lastPublished
    BY <1>1, <1>4 DEF PublishedOnly
<1>6. ASSUME NEW d \in Clients
      PROVE  PublishedOnly(d)' /\ Len(queue'[d]) <= QueueMaxsize
    <2>1. CASE d = c
        <3>1. cursor'[c] = x /\ seen'[c] = seen[c] \cup {x} /\ gone'[c] \subseteq gone[c]
            BY <1>3 DEF RealtimeTypes
        <3>2. cursor'[c] \in 0..lastPublished'
            BY <1>1, <1>3, <1>5, <3>1
        <3>3. QueuedFor(c)' \cup ToReplay(c)' \cup seen'[c] \cup gone'[c] \subseteq 1..lastPublished'
            BY <1>1, <1>3, <1>4, <1>5, <3>1 DEF PublishedOnly
        <3> QED BY <1>4, <2>1, <3>2, <3>3 DEF PublishedOnly
    <2>2. CASE d # c
        <3>1. /\ PublishedOnly(d) /\ Len(queue[d]) <= QueueMaxsize
              /\ queue'[d] = queue[d] /\ replay'[d] = replay[d] /\ cursor'[d] = cursor[d]
              /\ seen'[d] = seen[d] /\ gone'[d] = gone[d]
            BY <1>2, <1>3, <2>2 DEF RealtimeBounds, RealtimeTypes
        <3>2. /\ lastPublished <= lastPublished'
              /\ queue'[d] \in {queue[d], <<>>} /\ replay'[d] \in {replay[d], <<>>}
              /\ gone'[d] \subseteq gone[d] \cup 1..lastPublished'
            BY <1>1, <1>3, <3>1
        <3> QED BY <3>1, <3>2, FewerKeepsBounds
    <2> QED BY <2>1, <2>2
<1> QED BY <1>3, <1>6 DEF RealtimeBounds

(* The replay reads what the buffer holds after an event; closing and the  *)
(* end of a replay only take away.                                         *)
LEMMA StreamsKeepBounds ==
    ASSUME RealtimeTypes, RealtimeTypes', RealtimeBounds, NEW c \in Clients,
           ReadReplay(c) \/ ReplayFails(c) \/ ReplayDone(c) \/ HeartbeatEndsStream(c) \/ Disconnect(c)
    PROVE  RealtimeBounds'
<1> USE RealtimeAssumption DEF RealtimeAssumption
<1>1. /\ lastPublished \in Nat /\ kept \in Nat /\ kept <= lastPublished
      /\ cursor[c] \in Nat /\ cursor[c] <= lastPublished
      /\ PublishedOnly(c) /\ outages \in 0..MaxOutages
    BY DEF RealtimeBounds, RealtimeTypes, PublishedOnly
<1>2. UNCHANGED <<lastPublished, kept, cursor, seen>>
    BY DEF ReadReplay, ReplayFails, Replaying, ReplayDone, HeartbeatEndsStream, Disconnect,
           Close, clientVars
<1>3. outages' \in 0..MaxOutages
    <2>1. outages' = outages \/ (outages < MaxOutages /\ outages' = outages + 1)
        BY DEF ReadReplay, ReplayFails, ReplayDone, HeartbeatEndsStream, Disconnect, Outage
    <2> QED BY <1>1, <2>1
<1>4. QueuedFor(c) \subseteq 1..lastPublished
    BY <1>1 DEF PublishedOnly
<1>5. PICK lost \in SUBSET (1..lastPublished) : gone' \in {gone, [gone EXCEPT ![c] = @ \cup lost]}
    <2>1. CASE ReadReplay(c)
        <3>1. Unrecoverable(c) \subseteq 1..lastPublished
            BY <1>1 DEF Unrecoverable, Between, EventIds
        <3> QED BY <2>1, <3>1 DEF ReadReplay
    <2>2. CASE ReplayFails(c)
        <3>1. Between(cursor[c], lastPublished) \ (seen[c] \cup QueuedFor(c)) \subseteq 1..lastPublished
            BY <1>1 DEF Between, EventIds
        <3> QED BY <2>2, <3>1 DEF ReplayFails
    <2>3. CASE ReplayDone(c)
        <3>1. {} \subseteq 1..lastPublished /\ gone' = gone
            BY <2>3 DEF ReplayDone, clientVars
        <3> QED BY <3>1
    <2>4. CASE HeartbeatEndsStream(c) \/ Disconnect(c)
        <3>1. Overtaken(c) \subseteq 1..lastPublished
            BY <1>4 DEF Overtaken
        <3> QED BY <2>4, <3>1 DEF HeartbeatEndsStream, Disconnect, Close
    <2> QED BY <2>1, <2>2, <2>3, <2>4
<1>6. ASSUME NEW d \in Clients PROVE gone'[d] \subseteq gone[d] \cup 1..lastPublished'
    <2> DEFINE more == [gone EXCEPT ![c] = @ \cup lost]
    <2>0. more[d] \in {gone[d], gone[d] \cup lost}
        BY DEF RealtimeTypes
    <2>1. gone'[d] \in {gone[d], gone[d] \cup lost}
        <3> HIDE DEF more
        <3>1. gone' = gone \/ gone' = more
            BY <1>5 DEF more
        <3> QED BY <2>0, <3>1
    <2> QED BY <1>2, <2>1
<1>7. ASSUME NEW d \in Clients
      PROVE  /\ queue'[d] \in {queue[d], <<>>}
             /\ d # c \/ ~ReadReplay(c) => replay'[d] \in {replay[d], <<>>}
    BY DEF ReadReplay, ReplayFails, Replaying, ReplayDone, HeartbeatEndsStream, Disconnect,
           Close, RealtimeTypes
<1>8. ASSUME NEW d \in Clients, d # c \/ ~ReadReplay(c)
      PROVE  PublishedOnly(d)' /\ Len(queue'[d]) <= QueueMaxsize
    <2>1. PublishedOnly(d) /\ Len(queue[d]) <= QueueMaxsize
        BY DEF RealtimeBounds
    <2>2. cursor'[d] = cursor[d] /\ seen'[d] = seen[d] /\ lastPublished <= lastPublished'
        BY <1>1, <1>2
    <2> QED BY <1>6, <1>7, <1>8, <2>1, <2>2, FewerKeepsBounds
<1>9. ASSUME ReadReplay(c)
      PROVE  PublishedOnly(c)' /\ Len(queue'[c]) <= QueueMaxsize
    <2>1. replay'[c] = ReplaySince(cursor[c]) /\ queue'[c] = queue[c]
        BY <1>9 DEF ReadReplay, Replaying, RealtimeTypes
    <2>2. ToReplay(c)' \subseteq 1..lastPublished
        <3> DEFINE base == IF cursor[c] > kept THEN cursor[c] ELSE kept
        <3>1. base \in Nat /\ base <= lastPublished
            BY <1>1
        <3>2. replay'[c] = [i \in 1..(lastPublished - base) |-> base + i]
            BY <2>1 DEF ReplaySince
        <3> HIDE DEF base
        <3> SUFFICES ASSUME NEW i \in DOMAIN replay'[c] PROVE replay'[c][i] \in 1..lastPublished
            BY DEF ToReplay
        <3>3. i \in 1..(lastPublished - base) /\ replay'[c][i] = base + i
            BY <3>2
        <3> QED BY <3>1, <3>3, <1>1
    <2>3. QueuedFor(c)' = QueuedFor(c) /\ Len(queue'[c]) <= QueueMaxsize
        BY <2>1 DEF QueuedFor, RealtimeBounds
    <2>4. gone'[c] \subseteq gone[c] \cup 1..lastPublished'
        BY <1>6
    <2> QED BY <1>1, <1>2, <2>2, <2>3, <2>4 DEF PublishedOnly
<1>10. \A d \in Clients : PublishedOnly(d)' /\ Len(queue'[d]) <= QueueMaxsize
    BY <1>8, <1>9
<1> QED BY <1>2, <1>3, <1>10 DEF RealtimeBounds

LEMMA BoundsStep ==
    RealtimeTypes /\ RealtimeTypes' /\ RealtimeBounds /\ [RealtimeNext]_realtimeVars
        => RealtimeBounds'
<1> SUFFICES ASSUME RealtimeTypes, RealtimeTypes', RealtimeBounds, [RealtimeNext]_realtimeVars
             PROVE  RealtimeBounds'
    OBVIOUS
<1>1. CASE PublishEvent \/ BufferExpires
    <2>1. PICK s \in Servers : TRUE
        BY RealtimeAssumption DEF RealtimeAssumption
    <2> QED BY <1>1, <2>1, ServersKeepBounds
<1>2. ASSUME NEW s \in Servers,
             \/ Subscribe(s) \/ DispatchNext(s) \/ DispatchLoopCrashes(s) \/ ServerRestarts(s)
             \/ \E c \in Clients : OpenWebSocket(c, s) \/ OpenEventStream(c, s)
      PROVE  RealtimeBounds'
    BY <1>2, ServersKeepBounds, DispatchKeepsBounds
<1>3. ASSUME NEW c \in Clients,
             Deliver(c) \/ ReplayFails(c) \/ HeartbeatEndsStream(c) \/ Disconnect(c)
      PROVE  RealtimeBounds'
    BY <1>3, StreamsKeepBounds, ReceivedKeepBounds DEF Deliver
<1>4. CASE UNCHANGED realtimeVars
    BY <1>4 DEF realtimeVars, streamVars, clientVars, RealtimeBounds, PublishedOnly,
                QueuedFor, ToReplay
<1> QED BY <1>1, <1>2, <1>3, <1>4 DEF RealtimeNext

LEMMA BoundsInit == RealtimeInit => RealtimeBounds
<1> SUFFICES ASSUME RealtimeInit PROVE RealtimeBounds
    OBVIOUS
<1>1. ASSUME NEW c \in Clients PROVE PublishedOnly(c) /\ Len(queue[c]) <= QueueMaxsize
    <2>1. /\ queue[c] = <<>> /\ replay[c] = <<>> /\ cursor[c] = 0 /\ seen[c] = {} /\ gone[c] = {}
          /\ lastPublished = 0
        BY DEF RealtimeInit
    <2>2. QueuedFor(c) = {} /\ ToReplay(c) = {} /\ Len(queue[c]) = 0
        BY <2>1 DEF QueuedFor, ToReplay
    <2> QED BY <2>1, <2>2, RealtimeAssumption DEF PublishedOnly, RealtimeAssumption
<1> QED BY <1>1, RealtimeAssumption DEF RealtimeInit, RealtimeBounds, RealtimeAssumption

(* RealtimeTypeOK, in every state and for any number of processes, clients *)
(* and events: the replay buffer holds no more than replay_buffer_size     *)
(* events (event_bus.py's LTRIM), no connection's queue more than          *)
(* DEFAULT_QUEUE_MAXSIZE, however slow its client, and no client, queue or *)
(* replay holds an event that was not published.                           *)
THEOREM BuffersAreBounded == RealtimeSpec => []RealtimeTypeOK
<1>1. RealtimeInv /\ RealtimeBounds => RealtimeTypeOK
    <2> SUFFICES ASSUME RealtimeInv, RealtimeBounds PROVE RealtimeTypeOK
        OBVIOUS
    <2>1. RealtimeTypes
        BY DEF RealtimeInv
    <2>2. ASSUME NEW c \in Clients
          PROVE  /\ queue[c] \in Seq(1..lastPublished) /\ Len(queue[c]) <= QueueMaxsize
                 /\ replay[c] \in Seq(1..lastPublished)
                 /\ seen[c] \subseteq 1..lastPublished /\ gone[c] \subseteq 1..lastPublished
                 /\ cursor[c] \in 0..lastPublished
        <3>1. PublishedOnly(c) /\ Len(queue[c]) <= QueueMaxsize
            BY DEF RealtimeBounds
        <3>2. Elements(queue[c]) \subseteq 1..lastPublished /\ Elements(replay[c]) \subseteq 1..lastPublished
            BY <3>1 DEF PublishedOnly, Elements, QueuedFor, ToReplay
        <3>3. queue[c] \in Seq(EventIds) /\ replay[c] \in Seq(EventIds)
            BY <2>1 DEF RealtimeTypes
        <3>4. queue[c] \in Seq(1..lastPublished) /\ replay[c] \in Seq(1..lastPublished)
            BY <3>2, <3>3, SequenceOfElements
        <3> QED BY <3>1, <3>4 DEF PublishedOnly
    <2>3. cursor \in [Clients -> 0..lastPublished]
        BY <2>1, <2>2 DEF RealtimeTypes
    <2> QED BY <2>1, <2>2, <2>3 DEF RealtimeTypes, RealtimeBounds, RealtimeTypeOK
<1>2. RealtimeInv => RealtimeTypes
    BY DEF RealtimeInv
<1> QED BY <1>1, <1>2, InitRealtimeInv, RealtimeStep, BoundsInit, BoundsStep, PTL DEF RealtimeSpec

-----------------------------------------------------------------------------
(* Alerts                                                                  *)
(*                                                                         *)
(* OverrunIsNoticed and NoAlertStorm speak of what is committed; what the  *)
(* transactions under way will commit decides both.  A transaction is      *)
(* blind to a limit of its period if its check did not reach it.  As long  *)
(* as nobody noticed a limit, those who checked in vain and the blind ones *)
(* are together too few to reach it: whoever turned blind last saw less    *)
(* than the limit, with all that had been committed by then.               *)

AlertRow == [key : AlertKeys, status : Statuses, count : Nat]
RowWrite == [row : Nat, key : AlertKeys, count : Nat]
WorkerState ==
    [at : {"idle", "recorded", "checking", "writing"}, in : 1..Periods, on : 1..Periods,
     todo : SUBSET Limits, limit : Limits \cup {0}, found : Nat, count : Nat,
     writes : SUBSET RowWrite, muted : SUBSET Limits]

AlertsTypes ==
    /\ source \in {"ingestion", "budget_evaluation"} /\ shared \in BOOLEAN
    /\ period \in 1..Periods
    /\ spend \in [1..Periods -> Nat] /\ checked \in [1..Periods -> Nat]
    /\ alerts \in Seq(AlertRow)
    /\ fired \in [Limits -> [1..Periods -> Nat]]
    /\ reopened \in [AlertKeys -> Nat]
    /\ worker \in [Workers -> WorkerState]
    /\ user \in [Users -> [op : {"none"} \cup DOMAIN AllowedFrom, row : Nat]]

(* A request acts on an alert that is there.                               *)
RequestsHaveTheirAlert ==
    \A u \in Users : user[u].op # "none" => user[u].row \in DOMAIN alerts

(* What a transaction has found and written is about its limit.            *)
SoundWorker(W) ==
    /\ W.at = "idle" => W.writes = {}
    /\ W.at = "writing" =>
          /\ W.limit \in Limits
          /\ W.found # 0 =>
                /\ W.found \in DOMAIN alerts
                /\ alerts[W.found].key = KeyFor(W.limit, W.on)
    /\ IsFiniteSet(W.writes)
    /\ \A x \in W.writes : x.row = 0 => x.count = 1

WorkersAreSound == \A w \in Workers : SoundWorker(worker[w])

OneAtATime ==
    shared => \A v, w \in Workers :
                  worker[v].at # "idle" /\ worker[w].at # "idle" => v = w

ChecksAreSpend == \A p \in 1..Periods : checked[p] <= spend[p]

Firings(W) == {x.key.limit : x \in W.writes}

BlindTo(W, l, p) ==
    /\ W.at \in {"checking", "writing"} /\ W.in = p /\ W.on = p
    /\ l \notin W.todo \cup W.muted \cup Firings(W)

Blind(l, p) == {w \in Workers : BlindTo(worker[w], l, p)}

Noticed(l, p) == fired[l][p] > 0 \/ <<l, p>> \in hushed

FewAreBlind ==
    \A l \in Limits : \A p \in 1..Periods :
        ~Noticed(l, p) => checked[p] + Cardinality(Blind(l, p)) + 2 <= l + Abreast

AlertsInv ==
    /\ AlertsTypes /\ RequestsHaveTheirAlert /\ WorkersAreSound /\ OneAtATime
    /\ ChecksAreSpend /\ FewAreBlind /\ NoAlertStorm

NothingElseChanges ==
    /\ UNCHANGED <<source, shared, period, spend, alerts, user>>
    /\ UNCHANGED <<checked, hushed, fired, reopened>>

LEMMA AbreastIsPositive ==
    ASSUME shared \in BOOLEAN
    PROVE  Abreast \in Nat \ {0} /\ Cardinality(Workers) \in Nat \ {0}
<1>1. Cardinality(Workers) \in Nat \ {0}
    BY AlertsAssumption, FS_CardinalityType, FS_EmptySet DEF AlertsAssumption
<1> QED BY <1>1 DEF Abreast

(* No more than Abreast transactions are under way.                        *)
LEMMA FewUnderWay ==
    ASSUME shared \in BOOLEAN, NEW S \in SUBSET Workers,
           shared => \A v, w \in S : v = w
    PROVE  IsFiniteSet(S) /\ Cardinality(S) \in Nat /\ Cardinality(S) <= Abreast
<1>1. IsFiniteSet(S) /\ Cardinality(S) \in Nat /\ Cardinality(S) <= Cardinality(Workers)
    BY AlertsAssumption, FS_Subset, FS_CardinalityType DEF AlertsAssumption
<1>2. CASE shared
    <2>1. CASE S = {}
        BY <2>1, <1>1, <1>2, FS_EmptySet DEF Abreast
    <2>2. CASE S # {}
        <3>1. PICK w : S = {w}
            BY <1>2, <2>2
        <3>2. Cardinality(S) = 1
            BY <3>1, FS_Singleton
        <3> QED BY <1>1, <1>2, <3>2 DEF Abreast
    <2> QED BY <2>1, <2>2
<1>3. CASE ~shared
    BY <1>1, <1>3 DEF Abreast
<1> QED BY <1>2, <1>3

LEMMA InFiniteSubset ==
    ASSUME NEW T, IsFiniteSet(T), NEW S \in SUBSET T
    PROVE  /\ IsFiniteSet(S) /\ Cardinality(S) \in Nat /\ Cardinality(T) \in Nat
           /\ Cardinality(S) <= Cardinality(T)
BY FS_Subset, FS_CardinalityType

LEMMA BlindAreFinite ==
    \A l, p : IsFiniteSet(Blind(l, p)) /\ Cardinality(Blind(l, p)) \in Nat
<1> SUFFICES ASSUME NEW l, NEW p
             PROVE  IsFiniteSet(Blind(l, p)) /\ Cardinality(Blind(l, p)) \in Nat
    OBVIOUS
<1>1. Blind(l, p) \in SUBSET Workers
    BY DEF Blind
<1> QED BY <1>1, AlertsAssumption, InFiniteSubset DEF AlertsAssumption

LEMMA KeysAreKeys ==
    \A l \in Limits : \A p \in 1..Periods : KeyFor(l, p) \in AlertKeys /\ KeyFor(l, p).limit = l
BY DEF AlertKeys, KeyFor

(* Who is about to add an open alert with key k                            *)
IsCreating(W, k) ==
    \/ W.at = "writing" /\ W.found = 0 /\ KeyFor(W.limit, W.on) = k
    \/ Write(0, k, 1) \in W.writes

LEMMA CreatingIs == \A k : Creating(k) = {w \in Workers : IsCreating(worker[w], k)}
BY DEF Creating, IsCreating

LEMMA OpenAreFinite ==
    ASSUME alerts \in Seq(AlertRow), NEW k
    PROVE  /\ IsFiniteSet(OpenWithKey(k)) /\ Cardinality(OpenWithKey(k)) \in Nat
           /\ OpenWithKey(k) \subseteq 1..Len(alerts)
<1>1. DOMAIN alerts = 1..Len(alerts) /\ Len(alerts) \in Nat
    OBVIOUS
<1>2. OpenWithKey(k) \in SUBSET (1..Len(alerts))
    BY <1>1 DEF OpenWithKey
<1>3. IsFiniteSet(1..Len(alerts))
    BY <1>1, FS_Interval
<1> QED BY <1>2, <1>3, InFiniteSubset

(* A step of one transaction that commits nothing: it may turn blind only  *)
(* to a limit that committed spend is below by two, and set out to create  *)
(* an alert only where none is open.                                       *)
LEMMA WorkerStep ==
    ASSUME AlertsInv, NothingElseChanges, NEW w \in Workers, NEW W \in WorkerState,
           worker' = [worker EXCEPT ![w] = W], SoundWorker(W),
           shared /\ W.at # "idle" => \A v \in Workers \ {w} : worker[v].at = "idle",
           \A l \in Limits, p \in 1..Periods :
               BlindTo(W, l, p) => BlindTo(worker[w], l, p) \/ spend[p] + 2 <= l,
           \A k \in AlertKeys :
               IsCreating(W, k) => IsCreating(worker[w], k) \/ OpenWithKey(k) = {}
    PROVE  AlertsInv'
<1> USE DEF NothingElseChanges
<1>1. worker \in [Workers -> WorkerState] /\ worker'[w] = W
      /\ \A v \in Workers \ {w} : worker'[v] = worker[v]
    BY DEF AlertsInv, AlertsTypes
<1>2. AlertsTypes'
    <2>1. worker' \in [Workers -> WorkerState]
        BY <1>1
    <2>2. AlertRow' = AlertRow /\ AlertKeys' = AlertKeys /\ WorkerState' = WorkerState
        BY DEF AlertRow, AlertKeys, KeyFor, WorkerState, RowWrite
    <2> QED BY <2>1, <2>2 DEF AlertsInv, AlertsTypes
<1>3. RequestsHaveTheirAlert'
    BY DEF AlertsInv, RequestsHaveTheirAlert
<1>4. WorkersAreSound'
    BY <1>1 DEF AlertsInv, WorkersAreSound, SoundWorker, KeyFor
<1>5. OneAtATime'
    BY <1>1 DEF AlertsInv, OneAtATime
<1>6. ChecksAreSpend'
    BY DEF AlertsInv, ChecksAreSpend
<1>7. shared \in BOOLEAN /\ Abreast' = Abreast /\ Abreast \in Nat
    BY AbreastIsPositive DEF AlertsInv, AlertsTypes, Abreast
<1>8. FewAreBlind'
    <2> SUFFICES ASSUME NEW l \in Limits, NEW p \in 1..Periods, ~Noticed(l, p)'
                 PROVE  (checked[p] + Cardinality(Blind(l, p)) + 2 <= l + Abreast)'
        BY DEF FewAreBlind
    <2> DEFINE now == Blind(l, p)  later == Blind(l, p)'
    <2>1. checked[p] + Cardinality(now) + 2 <= l + Abreast
        BY DEF AlertsInv, FewAreBlind, Noticed
    <2>2. now \in SUBSET Workers /\ later \in SUBSET Workers
        BY DEF Blind
    <2>3. /\ l \in Nat /\ checked[p] \in Nat /\ spend[p] \in Nat /\ checked[p] <= spend[p]
          /\ checked'[p] = checked[p]
        BY AlertsAssumption DEF AlertsInv, AlertsTypes, ChecksAreSpend, AlertsAssumption
    <2>4. Cardinality(now) \in Nat /\ Cardinality(later) \in Nat /\ IsFiniteSet(now)
        BY <2>2, AlertsAssumption, InFiniteSubset DEF AlertsAssumption
    <2>5. CASE later \subseteq now
        <3>1. Cardinality(later) <= Cardinality(now)
            BY <2>4, <2>5, InFiniteSubset
        <3> QED BY <1>7, <2>1, <2>3, <2>4, <3>1
    <2>6. CASE ~(later \subseteq now)
        <3>1. PICK v \in later : v \notin now
            BY <2>6
        <3>2. v = w /\ BlindTo(W, l, p) /\ ~BlindTo(worker[w], l, p)
            BY <1>1, <3>1 DEF Blind
        <3>3. spend[p] + 2 <= l
            BY <3>2
        <3>4. shared' => \A u, v2 \in later : u = v2
            BY <1>5, <2>2 DEF OneAtATime, Blind, BlindTo
        <3>5. Cardinality(later) <= Abreast
            BY <1>7, <2>2, <3>4, FewUnderWay
        <3> QED BY <1>7, <2>3, <2>4, <3>3, <3>5
    <2> QED BY <2>5, <2>6
<1>9. NoAlertStorm'
    <2> SUFFICES ASSUME NEW k \in AlertKeys
                 PROVE  (Cardinality(OpenWithKey(k)) + Cardinality(Creating(k))
                             <= Abreast + reopened[k])'
        BY DEF NoAlertStorm, AlertKeys, KeyFor
    <2> DEFINE now == Creating(k)  later == Creating(k)'
    <2>1. Cardinality(OpenWithKey(k)) + Cardinality(now) <= Abreast + reopened[k]
        BY DEF AlertsInv, NoAlertStorm
    <2>2. now \in SUBSET Workers /\ later \in SUBSET Workers
        BY DEF Creating
    <2>3. Cardinality(now) \in Nat /\ Cardinality(later) \in Nat /\ IsFiniteSet(now)
        BY <2>2, AlertsAssumption, InFiniteSubset DEF AlertsAssumption
    <2>4. OpenWithKey(k)' = OpenWithKey(k) /\ Cardinality(OpenWithKey(k)) \in Nat
          /\ reopened[k] \in Nat
        BY OpenAreFinite DEF AlertsInv, AlertsTypes, OpenWithKey
    <2>5. CASE later \subseteq now
        <3>1. Cardinality(later) <= Cardinality(now)
            BY <2>3, <2>5, InFiniteSubset
        <3> QED BY <1>7, <2>1, <2>3, <2>4, <3>1
    <2>6. CASE ~(later \subseteq now)
        <3>1. PICK v \in later : v \notin now
            BY <2>6
        <3>2. later = {u \in Workers : IsCreating(worker'[u], k)}
            BY DEF Creating, IsCreating, KeyFor, Write
        <3>3. now = {u \in Workers : IsCreating(worker[u], k)}
            BY CreatingIs
        <3>4. v = w /\ IsCreating(W, k) /\ ~IsCreating(worker[w], k)
            BY <1>1, <3>1, <3>2, <3>3
        <3>5. OpenWithKey(k) = {}
            BY <3>4
        <3>6. \A u \in later : worker'[u].at # "idle"
            BY <1>4, <3>2 DEF IsCreating, WorkersAreSound, SoundWorker
        <3>7. shared => \A u, v2 \in later : u = v2
            BY <1>5, <2>2, <3>6 DEF OneAtATime
        <3>8. Cardinality(later) <= Abreast
            BY <1>7, <2>2, <3>7, FewUnderWay
        <3>9. Cardinality(OpenWithKey(k)) = 0
            BY <3>5, FS_EmptySet
        <3> QED BY <1>7, <2>3, <2>4, <3>8, <3>9
    <2> QED BY <2>5, <2>6
<1> QED BY <1>2, <1>3, <1>4, <1>5, <1>6, <1>8, <1>9 DEF AlertsInv

LEMMA RecordKeepsAlertsInv ==
    ASSUME AlertsInv, NEW w \in Workers, RecordSpend(w)
    PROVE  AlertsInv'
<1> DEFINE W == [IdleWorker EXCEPT !.at = "recorded", !.in = period]
<1>1. NothingElseChanges /\ worker' = [worker EXCEPT ![w] = W]
    BY DEF RecordSpend, NothingElseChanges, historyVars
<1>2. /\ W.at = "recorded" /\ W.writes = {} /\ W \in WorkerState
    <2>1. period \in 1..Periods
        BY DEF AlertsInv, AlertsTypes
    <2>2. IdleWorker \in WorkerState /\ IdleWorker.writes = {}
        BY AlertsAssumption DEF IdleWorker, WorkerState, AlertsAssumption
    <2> QED BY <2>1, <2>2 DEF WorkerState
<1>3. SoundWorker(W)
    BY <1>2, FS_EmptySet DEF SoundWorker
<1>4. shared => \A v \in Workers \ {w} : worker[v].at = "idle"
    BY DEF RecordSpend
<1>5. /\ \A l, p : ~BlindTo(W, l, p)
      /\ \A k : ~IsCreating(W, k)
    BY <1>2 DEF BlindTo, IsCreating
<1> HIDE DEF W
<1> QED BY <1>1, <1>2, <1>3, <1>4, <1>5, WorkerStep

LEMMA AbortKeepsAlertsInv ==
    ASSUME AlertsInv, NEW w \in Workers, AbortSpend(w)
    PROVE  AlertsInv'
<1>1. NothingElseChanges /\ worker' = [worker EXCEPT ![w] = IdleWorker]
    BY DEF AbortSpend, NothingElseChanges, historyVars
<1>2. IdleWorker \in WorkerState /\ IdleWorker.at = "idle" /\ IdleWorker.writes = {}
    BY AlertsAssumption DEF IdleWorker, WorkerState, AlertsAssumption
<1>3. SoundWorker(IdleWorker)
    BY <1>2, FS_EmptySet DEF SoundWorker
<1>4. /\ \A l, p : ~BlindTo(IdleWorker, l, p)
      /\ \A k : ~IsCreating(IdleWorker, k)
    BY <1>2 DEF BlindTo, IsCreating
<1> QED BY <1>1, <1>2, <1>3, <1>4, WorkerStep

LEMMA OthersAreIdle ==
    ASSUME OneAtATime, NEW w \in Workers, worker[w].at # "idle"
    PROVE  shared => \A v \in Workers \ {w} : worker[v].at = "idle"
BY DEF OneAtATime

LEMMA CheckKeepsAlertsInv ==
    ASSUME AlertsInv, NEW w \in Workers, CheckLimits(w)
    PROVE  AlertsInv'
<1> DEFINE W == [worker[w] EXCEPT !.at = "checking", !.on = period,
                                  !.todo = {l \in Limits : TotalSeen(w) >= l}]
<1>1. NothingElseChanges /\ worker' = [worker EXCEPT ![w] = W] /\ worker[w].at = "recorded"
    BY DEF CheckLimits, NothingElseChanges, historyVars
<1>2. worker[w] \in WorkerState /\ SoundWorker(worker[w])
    BY DEF AlertsInv, AlertsTypes, WorkersAreSound
<1>3. /\ W \in WorkerState /\ W.at = "checking" /\ W.on = period /\ W.in = worker[w].in
      /\ W.todo = {l \in Limits : TotalSeen(w) >= l} /\ W.writes = worker[w].writes
    BY <1>2 DEF WorkerState, AlertsInv, AlertsTypes
<1> HIDE DEF W
<1>4. SoundWorker(W)
    BY <1>2, <1>3 DEF SoundWorker
<1>5. ASSUME NEW l \in Limits, NEW p \in 1..Periods, BlindTo(W, l, p)
      PROVE  spend[p] + 2 <= l
    <2>1. p = period /\ worker[w].in = period /\ ~(TotalSeen(w) >= l)
        BY <1>3, <1>5 DEF BlindTo
    <2>2. TotalSeen(w) = spend[p] + 1
        BY <2>1 DEF TotalSeen
    <2>3. spend[p] \in Nat /\ l \in Nat
        BY AlertsAssumption DEF AlertsInv, AlertsTypes, AlertsAssumption
    <2> QED BY <2>1, <2>2, <2>3
<1>6. \A k : IsCreating(W, k) => IsCreating(worker[w], k)
    BY <1>3 DEF IsCreating
<1>7. shared => \A v \in Workers \ {w} : worker[v].at = "idle"
    BY <1>1, OthersAreIdle DEF AlertsInv
<1> QED BY <1>1, <1>3, <1>4, <1>5, <1>6, <1>7, WorkerStep

LEMMA SuppressKeepsAlertsInv ==
    ASSUME AlertsInv, NEW w \in Workers, NEW l \in Limits, Suppress(w, l)
    PROVE  AlertsInv'
<1> DEFINE W == [worker[w] EXCEPT !.todo = worker[w].todo \ {l},
                                  !.muted = worker[w].muted \cup {l}]
<1>1. NothingElseChanges /\ worker' = [worker EXCEPT ![w] = W] /\ worker[w].at = "checking"
    BY DEF Suppress, Firing, NothingElseChanges, historyVars
<1>2. worker[w] \in WorkerState /\ SoundWorker(worker[w])
    BY DEF AlertsInv, AlertsTypes, WorkersAreSound
<1>3. /\ W \in WorkerState /\ W.at = "checking" /\ W.on = worker[w].on /\ W.in = worker[w].in
      /\ W.writes = worker[w].writes
      /\ W.todo = worker[w].todo \ {l} /\ W.muted = worker[w].muted \cup {l}
    BY <1>1, <1>2 DEF WorkerState
<1> HIDE DEF W
<1>4. SoundWorker(W)
    BY <1>2, <1>3 DEF SoundWorker
<1>5. \A m, p : BlindTo(W, m, p) => BlindTo(worker[w], m, p)
    BY <1>1, <1>3 DEF BlindTo, Firings
<1>6. \A k : IsCreating(W, k) => IsCreating(worker[w], k)
    BY <1>3 DEF IsCreating
<1>7. shared => \A v \in Workers \ {w} : worker[v].at = "idle"
    BY <1>1, OthersAreIdle DEF AlertsInv
<1> QED BY <1>1, <1>3, <1>4, <1>5, <1>6, <1>7, WorkerStep

LEMMA FindKeepsAlertsInv ==
    ASSUME AlertsInv, NEW w \in Workers, NEW l \in Limits, FindOpen(w, l)
    PROVE  AlertsInv'
<1> DEFINE W(i, n) == [worker[w] EXCEPT !.at = "writing", !.limit = l, !.found = i, !.count = n]
           k == KeyFor(l, worker[w].on)
<1>1. NothingElseChanges /\ worker[w].at = "checking"
    BY DEF FindOpen, Firing, NothingElseChanges, historyVars
<1>2. PICK i, n : /\ worker' = [worker EXCEPT ![w] = W(i, n)]
                  /\ \/ OpenWithKey(k) = {} /\ i = 0 /\ n = 0
                     \/ i \in OpenWithKey(k) /\ n = alerts[i].count
    BY DEF FindOpen
<1>3. worker[w] \in WorkerState /\ SoundWorker(worker[w]) /\ alerts \in Seq(AlertRow)
    BY DEF AlertsInv, AlertsTypes, WorkersAreSound
<1>4. i \in Nat /\ n \in Nat /\ (i # 0 => i \in DOMAIN alerts /\ alerts[i].key = k)
      /\ (i = 0 => OpenWithKey(k) = {})
    <2>1. CASE OpenWithKey(k) = {} /\ i = 0 /\ n = 0
        BY <2>1
    <2>2. CASE i \in OpenWithKey(k) /\ n = alerts[i].count
        <3>1. i \in DOMAIN alerts /\ alerts[i].key = k
            BY <2>2 DEF OpenWithKey
        <3>2. i \in Nat \ {0} /\ alerts[i] \in AlertRow
            BY <1>3, <3>1
        <3> QED BY <2>2, <3>1, <3>2 DEF AlertRow
    <2> QED BY <1>2, <2>1, <2>2
<1>5. /\ W(i, n) \in WorkerState /\ W(i, n).at = "writing" /\ W(i, n).on = worker[w].on
      /\ W(i, n).in = worker[w].in /\ W(i, n).writes = worker[w].writes
      /\ W(i, n).todo = worker[w].todo /\ W(i, n).muted = worker[w].muted
      /\ W(i, n).limit = l /\ W(i, n).found = i
    BY <1>3, <1>4 DEF WorkerState
<1> HIDE DEF W
<1>6. SoundWorker(W(i, n))
    BY <1>3, <1>4, <1>5 DEF SoundWorker
<1>7. \A m, p : BlindTo(W(i, n), m, p) => BlindTo(worker[w], m, p)
    BY <1>1, <1>5 DEF BlindTo, Firings
<1>8. \A j : IsCreating(W(i, n), j) => IsCreating(worker[w], j) \/ OpenWithKey(j) = {}
    BY <1>4, <1>5 DEF IsCreating
<1>9. shared => \A v \in Workers \ {w} : worker[v].at = "idle"
    BY <1>1, OthersAreIdle DEF AlertsInv
<1> QED BY <1>1, <1>2, <1>5, <1>6, <1>7, <1>8, <1>9, WorkerStep

(* fire(), with a row found or a new one                                   *)
LEMMA WriteKeepsAlertsInv ==
    ASSUME AlertsInv, NEW w \in Workers, Fold(w) \/ CreateAlert(w)
    PROVE  AlertsInv'
<1>1. PICK x : /\ worker[w].at = "writing" /\ WriteDone(w, x)
               /\ \/ /\ worker[w].found # 0
                     /\ x = Write(worker[w].found, alerts[worker[w].found].key, worker[w].count + 1)
                  \/ /\ worker[w].found = 0
                     /\ x = Write(0, KeyFor(worker[w].limit, worker[w].on), 1)
    BY DEF Fold, CreateAlert
<1> DEFINE W == [worker[w] EXCEPT !.at = "checking",
                                  !.todo = worker[w].todo \ {worker[w].limit},
                                  !.writes = worker[w].writes \cup {x}]
<1>2. NothingElseChanges /\ worker' = [worker EXCEPT ![w] = W]
    BY <1>1 DEF WriteDone, NothingElseChanges, historyVars
<1>3. worker[w] \in WorkerState /\ SoundWorker(worker[w])
    BY DEF AlertsInv, AlertsTypes, WorkersAreSound
<1>4. /\ worker[w].limit \in Limits /\ worker[w].on \in 1..Periods /\ worker[w].found \in Nat
      /\ worker[w].count \in Nat
      /\ worker[w].found # 0 =>
            alerts[worker[w].found].key = KeyFor(worker[w].limit, worker[w].on)
    BY <1>1, <1>3 DEF SoundWorker, WorkerState
<1>5. /\ x \in RowWrite /\ x.key = KeyFor(worker[w].limit, worker[w].on)
      /\ x.key.limit = worker[w].limit
      /\ x.row = worker[w].found /\ (x.row = 0 => x.count = 1)
    BY <1>1, <1>4, KeysAreKeys DEF Write, RowWrite
<1>6. /\ W \in WorkerState /\ W.at = "checking" /\ W.on = worker[w].on /\ W.in = worker[w].in
      /\ W.writes = worker[w].writes \cup {x}
      /\ W.todo = worker[w].todo \ {worker[w].limit} /\ W.muted = worker[w].muted
    BY <1>3, <1>5 DEF WorkerState
<1> HIDE DEF W
<1>7. SoundWorker(W)
    BY <1>3, <1>5, <1>6, FS_AddElement DEF SoundWorker
<1>8. Firings(worker[w]) \cup {worker[w].limit} \subseteq Firings(W)
    BY <1>5, <1>6 DEF Firings
<1>9. \A m, p : BlindTo(W, m, p) => BlindTo(worker[w], m, p)
    BY <1>1, <1>6, <1>8 DEF BlindTo
<1>10. ASSUME NEW k, IsCreating(W, k) PROVE IsCreating(worker[w], k)
    <2>1. Write(0, k, 1) \in worker[w].writes \/ Write(0, k, 1) = x
        BY <1>6, <1>10 DEF IsCreating
    <2>2. CASE Write(0, k, 1) = x
        <3>1. x.row = 0 /\ x.key = k
            BY <2>2 DEF Write
        <3> QED BY <3>1, <1>1, <1>5 DEF IsCreating
    <2> QED BY <2>1, <2>2 DEF IsCreating
<1>11. shared => \A v \in Workers \ {w} : worker[v].at = "idle"
    BY <1>1, OthersAreIdle DEF AlertsInv
<1> QED BY <1>2, <1>6, <1>7, <1>9, <1>10, <1>11, WorkerStep

(* The rows after a commit: every old one keeps its key and its status,    *)
(* and of each key at most one is new, which the transaction was creating. *)
LEMMA RowsAfterCommit ==
    ASSUME AlertsInv, NEW w \in Workers,
           NEW new \in SetToSeqs(NewAlerts(worker[w].writes)),
           alerts' = Updated(alerts, worker[w].writes) \o new
    PROVE  /\ alerts' \in Seq(AlertRow) /\ Len(alerts) \in Nat /\ Len(new) \in Nat
           /\ DOMAIN alerts' = 1..(Len(alerts) + Len(new)) /\ DOMAIN alerts = 1..Len(alerts)
           /\ \A i \in DOMAIN alerts : i \in DOMAIN alerts' /\ alerts'[i].key = alerts[i].key
                                       /\ alerts'[i].status = alerts[i].status
           /\ \A i \in DOMAIN alerts' \ DOMAIN alerts :
                  IsCreating(worker[w], alerts'[i].key)
           /\ \A i, j \in DOMAIN alerts' \ DOMAIN alerts :
                  alerts'[i].key = alerts'[j].key => i = j
           /\ \A i \in DOMAIN alerts :
                  IF \E x \in worker[w].writes : x.row = i
                  THEN \E x \in worker[w].writes : x.row = i /\ alerts'[i].count = x.count
                  ELSE alerts'[i].count = alerts[i].count
           /\ \A i \in DOMAIN alerts' \ DOMAIN alerts : alerts'[i].count = 1
           /\ \A x \in worker[w].writes :
                  x.row = 0 => \E i \in DOMAIN alerts' \ DOMAIN alerts : alerts'[i].key = x.key
<1> DEFINE writes == worker[w].writes  old == Updated(alerts, writes)
<1>1. /\ alerts \in Seq(AlertRow) /\ writes \in SUBSET RowWrite
      /\ IsFiniteSet(writes) /\ \A x \in writes : x.row = 0 => x.count = 1
    BY DEF AlertsInv, AlertsTypes, WorkersAreSound, SoundWorker, WorkerState
<1>2. Len(alerts) \in Nat /\ DOMAIN alerts = 1..Len(alerts)
    BY <1>1
<1>3. /\ old \in Seq(AlertRow) /\ Len(old) = Len(alerts) /\ DOMAIN old = DOMAIN alerts
      /\ \A i \in DOMAIN alerts : old[i].key = alerts[i].key /\ old[i].status = alerts[i].status
      /\ \A i \in DOMAIN alerts : IF \E x \in writes : x.row = i
                                  THEN \E x \in writes : x.row = i /\ old[i].count = x.count
                                  ELSE old[i].count = alerts[i].count
    <2>1. ASSUME NEW i \in DOMAIN alerts
          PROVE  /\ old[i] \in AlertRow
                 /\ old[i].key = alerts[i].key /\ old[i].status = alerts[i].status
                 /\ IF \E x \in writes : x.row = i
                    THEN \E x \in writes : x.row = i /\ old[i].count = x.count
                    ELSE old[i].count = alerts[i].count
        <3>1. alerts[i] \in AlertRow
            BY <1>1
        <3>2. CASE \E x \in writes : x.row = i
            <4> DEFINE y == CHOOSE x \in writes : x.row = i
            <4>1. y \in writes /\ y.row = i
                BY <3>2
            <4>2. y.count \in Nat
                BY <4>1, <1>1 DEF RowWrite
            <4>3. old[i] = [alerts[i] EXCEPT !.count = y.count]
                BY <3>2 DEF Updated
            <4> HIDE DEF y
            <4>4. old[i].count = y.count
                BY <3>1, <4>3 DEF AlertRow
            <4>5. /\ old[i] \in AlertRow
                  /\ old[i].key = alerts[i].key /\ old[i].status = alerts[i].status
                BY <3>1, <4>2, <4>3 DEF AlertRow
            <4> HIDE DEF old
            <4> QED BY <3>2, <4>1, <4>4, <4>5
        <3>3. CASE ~ \E x \in writes : x.row = i
            BY <3>1, <3>3 DEF Updated
        <3> QED BY <3>2, <3>3
    <2>2. old = [i \in 1..Len(alerts) |-> old[i]]
        BY <1>2 DEF Updated
    <2> HIDE DEF old
    <2>3. old \in Seq(AlertRow)
        BY <1>2, <2>1, <2>2
    <2>4. Len(old) = Len(alerts)
        BY <1>2, <2>2, <2>3
    <2> QED BY <1>2, <2>1, <2>3, <2>4
<1> DEFINE added == NewAlerts(writes)
<1>4. ASSUME NEW a \in added
      PROVE  a \in AlertRow /\ a.status = "open" /\ a.count = 1 /\ Write(0, a.key, 1) \in writes
    <2>1. PICK x \in writes : x.row = 0 /\ a = [key |-> x.key, status |-> "open", count |-> x.count]
        BY DEF NewAlerts
    <2>2. x \in RowWrite /\ x.count = 1
        BY <1>1, <2>1
    <2>3. x = Write(0, x.key, 1)
        BY <2>1, <2>2 DEF RowWrite, Write
    <2>4. a.key = x.key /\ a.status = "open" /\ a.count = 1
        BY <2>1, <2>2
    <2>5. a \in AlertRow
        BY <2>1, <2>2 DEF AlertRow, RowWrite, Statuses
    <2> QED BY <2>1, <2>3, <2>4, <2>5
<1>5. \A a, b \in added : a.key = b.key => a = b
    <2> SUFFICES ASSUME NEW a \in added, NEW b \in added, a.key = b.key PROVE a = b
        OBVIOUS
    <2>1. a \in AlertRow /\ b \in AlertRow /\ a.status = b.status /\ a.count = b.count
        BY <1>4
    <2> QED BY <2>1 DEF AlertRow
<1> DEFINE opened == {y \in writes : y.row = 0}
<1>6. IsFiniteSet(added) /\ Cardinality(added) \in Nat
    <2> DEFINE f == [x \in opened |-> [key |-> x.key, status |-> "open", count |-> x.count]]
    <2>1. IsFiniteSet(opened)
        BY <1>1, FS_Subset
    <2>2. f \in Surjection(opened, added)
        BY DEF Surjection, NewAlerts
    <2> QED BY <2>1, <2>2, FS_Surjection, FS_CardinalityType
<1> HIDE DEF added
<1>7. /\ new \in [1..Cardinality(added) -> added]
      /\ \A i, j \in 1..Cardinality(added) : i # j => new[i] # new[j]
    BY DEF SetToSeqs, added
<1>8. new \in Seq(AlertRow) /\ Len(new) = Cardinality(added)
    <2>1. new \in [1..Cardinality(added) -> AlertRow]
        BY <1>4, <1>7
    <2> QED BY <1>6, <2>1, SequenceOfFunction
<1> HIDE DEF old, writes
<1>9. /\ alerts' \in Seq(AlertRow) /\ DOMAIN alerts' = 1..(Len(alerts) + Len(new))
      /\ \A i \in 1..Len(alerts) : alerts'[i] = old[i]
      /\ \A i \in (Len(alerts) + 1)..(Len(alerts) + Len(new)) : alerts'[i] = new[i - Len(alerts)]
    BY <1>2, <1>3, <1>8 DEF old, writes
<1>10. \A i \in DOMAIN alerts : i \in DOMAIN alerts' /\ alerts'[i].key = alerts[i].key
                                /\ alerts'[i].status = alerts[i].status
    BY <1>2, <1>3, <1>6, <1>8, <1>9
<1>11. ASSUME NEW i \in DOMAIN alerts' \ DOMAIN alerts
       PROVE  /\ i - Len(alerts) \in 1..Cardinality(added) /\ i \in Nat
              /\ alerts'[i] = new[i - Len(alerts)] /\ alerts'[i] \in added
    BY <1>2, <1>6, <1>7, <1>8, <1>9
<1>12. \A i \in DOMAIN alerts' \ DOMAIN alerts : IsCreating(worker[w], alerts'[i].key)
    BY <1>4, <1>11 DEF IsCreating, writes
<1>13. \A i, j \in DOMAIN alerts' \ DOMAIN alerts : alerts'[i].key = alerts'[j].key => i = j
    <2> SUFFICES ASSUME NEW i \in DOMAIN alerts' \ DOMAIN alerts,
                        NEW j \in DOMAIN alerts' \ DOMAIN alerts,
                        alerts'[i].key = alerts'[j].key
                 PROVE  i = j
        OBVIOUS
    <2>1. new[i - Len(alerts)] = new[j - Len(alerts)]
        BY <1>5, <1>11
    <2>2. i - Len(alerts) = j - Len(alerts)
        BY <1>7, <1>11, <2>1
    <2> QED BY <1>2, <1>11, <2>2
<1>14. \A i \in DOMAIN alerts : IF \E x \in writes : x.row = i
                                THEN \E x \in writes : x.row = i /\ alerts'[i].count = x.count
                                ELSE alerts'[i].count = alerts[i].count
    <2> SUFFICES ASSUME NEW i \in DOMAIN alerts
                 PROVE  IF \E x \in writes : x.row = i
                        THEN \E x \in writes : x.row = i /\ alerts'[i].count = x.count
                        ELSE alerts'[i].count = alerts[i].count
        OBVIOUS
    <2>1. alerts'[i] = old[i]
        BY <1>2, <1>9
    <2>2. IF \E x \in writes : x.row = i
          THEN \E x \in writes : x.row = i /\ old[i].count = x.count
          ELSE old[i].count = alerts[i].count
        BY <1>3
    <2> QED BY <2>1, <2>2
<1>15. \A i \in DOMAIN alerts' \ DOMAIN alerts : alerts'[i].count = 1
    BY <1>4, <1>11
<1>16. ASSUME NEW x \in writes, x.row = 0
       PROVE  \E i \in DOMAIN alerts' \ DOMAIN alerts : alerts'[i].key = x.key
    <2> DEFINE a == [key |-> x.key, status |-> "open", count |-> x.count]
    <2>1. a \in added /\ a.key = x.key
        BY <1>16 DEF added, NewAlerts
    <2>2. new \in Surjection(1..Cardinality(added), added)
        <3>1. new \in Injection(1..Cardinality(added), added)
            BY <1>7 DEF Injection, IsInjective
        <3>2. Cardinality(1..Cardinality(added)) = Cardinality(added)
            BY <1>6, FS_Interval
        <3> QED BY <1>6, <3>1, <3>2, FS_Injection
    <2> HIDE DEF a
    <2>3. PICK n \in 1..Cardinality(added) : new[n] = a
        BY <2>1, <2>2 DEF Surjection
    <2>4. Len(alerts) + n \in DOMAIN alerts' \ DOMAIN alerts /\ alerts'[Len(alerts) + n] = a
        BY <1>2, <1>6, <1>8, <1>9, <2>3
    <2> QED BY <2>1, <2>4
<1>17. \A x \in writes : x.row = 0 => \E i \in DOMAIN alerts' \ DOMAIN alerts : alerts'[i].key = x.key
    BY <1>16
<1> QED BY <1>2, <1>6, <1>8, <1>9, <1>10, <1>12, <1>13, <1>14, <1>15, <1>17 DEF writes

LEMMA CommitKeepsAlertsInv ==
    ASSUME AlertsInv, NEW w \in Workers, CommitSpend(w)
    PROVE  AlertsInv'
<1> DEFINE me == worker[w]
<1>1. PICK new \in SetToSeqs(NewAlerts(worker[w].writes)) :
          alerts' = Updated(alerts, worker[w].writes) \o new
    BY DEF CommitSpend
<1>2. /\ me.at = "checking" /\ me.todo = {}
      /\ spend' = [spend EXCEPT ![me.in] = @ + 1]
      /\ checked' = [checked EXCEPT ![me.in] = IF me.on = me.in THEN @ + 1 ELSE @]
      /\ hushed' = hushed \cup {<<l, me.on>> : l \in me.muted}
      /\ worker' = [worker EXCEPT ![w] = IdleWorker]
      /\ UNCHANGED <<source, shared, period, quiet, reopened, user>>
    BY DEF CommitSpend
<1>3. fired' = [l \in Limits |-> IF l \in Firings(me)
                                 THEN [fired[l] EXCEPT ![me.on] = @ + 1] ELSE fired[l]]
    BY DEF CommitSpend, Firings
<1>4. /\ me \in WorkerState /\ me.in \in 1..Periods /\ me.on \in 1..Periods
      /\ worker \in [Workers -> WorkerState] /\ shared \in BOOLEAN
      /\ \A p \in 1..Periods : spend[p] \in Nat /\ checked[p] \in Nat
    BY DEF AlertsInv, AlertsTypes, WorkerState
<1>5. IdleWorker \in WorkerState /\ IdleWorker.at = "idle" /\ IdleWorker.writes = {}
    BY AlertsAssumption DEF IdleWorker, WorkerState, AlertsAssumption
<1>6. /\ alerts' \in Seq(AlertRow) /\ Len(alerts) \in Nat /\ Len(new) \in Nat
      /\ DOMAIN alerts' = 1..(Len(alerts) + Len(new)) /\ DOMAIN alerts = 1..Len(alerts)
      /\ \A i \in DOMAIN alerts : i \in DOMAIN alerts' /\ alerts'[i].key = alerts[i].key
                                  /\ alerts'[i].status = alerts[i].status
      /\ \A i \in DOMAIN alerts' \ DOMAIN alerts : IsCreating(me, alerts'[i].key)
      /\ \A i, j \in DOMAIN alerts' \ DOMAIN alerts : alerts'[i].key = alerts'[j].key => i = j
    BY <1>1, RowsAfterCommit
<1> HIDE DEF me
<1>7. worker'[w] = IdleWorker /\ \A v \in Workers \ {w} : worker'[v] = worker[v]
    BY <1>2, <1>4
<1>8. /\ checked' \in [1..Periods -> Nat] /\ spend' \in [1..Periods -> Nat]
      /\ \A p \in 1..Periods :
            /\ checked'[p] = IF p = me.in /\ p = me.on THEN checked[p] + 1 ELSE checked[p]
            /\ spend'[p] = IF p = me.in THEN spend[p] + 1 ELSE spend[p]
    BY <1>2, <1>4, SMTT(30) DEF AlertsInv, AlertsTypes
<1>9. /\ fired' \in [Limits -> [1..Periods -> Nat]]
      /\ \A l \in Limits, p \in 1..Periods :
            /\ fired[l][p] > 0 => fired'[l][p] > 0
            /\ l \in Firings(me) /\ p = me.on => fired'[l][p] > 0
    <2>1. ASSUME NEW l \in Limits
          PROVE  /\ fired'[l] \in [1..Periods -> Nat]
                 /\ \A p \in 1..Periods : /\ fired[l][p] > 0 => fired'[l][p] > 0
                                          /\ l \in Firings(me) /\ p = me.on => fired'[l][p] > 0
        <3>1. fired[l] \in [1..Periods -> Nat]
            BY DEF AlertsInv, AlertsTypes
        <3>2. CASE l \in Firings(me)
            <4>1. fired'[l] = [fired[l] EXCEPT ![me.on] = @ + 1]
                BY <1>3, <3>2
            <4>2. fired'[l] \in [1..Periods -> Nat]
                <5>1. me.on \in 1..Periods
                    BY <1>4
                <5>2. fired[l][me.on] \in Nat
                    BY <3>1, <5>1
                <5>3. fired[l][me.on] + 1 \in Nat
                    BY <5>2
                <5> QED BY <3>1, <4>1, <5>3
            <4>3. \A p \in 1..Periods :
                      fired'[l][p] = IF p = me.on THEN fired[l][p] + 1 ELSE fired[l][p]
                BY <3>1, <4>1
            <4>4. \A p \in 1..Periods : fired[l][p] \in Nat
                BY <3>1
            <4> QED BY <4>2, <4>3, <4>4
        <3>3. CASE l \notin Firings(me)
            BY <1>3, <3>1, <3>3
        <3> QED BY <3>2, <3>3
    <2> QED BY <1>3, <2>1
<1>10. AlertsTypes'
    <2>1. worker' \in [Workers -> WorkerState]
        BY <1>2, <1>4, <1>5
    <2>2. AlertRow' = AlertRow /\ AlertKeys' = AlertKeys /\ WorkerState' = WorkerState
        BY <1>2 DEF AlertRow, AlertKeys, KeyFor, WorkerState, RowWrite
    <2> QED BY <1>2, <1>6, <1>8, <1>9, <2>1, <2>2 DEF AlertsInv, AlertsTypes
<1>11. RequestsHaveTheirAlert'
    BY <1>2, <1>6 DEF AlertsInv, RequestsHaveTheirAlert
<1>12. WorkersAreSound'
    <2>1. SoundWorker(worker[w])'
        BY <1>5, <1>7, FS_EmptySet DEF SoundWorker
    <2>2. ASSUME NEW v \in Workers \ {w} PROVE SoundWorker(worker[v])'
        <3>1. SoundWorker(worker[v]) /\ worker'[v] = worker[v]
            BY <1>7 DEF AlertsInv, WorkersAreSound
        <3> QED BY <1>2, <1>6, <3>1 DEF SoundWorker, KeyFor
    <2> QED BY <2>1, <2>2 DEF WorkersAreSound
<1>13. OneAtATime'
    BY <1>2, <1>5, <1>7 DEF AlertsInv, OneAtATime
<1>14. ChecksAreSpend'
    BY <1>4, <1>8 DEF AlertsInv, ChecksAreSpend
<1>15. Abreast' = Abreast /\ Abreast \in Nat
    BY <1>2, <1>4, AbreastIsPositive DEF Abreast
<1>16. FewAreBlind'
    <2> SUFFICES ASSUME NEW l \in Limits, NEW p \in 1..Periods, ~Noticed(l, p)'
                 PROVE  (checked[p] + Cardinality(Blind(l, p)) + 2 <= l + Abreast)'
        BY DEF FewAreBlind
    <2> DEFINE now == Blind(l, p)  later == Blind(l, p)'
    <2>1. ~Noticed(l, p)
        BY <1>2, <1>9 DEF Noticed
    <2>2. checked[p] + Cardinality(now) + 2 <= l + Abreast
        BY <2>1 DEF AlertsInv, FewAreBlind
    <2>3. later = now \ {w}
        BY <1>5, <1>7 DEF Blind, BlindTo, Firings
    <2>4. l \in Nat /\ IsFiniteSet(now) /\ Cardinality(now) \in Nat /\ checked[p] \in Nat
        BY <1>4, BlindAreFinite, AlertsAssumption DEF AlertsAssumption
    <2>5. CASE w \in now
        <3>1. Cardinality(later) = Cardinality(now) - 1
            BY <2>3, <2>4, <2>5, FS_RemoveElement
        <3>2. checked'[p] <= checked[p] + 1 /\ checked'[p] \in Nat
            BY <1>4, <1>8
        <3> QED BY <1>15, <2>2, <2>4, <3>1, <3>2
    <2>6. CASE w \notin now
        <3>1. later = now
            BY <2>3, <2>6
        <3>2. checked'[p] = checked[p]
            <4> SUFFICES ASSUME p = me.in, p = me.on PROVE FALSE
                BY <1>8
            <4>1. l \in me.muted \cup Firings(me)
                BY <1>2, <2>6 DEF Blind, BlindTo, me
            <4>2. l \in Firings(me) => fired'[l][p] > 0
                BY <1>9
            <4>3. l \in me.muted => <<l, p>> \in hushed'
                BY <1>2
            <4> QED BY <4>1, <4>2, <4>3 DEF Noticed
        <3> QED BY <1>15, <2>2, <3>1, <3>2
    <2> QED BY <2>5, <2>6
<1>17. NoAlertStorm'
    <2> SUFFICES ASSUME NEW k \in AlertKeys
                 PROVE  (Cardinality(OpenWithKey(k)) + Cardinality(Creating(k))
                             <= Abreast + reopened[k])'
        BY <1>2 DEF NoAlertStorm, AlertKeys, KeyFor
    <2> DEFINE open == OpenWithKey(k)  open2 == OpenWithKey(k)'
               now == Creating(k)  later == Creating(k)'
    <2>1. Cardinality(open) + Cardinality(now) <= Abreast + reopened[k]
        BY DEF AlertsInv, NoAlertStorm
    <2>2. reopened'[k] = reopened[k] /\ reopened[k] \in Nat
        BY <1>2 DEF AlertsInv, AlertsTypes
    <2>3. IsFiniteSet(open) /\ Cardinality(open) \in Nat
        BY OpenAreFinite DEF AlertsInv, AlertsTypes
    <2>4. later = now \ {w}
        <3>1. later = {v \in Workers : IsCreating(worker'[v], k)}
            BY <1>2 DEF Creating, IsCreating, KeyFor, Write
        <3>2. ~IsCreating(IdleWorker, k)
            BY <1>5 DEF IsCreating
        <3> QED BY <1>7, <3>1, <3>2, CreatingIs
    <2>5. now \in SUBSET Workers
        BY DEF Creating
    <2>6. IsFiniteSet(now) /\ Cardinality(now) \in Nat /\ Cardinality(later) \in Nat
          /\ Cardinality(later) <= Cardinality(now)
        BY <2>4, <2>5, AlertsAssumption, InFiniteSubset DEF AlertsAssumption
    <2>7. open2 \ open \subseteq {i \in DOMAIN alerts' \ DOMAIN alerts : alerts'[i].key = k}
        BY <1>6 DEF OpenWithKey
    <2>8. CASE open2 \subseteq open
        <3>1. Cardinality(open2) <= Cardinality(open) /\ Cardinality(open2) \in Nat
            BY <2>3, <2>8, InFiniteSubset
        <3> QED BY <1>15, <2>1, <2>2, <2>3, <2>6, <3>1
    <2>9. CASE ~(open2 \subseteq open)
        <3>1. PICK i \in open2 : i \notin open
            BY <2>9
        <3>2. open2 \subseteq open \cup {i}
            BY <1>6, <2>7, <3>1
        <3>3. /\ IsFiniteSet(open \cup {i}) /\ Cardinality(open \cup {i}) = Cardinality(open) + 1
            BY <2>3, <3>1, FS_AddElement
        <3>4. Cardinality(open2) <= Cardinality(open) + 1 /\ Cardinality(open2) \in Nat
            BY <3>2, <3>3, InFiniteSubset
        <3>5. w \in now
            BY <1>6, <2>7, <3>1, CreatingIs DEF me
        <3>6. Cardinality(later) = Cardinality(now) - 1
            BY <2>4, <2>6, <3>5, FS_RemoveElement
        <3> QED BY <1>15, <2>1, <2>2, <2>3, <2>6, <3>4, <3>6
    <2> QED BY <2>8, <2>9
<1> QED BY <1>10, <1>11, <1>12, <1>13, <1>14, <1>16, <1>17 DEF AlertsInv

(* The notification center: a status is set, keys and the rest stay.       *)
LEMMA SetStatusKeepsAlertsInv ==
    ASSUME AlertsInv, NEW u \in Users, SetStatus(u)
    PROVE  AlertsInv'
<1> DEFINE i == user[u].row  op == user[u].op  key == alerts[i].key
<1>1. /\ op # "none"
      /\ alerts' = [alerts EXCEPT ![i].status = Leads[op]]
      /\ reopened' = [reopened EXCEPT ![key] = @ + IF op = "reopen" THEN 1 ELSE 0]
      /\ user' = [user EXCEPT ![u] = [op |-> "none", row |-> 0]]
      /\ UNCHANGED <<source, shared, period, spend, checked, hushed, fired, worker>>
    BY DEF SetStatus
<1>2. /\ op \in DOMAIN AllowedFrom /\ i \in DOMAIN alerts /\ alerts \in Seq(AlertRow)
      /\ reopened \in [AlertKeys -> Nat] /\ shared \in BOOLEAN
    BY <1>1 DEF AlertsInv, AlertsTypes, RequestsHaveTheirAlert
<1>3. alerts[i] \in AlertRow /\ key \in AlertKeys
    <2>1. alerts[i] \in AlertRow
        BY <1>2
    <2> QED BY <2>1 DEF AlertRow
<1>4. Leads[op] \in Statuses /\ (Leads[op] = "open" => op = "reopen")
    BY <1>2 DEF Leads, AllowedFrom, Statuses, Closed
<1> HIDE DEF i, op, key
<1>5. /\ DOMAIN alerts' = DOMAIN alerts /\ alerts'[i] = [alerts[i] EXCEPT !.status = Leads[op]]
      /\ \A j \in DOMAIN alerts \ {i} : alerts'[j] = alerts[j]
    BY <1>1, <1>2
<1>6. [alerts[i] EXCEPT !.status = Leads[op]] \in AlertRow
      /\ alerts'[i].key = key /\ alerts'[i].status = Leads[op]
    BY <1>3, <1>4, <1>5 DEF AlertRow, key
<1>7. alerts' \in Seq(AlertRow)
    BY <1>1, <1>2, <1>6
<1>8. \A j \in DOMAIN alerts : alerts'[j].key = alerts[j].key
    BY <1>5, <1>6 DEF key
<1>9. /\ reopened' \in [AlertKeys -> Nat]
      /\ \A k \in AlertKeys :
            reopened'[k] = IF k = key /\ op = "reopen" THEN reopened[k] + 1 ELSE reopened[k]
    <2> DEFINE more == IF op = "reopen" THEN 1 ELSE 0
    <2>1. /\ \A k \in AlertKeys :
                 reopened'[k] = IF k = key /\ op = "reopen" THEN reopened[k] + 1 ELSE reopened[k]
          /\ reopened' = [k \in AlertKeys |-> reopened'[k]]
        <3>1. reopened' = [reopened EXCEPT ![key] = @ + more]
            BY <1>1
        <3>2. reopened[key] \in Nat
            BY <1>2, <1>3
        <3>3. reopened[key] + more = IF op = "reopen" THEN reopened[key] + 1 ELSE reopened[key]
            BY <3>2
        <3> HIDE DEF more
        <3> QED BY <1>2, <1>3, <3>1, <3>3
    <2>2. \A k \in AlertKeys : reopened'[k] \in Nat
        BY <1>2, <2>1
    <2> QED BY <2>1, <2>2
<1>10. AlertsTypes'
    <2>1. user' \in [Users -> [op : {"none"} \cup DOMAIN AllowedFrom, row : Nat]]
        BY <1>1 DEF AlertsInv, AlertsTypes
    <2>2. AlertRow' = AlertRow /\ AlertKeys' = AlertKeys /\ WorkerState' = WorkerState
        BY <1>1 DEF AlertRow, AlertKeys, KeyFor, WorkerState, RowWrite
    <2> QED BY <1>1, <1>7, <1>9, <2>1, <2>2 DEF AlertsInv, AlertsTypes
<1>11. RequestsHaveTheirAlert'
    <2> SUFFICES ASSUME NEW v \in Users, user'[v].op # "none"
                 PROVE  user'[v].row \in DOMAIN alerts'
        BY DEF RequestsHaveTheirAlert
    <2>1. user'[v] = user[v]
        BY <1>1 DEF AlertsInv, AlertsTypes
    <2> QED BY <1>5, <2>1 DEF AlertsInv, RequestsHaveTheirAlert
<1>12. WorkersAreSound'
    BY <1>1, <1>5, <1>8 DEF AlertsInv, WorkersAreSound, SoundWorker, KeyFor
<1>13. OneAtATime' /\ ChecksAreSpend' /\ FewAreBlind'
    <2>1. \A l, p : Blind(l, p)' = Blind(l, p) /\ (Noticed(l, p)' <=> Noticed(l, p))
        BY <1>1 DEF Blind, BlindTo, Firings, Noticed
    <2>2. Abreast' = Abreast
        BY <1>1 DEF Abreast
    <2>3. FewAreBlind'
        BY <1>1, <2>1, <2>2 DEF AlertsInv, FewAreBlind
    <2> QED BY <1>1, <2>3 DEF AlertsInv, OneAtATime, ChecksAreSpend
<1>14. NoAlertStorm'
    <2> SUFFICES ASSUME NEW k \in AlertKeys
                 PROVE  (Cardinality(OpenWithKey(k)) + Cardinality(Creating(k))
                             <= Abreast + reopened[k])'
        BY <1>1 DEF NoAlertStorm, AlertKeys, KeyFor
    <2> DEFINE open == OpenWithKey(k)  open2 == OpenWithKey(k)'  now == Creating(k)
    <2>1. Cardinality(open) + Cardinality(now) <= Abreast + reopened[k]
        BY DEF AlertsInv, NoAlertStorm
    <2>2. Creating(k)' = now /\ Abreast' = Abreast
        BY <1>1 DEF Creating, KeyFor, Write, Abreast
    <2>3. IsFiniteSet(open) /\ Cardinality(open) \in Nat
        BY <1>2, OpenAreFinite
    <2>4. now \in SUBSET Workers
        BY DEF Creating
    <2>5. Cardinality(now) \in Nat /\ Abreast \in Nat /\ reopened[k] \in Nat
        BY <1>2, <2>4, AlertsAssumption, InFiniteSubset, AbreastIsPositive DEF AlertsAssumption
    <2>6. CASE open2 \subseteq open
        <3>1. Cardinality(open2) <= Cardinality(open) /\ Cardinality(open2) \in Nat
            BY <2>3, <2>6, InFiniteSubset
        <3>2. reopened[k] <= reopened'[k] /\ reopened'[k] \in Nat
            BY <1>9, <2>5
        <3> QED BY <2>1, <2>2, <2>3, <2>5, <3>1, <3>2
    <2>7. CASE ~(open2 \subseteq open)
        <3>1. PICK j \in open2 : j \notin open
            BY <2>7
        <3>2. j = i /\ key = k /\ op = "reopen"
            BY <1>4, <1>5, <1>6, <1>8, <3>1 DEF OpenWithKey, key
        <3>3. open2 \subseteq open \cup {i}
            BY <1>5, <3>2 DEF OpenWithKey
        <3>4. IsFiniteSet(open \cup {i}) /\ Cardinality(open \cup {i}) = Cardinality(open) + 1
            BY <2>3, <3>1, <3>2, FS_AddElement
        <3>5. Cardinality(open2) <= Cardinality(open) + 1 /\ Cardinality(open2) \in Nat
            BY <3>3, <3>4, InFiniteSubset
        <3>6. reopened'[k] = reopened[k] + 1
            BY <1>9, <3>2
        <3> QED BY <2>1, <2>2, <2>3, <2>5, <3>5, <3>6
    <2> QED BY <2>6, <2>7
<1> QED BY <1>10, <1>11, <1>12, <1>13, <1>14 DEF AlertsInv

LEMMA OtherStepsKeepAlertsInv ==
    ASSUME AlertsInv,
           \/ \E u \in Users : \E i \in DOMAIN alerts, op \in DOMAIN AllowedFrom : LoadAlert(u, i, op)
           \/ SetSuppressions \/ NewPeriod \/ UNCHANGED alertVars
    PROVE  AlertsInv'
<1> USE DEF historyVars
<1>1. /\ UNCHANGED <<source, shared, spend, alerts, worker>>
      /\ UNCHANGED <<checked, hushed, fired, reopened>>
    BY DEF LoadAlert, SetSuppressions, NewPeriod, alertVars
<1>2. period' \in 1..Periods
    BY AlertsAssumption
       DEF LoadAlert, SetSuppressions, NewPeriod, alertVars, AlertsInv, AlertsTypes, AlertsAssumption
<1>3. /\ user' \in [Users -> [op : {"none"} \cup DOMAIN AllowedFrom, row : Nat]]
      /\ \A v \in Users : user'[v].op # "none" => user'[v].row \in DOMAIN alerts
    <2>1. CASE user' = user
        BY <2>1 DEF AlertsInv, AlertsTypes, RequestsHaveTheirAlert
    <2>2. ASSUME NEW u \in Users, NEW i \in DOMAIN alerts, NEW op \in DOMAIN AllowedFrom,
                 LoadAlert(u, i, op)
          PROVE  /\ user' \in [Users -> [op : {"none"} \cup DOMAIN AllowedFrom, row : Nat]]
                 /\ \A v \in Users : user'[v].op # "none" => user'[v].row \in DOMAIN alerts
        <3>1. user' = [user EXCEPT ![u] = [op |-> op, row |-> i]]
            BY <2>2 DEF LoadAlert
        <3>2. i \in Nat
            BY DEF AlertsInv, AlertsTypes
        <3>3. user \in [Users -> [op : {"none"} \cup DOMAIN AllowedFrom, row : Nat]]
            BY DEF AlertsInv, AlertsTypes
        <3>4. user'[u] = [op |-> op, row |-> i] /\ \A v \in Users \ {u} : user'[v] = user[v]
            BY <3>1, <3>3
        <3>5. user' \in [Users -> [op : {"none"} \cup DOMAIN AllowedFrom, row : Nat]]
            BY <3>1, <3>2, <3>3
        <3> QED BY <3>4, <3>5 DEF AlertsInv, RequestsHaveTheirAlert
    <2> QED BY <2>1, <2>2 DEF SetSuppressions, NewPeriod, alertVars
<1>4. AlertsTypes'
    <2>1. AlertRow' = AlertRow /\ AlertKeys' = AlertKeys /\ WorkerState' = WorkerState
        BY <1>1 DEF AlertRow, AlertKeys, KeyFor, WorkerState, RowWrite
    <2> QED BY <1>1, <1>2, <1>3, <2>1 DEF AlertsInv, AlertsTypes
<1>5. RequestsHaveTheirAlert' /\ WorkersAreSound' /\ OneAtATime' /\ ChecksAreSpend'
    BY <1>1, <1>3 DEF AlertsInv, RequestsHaveTheirAlert, WorkersAreSound, SoundWorker, KeyFor,
                      OneAtATime, ChecksAreSpend
<1>6. FewAreBlind'
    BY <1>1 DEF AlertsInv, FewAreBlind, Noticed, Blind, BlindTo, Firings, Abreast
<1>7. NoAlertStorm'
    BY <1>1 DEF AlertsInv, NoAlertStorm, OpenWithKey, Creating, KeyFor, Write, Abreast, AlertKeys
<1> QED BY <1>4, <1>5, <1>6, <1>7 DEF AlertsInv

LEMMA InitAlertsInv == AlertsInit => AlertsInv
<1> SUFFICES ASSUME AlertsInit PROVE AlertsInv
    OBVIOUS
<1> USE DEF AlertsInit
<1>1. IdleWorker \in WorkerState /\ IdleWorker.at = "idle" /\ IdleWorker.writes = {}
    BY AlertsAssumption DEF IdleWorker, WorkerState, AlertsAssumption
<1>2. AlertsTypes /\ RequestsHaveTheirAlert
    <2>1. alerts \in Seq(AlertRow) /\ 1 \in 1..Periods
        BY AlertsAssumption DEF AlertsAssumption
    <2> QED BY <1>1, <2>1 DEF AlertsTypes, RequestsHaveTheirAlert
<1>3. WorkersAreSound /\ OneAtATime /\ ChecksAreSpend
    <2>1. \A w \in Workers : worker[w] = IdleWorker
        OBVIOUS
    <2>2. WorkersAreSound
        BY <1>1, <2>1, FS_EmptySet DEF WorkersAreSound, SoundWorker
    <2>3. OneAtATime
        BY <1>1, <2>1 DEF OneAtATime
    <2>4. ChecksAreSpend
        BY DEF ChecksAreSpend
    <2> QED BY <2>2, <2>3, <2>4
<1>4. Abreast \in Nat \ {0}
    BY AbreastIsPositive
<1>5. FewAreBlind
    <2> SUFFICES ASSUME NEW l \in Limits, NEW p \in 1..Periods
                 PROVE  checked[p] + Cardinality(Blind(l, p)) + 2 <= l + Abreast
        BY DEF FewAreBlind
    <2>1. Blind(l, p) = {}
        BY <1>1 DEF Blind, BlindTo
    <2>2. Cardinality(Blind(l, p)) = 0 /\ checked[p] = 0 /\ l \in Nat \ {0}
        BY <2>1, FS_EmptySet, AlertsAssumption DEF AlertsAssumption
    <2> QED BY <1>4, <2>2
<1>6. NoAlertStorm
    <2> SUFFICES ASSUME NEW k \in AlertKeys
                 PROVE  Cardinality(OpenWithKey(k)) + Cardinality(Creating(k)) <= Abreast + reopened[k]
        BY DEF NoAlertStorm
    <2>1. Creating(k) = {} /\ OpenWithKey(k) = {} /\ reopened[k] = 0
        BY <1>1 DEF Creating, OpenWithKey
    <2> QED BY <1>4, <2>1, FS_EmptySet
<1> QED BY <1>2, <1>3, <1>5, <1>6 DEF AlertsInv

LEMMA AlertsStep == AlertsInv /\ [AlertsNext]_alertVars => AlertsInv'
<1> SUFFICES ASSUME AlertsInv, [AlertsNext]_alertVars PROVE AlertsInv'
    OBVIOUS
<1>1. ASSUME NEW w \in Workers,
             \/ RecordSpend(w) \/ CheckLimits(w) \/ Fold(w) \/ CreateAlert(w)
             \/ CommitSpend(w) \/ AbortSpend(w)
             \/ \E l \in Limits : Suppress(w, l) \/ FindOpen(w, l)
      PROVE  AlertsInv'
    BY <1>1, RecordKeepsAlertsInv, CheckKeepsAlertsInv, WriteKeepsAlertsInv, CommitKeepsAlertsInv,
       AbortKeepsAlertsInv, SuppressKeepsAlertsInv, FindKeepsAlertsInv
<1>2. ASSUME NEW u \in Users, SetStatus(u) PROVE AlertsInv'
    BY <1>2, SetStatusKeepsAlertsInv
<1> QED BY <1>1, <1>2, OtherStepsKeepAlertsInv DEF AlertsNext

(* OverrunIsNoticed for any number of transactions, limits and periods:    *)
(* spend checked by evaluation.py runs at most the transactions under way  *)
(* past a limit before an alert is fired or a suppression holds it back.   *)
THEOREM BudgetOverrunIsNoticed == AlertsSpec => []OverrunIsNoticed
<1>1. ASSUME AlertsInv PROVE OverrunIsNoticed
    <2> SUFFICES ASSUME NEW l \in Limits, NEW p \in 1..Periods,
                        checked[p] >= l + Abreast - 1, ~Noticed(l, p)
                 PROVE  FALSE
        BY DEF OverrunIsNoticed, Noticed
    <2>1. checked[p] + Cardinality(Blind(l, p)) + 2 <= l + Abreast
        BY <1>1 DEF AlertsInv, FewAreBlind
    <2>2. /\ checked[p] \in Nat /\ l \in Nat /\ Abreast \in Nat
          /\ Cardinality(Blind(l, p)) \in Nat
        BY <1>1, AlertsAssumption, AbreastIsPositive, BlindAreFinite
           DEF AlertsInv, AlertsTypes, AlertsAssumption
    <2> QED BY <2>1, <2>2
<1> QED BY <1>1, InitAlertsInv, AlertsStep, PTL DEF AlertsSpec

(* The first half of AlertsCountWhatHappened: the deduplication of         *)
(* service.py never opens more alerts of one condition than there are      *)
(* transactions at a time, and requests that reopened one.                 *)
THEOREM AlertsDoNotStorm == AlertsSpec => []NoAlertStorm
<1>1. AlertsInv => NoAlertStorm
    BY DEF AlertsInv
<1> QED BY <1>1, InitAlertsInv, AlertsStep, PTL DEF AlertsSpec

(* OnlyPeopleReopen: a late occurrence or request never opens an alert     *)
(* somebody has closed; only a request of api/v1/alerts.py to reopen does. *)
THEOREM ClosedAlertsStayClosed == AlertsSpec => OnlyPeopleReopen
<1> DEFINE Reopens ==
        \A i \in DOMAIN alerts :
            alerts[i].status # "open" /\ alerts'[i].status = "open"
                => \E u \in Users : user[u] = [op |-> "reopen", row |-> i]
<1>1. ASSUME AlertsInv, [AlertsNext]_alertVars PROVE [Reopens]_alertVars
    <2> SUFFICES ASSUME NEW i \in DOMAIN alerts, alerts' # alerts,
                        alerts[i].status # "open", alerts'[i].status = "open"
                 PROVE  \E u \in Users : user[u] = [op |-> "reopen", row |-> i]
        BY DEF alertVars
    <2>1. ASSUME NEW w \in Workers, CommitSpend(w) PROVE FALSE
        <3>1. PICK new \in SetToSeqs(NewAlerts(worker[w].writes)) :
                  alerts' = Updated(alerts, worker[w].writes) \o new
            BY <2>1 DEF CommitSpend
        <3> QED BY <1>1, <3>1, RowsAfterCommit
    <2>2. ASSUME NEW u \in Users, SetStatus(u) PROVE user[u] = [op |-> "reopen", row |-> i]
        <3> DEFINE op == user[u].op  row == user[u].row
        <3>1. op # "none" /\ alerts' = [alerts EXCEPT ![row].status = Leads[op]]
            BY <2>2 DEF SetStatus
        <3>2. /\ user[u] \in [op : {"none"} \cup DOMAIN AllowedFrom, row : Nat]
              /\ row \in DOMAIN alerts /\ alerts \in Seq(AlertRow)
            BY <1>1, <3>1 DEF AlertsInv, AlertsTypes, RequestsHaveTheirAlert
        <3>3. row = i
            BY <3>1, <3>2
        <3>4. alerts[i] \in AlertRow /\ alerts'[i] = [alerts[i] EXCEPT !.status = Leads[op]]
            BY <3>1, <3>2, <3>3
        <3>5. Leads[op] = "open"
            BY <3>4 DEF AlertRow
        <3>6. op = "reopen"
            BY <3>1, <3>2, <3>5 DEF Leads, AllowedFrom
        <3> QED BY <3>2, <3>3, <3>6
    <2>3. \/ \E w \in Workers : CommitSpend(w)
          \/ \E u \in Users : SetStatus(u)
        BY <1>1, ZenonT(60) DEF AlertsNext, RecordSpend, CheckLimits, Fold, CreateAlert, AbortSpend, Suppress,
                    FindOpen, Firing, WriteDone, LoadAlert, SetSuppressions, NewPeriod, alertVars
    <2> QED BY <2>1, <2>2, <2>3
<1>2. OnlyPeopleReopen <=> [][Reopens]_alertVars
    BY PTL DEF OnlyPeopleReopen
<1> QED BY <1>1, <1>2, InitAlertsInv, AlertsStep, PTL DEF AlertsSpec

-----------------------------------------------------------------------------
(* What the alerts count                                                   *)
(*                                                                         *)
(* fire() writes the count it read, plus one, so counts of a row go down   *)
(* when transactions cross, and no invariant about the counts that are     *)
(* committed is inductive.  Each row has a peak, a number that only grows, *)
(* by one for every occurrence committed to it: it bounds the row's count  *)
(* and every count of it that a transaction has read, and the peaks of a   *)
(* key's rows add up to no more than its occurrences.                      *)

(* Every write of a transaction is about a limit and period of its own,    *)
(* and folds into an alert of that.                                        *)
OneWritePerKey(W) ==
    /\ W.at \in {"idle", "recorded"} => W.writes = {}
    /\ W.at = "writing" => W.limit \in W.todo
    /\ \A x \in W.writes :
          /\ x.key.limit \in Limits \ W.todo /\ x.key = KeyFor(x.key.limit, W.on)
          /\ x.row # 0 => x.row \in DOMAIN alerts /\ alerts[x.row].key = x.key
    /\ \A x, y \in W.writes : x.key.limit = y.key.limit => x = y

(* A count is at most the peak, and equal to it if nothing crosses.        *)
Near(a, b) == a <= b /\ (Abreast = 1 => a = b)

ReadsNear(W, k, peak) ==
    /\ W.at = "writing" /\ W.found # 0 /\ KeyFor(W.limit, W.on) = k => Near(W.count, peak[W.found])
    /\ \A x \in W.writes : x.row # 0 /\ x.key = k => Near(x.count, peak[x.row] + 1)

PeakOf(k, peak) ==
    /\ \A i \in AnyWithKey(k) : Near(alerts[i].count, peak[i])
    /\ \A w \in Workers : ReadsNear(worker[w], k, peak)
    /\ Near(SumOn(peak, AnyWithKey(k)), Occurred(k))

Peaks == [DOMAIN alerts -> Nat]
CountsInv ==
    /\ \A w \in Workers : OneWritePerKey(worker[w])
    /\ \A k \in AlertKeys : \E peak \in Peaks : PeakOf(k, peak)

LEMMA OccasionsAre ==
    ASSUME AlertsTypes, NEW k
    PROVE  /\ Occasions(k) \in SUBSET (Limits \X (1..Periods)) /\ IsFiniteSet(Occasions(k))
           /\ \A lp \in Limits \X (1..Periods) :
                 [q \in Limits \X (1..Periods) |-> fired[q[1]][q[2]]][lp] \in Nat
           /\ Occurred(k) \in Nat
<1> DEFINE f == [q \in Limits \X (1..Periods) |-> fired[q[1]][q[2]]]
<1>1. Occasions(k) \in SUBSET (Limits \X (1..Periods))
    BY DEF Occasions
<1>2. IsFiniteSet(Occasions(k))
    <2>1. IsFiniteSet(Limits) /\ IsFiniteSet(1..Periods)
        BY AlertsAssumption, FS_Interval DEF AlertsAssumption
    <2>2. IsFiniteSet(Limits \X (1..Periods))
        BY <2>1, FS_Product
    <2> QED BY <1>1, <2>2, FS_Subset
<1>3. \A lp \in Limits \X (1..Periods) : f[lp] \in Nat
    BY DEF AlertsTypes
<1>4. Occurred(k) = SumOn(f, Occasions(k))
    BY DEF Occurred, SumOn
<1> HIDE DEF f
<1>5. Occurred(k) \in Nat
    BY <1>1, <1>2, <1>3, <1>4, SumIsNat
<1> QED BY <1>1, <1>2, <1>3, <1>5 DEF f

LEMMA RowsWithKey ==
    ASSUME alerts \in Seq(AlertRow), NEW k
    PROVE  /\ AnyWithKey(k) \in SUBSET (DOMAIN alerts) /\ IsFiniteSet(AnyWithKey(k))
           /\ DOMAIN alerts = 1..Len(alerts) /\ Len(alerts) \in Nat
           /\ \A i \in DOMAIN alerts : alerts[i] \in AlertRow /\ alerts[i].count \in Nat
<1>1. DOMAIN alerts = 1..Len(alerts) /\ Len(alerts) \in Nat
    OBVIOUS
<1>2. AnyWithKey(k) \in SUBSET (1..Len(alerts))
    BY <1>1 DEF AnyWithKey
<1>3. IsFiniteSet(1..Len(alerts))
    BY <1>1, FS_Interval
<1>4. \A i \in DOMAIN alerts : alerts[i] \in AlertRow /\ alerts[i].count \in Nat
    <2>1. \A i \in DOMAIN alerts : alerts[i] \in AlertRow
        OBVIOUS
    <2> QED BY <2>1 DEF AlertRow
<1> QED BY <1>1, <1>2, <1>3, <1>4, FS_Subset

(* Where no more than one transaction may be under way, none other is.     *)
LEMMA OthersAreDone ==
    ASSUME AlertsInv, Abreast = 1, NEW v \in Workers, NEW w \in Workers, v # w, worker[w].at # "idle"
    PROVE  worker[v].at = "idle" /\ worker[v].writes = {}
<1>1. CASE shared
    BY <1>1 DEF AlertsInv, OneAtATime, WorkersAreSound, SoundWorker
<1>2. CASE ~shared
    <2>1. Cardinality(Workers) = 1 /\ IsFiniteSet(Workers)
        BY <1>2, AlertsAssumption DEF Abreast, AlertsAssumption
    <2>2. IsFiniteSet({w}) /\ Cardinality({w}) = 1
        BY FS_Singleton
    <2>3. IsFiniteSet({w} \cup {v}) /\ Cardinality({w} \cup {v}) = 2
        BY <2>2, FS_AddElement
    <2>4. Cardinality({w} \cup {v}) <= Cardinality(Workers)
        BY <2>1, FS_Subset
    <2> QED BY <2>1, <2>3, <2>4
<1> QED BY <1>1, <1>2

(* A step of one transaction that commits nothing                          *)
LEMMA WorkerCountsStep ==
    ASSUME AlertsInv, CountsInv, NothingElseChanges, NEW w \in Workers, NEW W,
           worker' = [worker EXCEPT ![w] = W], OneWritePerKey(W),
           \A k \in AlertKeys : \A peak \in Peaks : PeakOf(k, peak) => ReadsNear(W, k, peak)
    PROVE  CountsInv'
<1>1. worker'[w] = W /\ \A v \in Workers \ {w} : worker'[v] = worker[v]
    BY DEF AlertsInv, AlertsTypes
<1>2. UNCHANGED <<source, shared, alerts, fired>>
    BY DEF NothingElseChanges
<1>3. ASSUME NEW v \in Workers PROVE OneWritePerKey(worker[v])'
    <2>1. OneWritePerKey(worker'[v])
        BY <1>1 DEF CountsInv
    <2> QED BY <1>2, <2>1 DEF OneWritePerKey, KeyFor
<1>4. ASSUME NEW k \in AlertKeys PROVE (\E peak \in Peaks : PeakOf(k, peak))'
    <2>1. PICK peak \in Peaks : PeakOf(k, peak)
        BY DEF CountsInv
    <2>2. ASSUME NEW v \in Workers PROVE ReadsNear(worker[v], k, peak)'
        <3>1. ReadsNear(worker'[v], k, peak)
            BY <1>1, <2>1 DEF PeakOf
        <3> QED BY <1>2, <3>1 DEF ReadsNear, Near, KeyFor, Abreast
    <2>3. (\A i \in AnyWithKey(k) : Near(alerts[i].count, peak[i]))'
        BY <1>2, <2>1 DEF PeakOf, AnyWithKey, Near, Abreast
    <2>4. AnyWithKey(k)' = AnyWithKey(k) /\ Occurred(k)' = Occurred(k) /\ Abreast' = Abreast
        BY <1>2 DEF AnyWithKey, Occurred, Occasions, KeyFor, Abreast
    <2>5. Near(SumOn(peak, AnyWithKey(k)), Occurred(k))'
        BY <2>1, <2>4 DEF PeakOf, Near
    <2>6. PeakOf(k, peak)'
        BY <2>2, <2>3, <2>5 DEF PeakOf
    <2> QED BY <1>2, <2>1, <2>6 DEF Peaks
<1>5. AlertKeys' = AlertKeys
    BY <1>2 DEF AlertKeys, KeyFor
<1> QED BY <1>3, <1>4, <1>5 DEF CountsInv

LEMMA LeastIsThere ==
    ASSUME NEW S \in SUBSET Limits, S # {}
    PROVE  Min(S) \in S
<1>1. S \in SUBSET Nat
    BY AlertsAssumption DEF AlertsAssumption
<1>2. PICK n \in S : \A m \in S : n <= m
    BY <1>1, LeastNumber
<1> QED BY <1>1, <1>2 DEF Min

LEMMA FindKeepsCounts ==
    ASSUME AlertsInv, CountsInv, NEW w \in Workers, NEW l \in Limits, FindOpen(w, l)
    PROVE  CountsInv'
<1> DEFINE W(i, n) == [worker[w] EXCEPT !.at = "writing", !.limit = l, !.found = i, !.count = n]
           k == KeyFor(l, worker[w].on)
<1>1. NothingElseChanges /\ worker[w].at = "checking" /\ l = Min(worker[w].todo) /\ worker[w].todo # {}
    BY DEF FindOpen, Firing, NothingElseChanges, historyVars
<1>2. PICK i, n : /\ worker' = [worker EXCEPT ![w] = W(i, n)]
                  /\ \/ OpenWithKey(k) = {} /\ i = 0 /\ n = 0
                     \/ i \in OpenWithKey(k) /\ n = alerts[i].count
    BY DEF FindOpen
<1>3. worker[w] \in WorkerState /\ OneWritePerKey(worker[w])
    BY DEF AlertsInv, AlertsTypes, CountsInv
<1>4. /\ W(i, n).at = "writing" /\ W(i, n).on = worker[w].on
      /\ W(i, n).writes = worker[w].writes /\ W(i, n).todo = worker[w].todo
      /\ W(i, n).limit = l /\ W(i, n).found = i /\ W(i, n).count = n
    BY <1>3 DEF WorkerState
<1> HIDE DEF W
<1>5. l \in worker[w].todo
    <2>1. worker[w].todo \in SUBSET Limits
        BY <1>3 DEF WorkerState
    <2> QED BY <1>1, <2>1, LeastIsThere
<1>6. OneWritePerKey(W(i, n))
    BY <1>3, <1>4, <1>5 DEF OneWritePerKey
<1>7. ASSUME NEW j \in AlertKeys, NEW peak \in Peaks, PeakOf(j, peak)
      PROVE  ReadsNear(W(i, n), j, peak)
    <2>1. ReadsNear(worker[w], j, peak)
        BY <1>7 DEF PeakOf
    <2>2. i # 0 /\ j = k => Near(n, peak[i])
        BY <1>2, <1>7 DEF PeakOf, OpenWithKey, AnyWithKey
    <2> QED BY <1>4, <2>1, <2>2 DEF ReadsNear
<1> QED BY <1>1, <1>2, <1>6, <1>7, WorkerCountsStep

LEMMA WriteKeepsCounts ==
    ASSUME AlertsInv, CountsInv, NEW w \in Workers, Fold(w) \/ CreateAlert(w)
    PROVE  CountsInv'
<1>1. PICK x : /\ worker[w].at = "writing" /\ WriteDone(w, x)
               /\ \/ /\ worker[w].found # 0
                     /\ x = Write(worker[w].found, alerts[worker[w].found].key, worker[w].count + 1)
                  \/ /\ worker[w].found = 0
                     /\ x = Write(0, KeyFor(worker[w].limit, worker[w].on), 1)
    BY DEF Fold, CreateAlert
<1> DEFINE W == [worker[w] EXCEPT !.at = "checking",
                                  !.todo = worker[w].todo \ {worker[w].limit},
                                  !.writes = worker[w].writes \cup {x}]
<1>2. NothingElseChanges /\ worker' = [worker EXCEPT ![w] = W]
    BY <1>1 DEF WriteDone, NothingElseChanges, historyVars
<1>3. worker[w] \in WorkerState /\ SoundWorker(worker[w]) /\ OneWritePerKey(worker[w])
    BY DEF AlertsInv, AlertsTypes, WorkersAreSound, CountsInv
<1>4. /\ worker[w].limit \in Limits /\ worker[w].on \in 1..Periods /\ worker[w].found \in Nat
      /\ worker[w].count \in Nat
      /\ worker[w].found # 0 =>
            /\ worker[w].found \in DOMAIN alerts
            /\ alerts[worker[w].found].key = KeyFor(worker[w].limit, worker[w].on)
    BY <1>1, <1>3 DEF SoundWorker, WorkerState
<1>5. /\ x.key = KeyFor(worker[w].limit, worker[w].on) /\ x.key.limit = worker[w].limit
      /\ x.row = worker[w].found /\ (x.row # 0 => x.count = worker[w].count + 1)
    BY <1>1, <1>4, KeysAreKeys DEF Write
<1>6. /\ W.at = "checking" /\ W.on = worker[w].on
      /\ W.writes = worker[w].writes \cup {x}
      /\ W.todo = worker[w].todo \ {worker[w].limit}
    BY <1>3 DEF WorkerState
<1> HIDE DEF W
<1>7. worker[w].limit \in worker[w].todo
    BY <1>1, <1>3 DEF OneWritePerKey
<1>8. OneWritePerKey(W)
    <2>1. ASSUME NEW y \in W.writes
          PROVE  /\ y.key.limit \in Limits \ W.todo /\ y.key = KeyFor(y.key.limit, W.on)
                 /\ y.row # 0 => y.row \in DOMAIN alerts /\ alerts[y.row].key = y.key
        <3>1. CASE y = x
            BY <3>1, <1>4, <1>5, <1>6
        <3>2. CASE y \in worker[w].writes
            BY <3>2, <1>3, <1>6 DEF OneWritePerKey
        <3> QED BY <3>1, <3>2, <1>6
    <2>2. ASSUME NEW y \in W.writes, NEW z \in W.writes, y.key.limit = z.key.limit
          PROVE  y = z
        <3>1. \A u \in worker[w].writes : u.key.limit # x.key.limit
            BY <1>3, <1>5, <1>7 DEF OneWritePerKey
        <3> QED BY <2>2, <3>1, <1>3, <1>6 DEF OneWritePerKey
    <2> QED BY <1>6, <2>1, <2>2 DEF OneWritePerKey
<1>9. ASSUME NEW j \in AlertKeys, NEW peak \in Peaks, PeakOf(j, peak)
      PROVE  ReadsNear(W, j, peak)
    <2>1. ReadsNear(worker[w], j, peak)
        BY <1>9 DEF PeakOf
    <2>2. x.row # 0 /\ x.key = j => Near(worker[w].count, peak[worker[w].found])
        BY <1>1, <1>5, <2>1 DEF ReadsNear
    <2>3. x.row # 0 => peak[x.row] \in Nat
        BY <1>4, <1>5 DEF Peaks
    <2>4. x.row # 0 /\ x.key = j => Near(x.count, peak[x.row] + 1)
        BY <1>4, <1>5, <2>2, <2>3 DEF Near
    <2> QED BY <1>6, <2>1, <2>4 DEF ReadsNear
<1> QED BY <1>2, <1>8, <1>9, WorkerCountsStep

(* Steps that write nothing                                                *)
LEMMA QuietWorkerKeepsCounts ==
    ASSUME AlertsInv, CountsInv, NEW w \in Workers,
           RecordSpend(w) \/ CheckLimits(w) \/ AbortSpend(w) \/ \E l \in Limits : Suppress(w, l)
    PROVE  CountsInv'
<1>1. NothingElseChanges
    BY DEF RecordSpend, CheckLimits, AbortSpend, Suppress, Firing, NothingElseChanges, historyVars
<1>2. worker[w] \in WorkerState /\ OneWritePerKey(worker[w])
    BY DEF AlertsInv, AlertsTypes, CountsInv
<1>3. PICK W : /\ worker' = [worker EXCEPT ![w] = W]
               /\ W.at \in {"idle", "recorded", "checking"}
               /\ \/ W.writes = {}
                  \/ /\ worker[w].at = "checking" /\ W.at = "checking"
                     /\ W.writes = worker[w].writes /\ W.on = worker[w].on /\ W.todo \subseteq worker[w].todo
    <2>1. IdleWorker.at = "idle" /\ IdleWorker.writes = {}
        BY DEF IdleWorker
    <2>2. CASE RecordSpend(w)
        <3> DEFINE W == [IdleWorker EXCEPT !.at = "recorded", !.in = period]
        <3>1. W.at = "recorded" /\ W.writes = {}
            BY DEF IdleWorker
        <3> QED BY <2>2, <3>1 DEF RecordSpend
    <2>3. CASE CheckLimits(w)
        <3> DEFINE W == [worker[w] EXCEPT !.at = "checking", !.on = period,
                                          !.todo = {l \in Limits : TotalSeen(w) >= l}]
        <3>1. W.at = "checking" /\ W.writes = worker[w].writes
            BY <1>2 DEF WorkerState
        <3>2. worker[w].writes = {}
            BY <2>3, <1>2 DEF CheckLimits, OneWritePerKey
        <3>3. worker' = [worker EXCEPT ![w] = W]
            BY <2>3 DEF CheckLimits
        <3> QED BY <3>1, <3>2, <3>3
    <2>4. CASE AbortSpend(w)
        BY <2>1, <2>4 DEF AbortSpend
    <2>5. ASSUME NEW l \in Limits, Suppress(w, l)
          PROVE  \E W : /\ worker' = [worker EXCEPT ![w] = W]
               /\ W.at \in {"idle", "recorded", "checking"}
               /\ \/ W.writes = {}
                  \/ /\ worker[w].at = "checking" /\ W.at = "checking"
                     /\ W.writes = worker[w].writes /\ W.on = worker[w].on /\ W.todo \subseteq worker[w].todo
        <3> DEFINE W == [worker[w] EXCEPT !.todo = worker[w].todo \ {l}, !.muted = worker[w].muted \cup {l}]
        <3>1. worker[w].at = "checking"
            BY <2>5 DEF Suppress, Firing
        <3>2. /\ W.at = "checking" /\ W.writes = worker[w].writes /\ W.on = worker[w].on
              /\ W.todo \subseteq worker[w].todo
            BY <1>2, <3>1 DEF WorkerState
        <3>3. worker' = [worker EXCEPT ![w] = W]
            BY <2>5 DEF Suppress
        <3> QED BY <3>1, <3>2, <3>3
    <2> QED BY <2>2, <2>3, <2>4, <2>5
<1>4. OneWritePerKey(W)
    BY <1>2, <1>3 DEF OneWritePerKey
<1>5. ASSUME NEW j \in AlertKeys, NEW peak \in Peaks, PeakOf(j, peak)
      PROVE  ReadsNear(W, j, peak)
    BY <1>3, <1>5 DEF PeakOf, ReadsNear
<1> QED BY <1>1, <1>3, <1>4, <1>5, WorkerCountsStep

-----------------------------------------------------------------------------
(* A commit: the occurrences with a key, and the peaks of its rows, grow   *)
(* by the one write the transaction has for it.                            *)
Touches(W, k) == \E x \in W.writes : x.key = k

LEMMA FiredAfterCommit ==
    ASSUME AlertsInv, NEW w \in Workers, CommitSpend(w)
    PROVE  \A l \in Limits, p \in 1..Periods :
              fired'[l][p] = IF l \in Firings(worker[w]) /\ p = worker[w].on
                             THEN fired[l][p] + 1 ELSE fired[l][p]
<1> DEFINE on == worker[w].on
<1>1. fired' = [l \in Limits |-> IF l \in Firings(worker[w])
                                 THEN [fired[l] EXCEPT ![on] = @ + 1] ELSE fired[l]]
    BY DEF CommitSpend, Firings
<1> SUFFICES ASSUME NEW l \in Limits, NEW p \in 1..Periods
             PROVE  fired'[l][p] = IF l \in Firings(worker[w]) /\ p = on
                                   THEN fired[l][p] + 1 ELSE fired[l][p]
    OBVIOUS
<1>2. fired[l] \in [1..Periods -> Nat]
    BY DEF AlertsInv, AlertsTypes
<1> HIDE DEF on
<1>3. CASE l \in Firings(worker[w])
    <2>1. fired'[l] = [fired[l] EXCEPT ![on] = @ + 1]
        BY <1>1, <1>3
    <2> QED BY <1>2, <1>3, <2>1
<1>4. CASE l \notin Firings(worker[w])
    BY <1>1, <1>4
<1> QED BY <1>3, <1>4

LEMMA OccurredAfterCommit ==
    ASSUME AlertsInv, CountsInv, NEW w \in Workers, CommitSpend(w), NEW k \in AlertKeys
    PROVE  Occurred(k)' = IF Touches(worker[w], k) THEN Occurred(k) + 1 ELSE Occurred(k)
<1> DEFINE me == worker[w]
           P == Limits \X (1..Periods)
           f == [lp \in P |-> fired[lp[1]][lp[2]]]
           g == [lp \in P |-> fired'[lp[1]][lp[2]]]
<1>1. UNCHANGED source /\ AlertsTypes
    BY DEF CommitSpend, AlertsInv
<1>2. Occurred(k) = SumOn(f, Occasions(k)) /\ Occurred(k)' = SumOn(g, Occasions(k))
    BY <1>1 DEF Occurred, Occasions, KeyFor, SumOn
<1>3. /\ Occasions(k) \in SUBSET P /\ IsFiniteSet(Occasions(k))
      /\ \A lp \in P : f[lp] \in Nat
    BY <1>1, OccasionsAre
<1>4. \A lp \in P : g[lp] = IF lp[1] \in Firings(me) /\ lp[2] = me.on THEN f[lp] + 1 ELSE f[lp]
    BY FiredAfterCommit
<1>5. OneWritePerKey(me) /\ me.on \in 1..Periods
    BY DEF AlertsInv, AlertsTypes, CountsInv, WorkerState
<1>6. ASSUME NEW lp \in Occasions(k), lp[1] \in Firings(me), lp[2] = me.on
      PROVE  \E x \in me.writes : x.key = k /\ lp = <<x.key.limit, me.on>>
    <2>1. PICK x \in me.writes : lp[1] = x.key.limit
        BY <1>6 DEF Firings
    <2>2. lp = <<lp[1], lp[2]>> /\ k = KeyFor(lp[1], lp[2])
        BY DEF Occasions
    <2>3. x.key = KeyFor(x.key.limit, me.on)
        BY <1>5, <2>1 DEF OneWritePerKey
    <2> QED BY <1>6, <2>1, <2>2, <2>3
<1> HIDE DEF f, g, P, me
<1>7. CASE ~Touches(me, k)
    <2>1. \A lp \in Occasions(k) : f[lp] = g[lp]
        BY <1>3, <1>4, <1>6, <1>7 DEF Touches
    <2>2. SumOn(f, Occasions(k)) = SumOn(g, Occasions(k))
        BY <1>3, <2>1, SumSame
    <2> QED BY <1>2, <1>7, <2>2 DEF me
<1>8. CASE Touches(me, k)
    <2>1. PICK x \in me.writes : x.key = k
        BY <1>8 DEF Touches
    <2> DEFINE a == <<x.key.limit, me.on>>
    <2>2. a \in Occasions(k) /\ a[1] \in Firings(me) /\ a[2] = me.on
        BY <1>5, <2>1 DEF OneWritePerKey, Occasions, Firings
    <2>3. ASSUME NEW lp \in Occasions(k) \ {a} PROVE f[lp] = g[lp]
        <3>1. ~(lp[1] \in Firings(me) /\ lp[2] = me.on)
            BY <1>5, <1>6, <2>1 DEF OneWritePerKey
        <3> QED BY <1>3, <1>4, <3>1
    <2>4. g[a] = f[a] + 1 /\ f[a] \in Nat
        BY <1>3, <1>4, <2>2
    <2> HIDE DEF a
    <2>5. \A lp \in Occasions(k) : f[lp] \in Nat /\ g[lp] \in Nat
        BY <1>3, <1>4
    <2>6. SumOn(g, Occasions(k)) + f[a] = SumOn(f, Occasions(k)) + g[a]
        BY <1>3, <2>2, <2>3, <2>5, SumChange
    <2>7. SumOn(f, Occasions(k)) \in Nat /\ SumOn(g, Occasions(k)) \in Nat
        BY <1>3, <2>5, SumIsNat
    <2>8. SumOn(g, Occasions(k)) = SumOn(f, Occasions(k)) + 1
        BY <2>4, <2>6, <2>7
    <2> QED BY <1>2, <1>8, <2>8 DEF me
<1> QED BY <1>7, <1>8 DEF me

(* A peak after a commit                                                   *)
LEMMA PeakAfterCommit ==
    ASSUME AlertsInv, CountsInv, NEW w \in Workers, CommitSpend(w),
           NEW k \in AlertKeys, NEW peak \in Peaks, PeakOf(k, peak)
    PROVE  (\E q \in Peaks : PeakOf(k, q))'
<1> DEFINE me == worker[w]
<1>1. PICK new \in SetToSeqs(NewAlerts(worker[w].writes)) :
          alerts' = Updated(alerts, worker[w].writes) \o new
    BY DEF CommitSpend
<1>2. /\ me.at = "checking" /\ worker' = [worker EXCEPT ![w] = IdleWorker]
      /\ UNCHANGED <<source, shared>>
    BY DEF CommitSpend
<1>3. /\ worker'[w] = IdleWorker /\ \A v \in Workers \ {w} : worker'[v] = worker[v]
      /\ IdleWorker.at = "idle" /\ IdleWorker.writes = {}
    BY <1>2 DEF AlertsInv, AlertsTypes, IdleWorker
<1>4. OneWritePerKey(me) /\ ReadsNear(me, k, peak)
    BY DEF CountsInv, PeakOf
<1>5. /\ alerts \in Seq(AlertRow) /\ alerts' \in Seq(AlertRow)
      /\ \A i \in DOMAIN alerts : i \in DOMAIN alerts' /\ alerts'[i].key = alerts[i].key
      /\ \A i \in DOMAIN alerts' \ DOMAIN alerts : IsCreating(me, alerts'[i].key)
      /\ \A i, j \in DOMAIN alerts' \ DOMAIN alerts : alerts'[i].key = alerts'[j].key => i = j
      /\ \A i \in DOMAIN alerts :
             IF \E x \in me.writes : x.row = i
             THEN \E x \in me.writes : x.row = i /\ alerts'[i].count = x.count
             ELSE alerts'[i].count = alerts[i].count
      /\ \A i \in DOMAIN alerts' \ DOMAIN alerts : alerts'[i].count = 1
      /\ \A x \in me.writes :
             x.row = 0 => \E i \in DOMAIN alerts' \ DOMAIN alerts : alerts'[i].key = x.key
    BY <1>1, RowsAfterCommit DEF AlertsInv, AlertsTypes
<1> HIDE DEF me
<1>6. PICK q : q = [i \in DOMAIN alerts' |->
                      IF i \in DOMAIN alerts
                      THEN IF \E x \in me.writes : x.row = i THEN peak[i] + 1 ELSE peak[i]
                      ELSE 1]
    OBVIOUS
<1>7. \A i \in DOMAIN alerts : peak[i] \in Nat
    BY DEF Peaks
<1>8. /\ \A i \in DOMAIN alerts : q[i] = IF \E x \in me.writes : x.row = i THEN peak[i] + 1 ELSE peak[i]
      /\ \A i \in DOMAIN alerts' \ DOMAIN alerts : q[i] = 1
      /\ \A i \in DOMAIN alerts' : q[i] \in Nat
    BY <1>5, <1>6, <1>7
<1>9. q \in [DOMAIN alerts' -> Nat]
    BY <1>6, <1>8
<1>10. \A x \in me.writes : x.row # 0 => x.row \in DOMAIN alerts /\ alerts[x.row].key = x.key
    BY <1>4 DEF OneWritePerKey
<1>11. \A x, y \in me.writes : x.key = y.key => x = y
    BY <1>4 DEF OneWritePerKey
<1>12. DOMAIN alerts = 1..Len(alerts) /\ 0 \notin DOMAIN alerts
    BY <1>5
<1>13. Abreast' = Abreast
    BY <1>2 DEF Abreast
<1>14. ASSUME NEW i \in DOMAIN alerts', alerts'[i].key = k PROVE Near(alerts'[i].count, q[i])
    <2>1. CASE i \in DOMAIN alerts /\ \E x \in me.writes : x.row = i
        <3>1. PICK x \in me.writes : x.row = i /\ alerts'[i].count = x.count
            BY <1>5, <2>1, Zenon
        <3>2. x.row # 0 /\ x.key = k
            BY <1>5, <1>10, <1>12, <1>14, <2>1, <3>1
        <3>3. Near(x.count, peak[i] + 1)
            BY <1>4, <3>1, <3>2 DEF ReadsNear
        <3> QED BY <1>8, <2>1, <3>1, <3>3
    <2>2. CASE i \in DOMAIN alerts /\ ~ \E x \in me.writes : x.row = i
        <3>1. alerts'[i].count = alerts[i].count /\ alerts[i].key = k
            BY <1>5, <1>14, <2>2, Zenon
        <3>2. Near(alerts[i].count, peak[i])
            BY <2>2, <3>1 DEF PeakOf, AnyWithKey
        <3> QED BY <1>8, <2>2, <3>1, <3>2
    <2>3. CASE i \notin DOMAIN alerts
        BY <1>5, <1>8, <2>3 DEF Near
    <2> QED BY <2>1, <2>2, <2>3
<1>15. ASSUME NEW v \in Workers PROVE ReadsNear(worker'[v], k, q)
    <2>1. CASE v = w
        BY <1>3, <2>1 DEF ReadsNear
    <2>2. CASE v # w
        <3>1. ReadsNear(worker[v], k, peak) /\ OneWritePerKey(worker[v]) /\ SoundWorker(worker[v])
            BY DEF PeakOf, CountsInv, AlertsInv, WorkersAreSound
        <3>2. worker[v] \in WorkerState
            BY DEF AlertsInv, AlertsTypes
        <3>3. Abreast = 1 => worker[v].at = "idle" /\ worker[v].writes = {}
            BY <1>2, <2>2, OthersAreDone DEF me
        <3>4. ASSUME worker[v].at = "writing", worker[v].found # 0, KeyFor(worker[v].limit, worker[v].on) = k
              PROVE  Near(worker[v].count, q[worker[v].found])
            <4> DEFINE i == worker[v].found  c == worker[v].count
            <4>1. i \in DOMAIN alerts /\ c \in Nat
                BY <3>1, <3>2, <3>4 DEF SoundWorker, WorkerState
            <4>2. c <= peak[i] /\ Abreast # 1
                BY <3>1, <3>3, <3>4 DEF ReadsNear, Near
            <4> HIDE DEF i, c
            <4>3. c <= q[i]
                BY <1>7, <1>8, <4>1, <4>2
            <4> QED BY <4>2, <4>3 DEF Near, i, c
        <3>5. ASSUME NEW x \in worker[v].writes, x.row # 0, x.key = k
              PROVE  Near(x.count, q[x.row] + 1)
            <4>1. x.row \in DOMAIN alerts /\ x.count \in Nat
                BY <3>1, <3>2, <3>5 DEF OneWritePerKey, WorkerState, RowWrite
            <4>2. x.count <= peak[x.row] + 1 /\ Abreast # 1
                BY <3>1, <3>3, <3>5 DEF ReadsNear, Near
            <4>3. x.count <= q[x.row] + 1
                BY <1>7, <1>8, <4>1, <4>2
            <4> QED BY <4>2, <4>3 DEF Near
        <3>6. ReadsNear(worker[v], k, q)
            BY <3>4, <3>5 DEF ReadsNear
        <3> QED BY <1>3, <2>2, <3>6
    <2> QED BY <2>1, <2>2
<1> DEFINE R == AnyWithKey(k)  R2 == {i \in DOMAIN alerts' : alerts'[i].key = k}
<1>16. AnyWithKey(k)' = R2
    BY DEF AnyWithKey
<1>17. R \in SUBSET (DOMAIN alerts) /\ IsFiniteSet(R) /\ R \subseteq R2
    <2>1. R \in SUBSET (DOMAIN alerts) /\ IsFiniteSet(R)
        BY <1>5, RowsWithKey
    <2> QED BY <1>5, <2>1 DEF AnyWithKey
<1>18. \A i \in R2 \ R : i \in DOMAIN alerts' \ DOMAIN alerts /\ alerts'[i].key = k
    BY <1>5 DEF AnyWithKey
<1>19. \A i \in R2 \ R : \E x \in me.writes : x.row = 0 /\ x.key = k
    <2> SUFFICES ASSUME NEW i \in R2 \ R PROVE Write(0, k, 1) \in me.writes
        BY DEF Write
    <2>1. IsCreating(me, k)
        BY <1>5, <1>18
    <2> QED BY <1>2, <2>1 DEF IsCreating
<1>20. \A i \in R : (\E x \in me.writes : x.row = i) => \E x \in me.writes : x.row = i /\ x.row # 0 /\ x.key = k
    BY <1>10, <1>12, <1>17 DEF AnyWithKey
<1>21. \A i \in R : peak[i] \in Nat /\ q[i] \in Nat
    BY <1>5, <1>7, <1>8, <1>17
<1>22. SumOn(peak, R) \in Nat
    BY <1>17, <1>21, SumIsNat
<1>23. SumOn(q, R2) = IF Touches(me, k) THEN SumOn(peak, R) + 1 ELSE SumOn(peak, R)
    <2> HIDE DEF R, R2
    <2>1. CASE ~Touches(me, k)
        <3>1. R2 = R
            BY <1>17, <1>19, <2>1 DEF Touches
        <3>2. \A i \in R : q[i] = peak[i]
            BY <1>8, <1>17, <1>20, <2>1 DEF Touches
        <3>3. SumOn(q, R) = SumOn(peak, R)
            BY <1>17, <3>2, SumSame
        <3> QED BY <2>1, <3>1, <3>3
    <2>2. ASSUME NEW x \in me.writes, x.key = k, x.row = 0
          PROVE  SumOn(q, R2) = SumOn(peak, R) + 1
        <3>1. PICK j \in DOMAIN alerts' \ DOMAIN alerts : alerts'[j].key = k
            BY <1>5, <2>2
        <3>2. R2 = R \cup {j} /\ j \notin R
            BY <1>5, <1>17, <1>18, <3>1 DEF R2
        <3>3. \A i \in R : q[i] = peak[i]
            BY <1>8, <1>11, <1>17, <1>20, <2>2
        <3>4. SumOn(q, R) = SumOn(peak, R)
            BY <1>17, <3>3, SumSame
        <3>5. q[j] = 1 /\ \A i \in R \cup {j} : q[i] \in Nat
            BY <1>8, <1>21, <3>1
        <3>6. SumOn(q, R \cup {j}) = q[j] + SumOn(q, R)
            BY <1>17, <3>2, <3>5, SumWith
        <3> QED BY <1>22, <3>2, <3>4, <3>5, <3>6
    <2>3. ASSUME NEW x \in me.writes, x.key = k, x.row # 0
          PROVE  SumOn(q, R2) = SumOn(peak, R) + 1
        <3> DEFINE j == x.row
        <3>1. R2 = R
            BY <1>11, <1>17, <1>19, <2>3
        <3>2. j \in R
            BY <1>10, <2>3 DEF R, AnyWithKey
        <3>3. \A i \in R \ {j} : peak[i] = q[i]
            BY <1>8, <1>11, <1>17, <1>20, <2>3
        <3>4. q[j] = peak[j] + 1 /\ peak[j] \in Nat
            BY <1>8, <1>17, <1>21, <3>2
        <3> HIDE DEF j
        <3>5. SumOn(q, R) + peak[j] = SumOn(peak, R) + q[j]
            BY <1>17, <1>21, <3>2, <3>3, SumChange
        <3>6. SumOn(q, R) \in Nat
            BY <1>17, <1>21, SumIsNat
        <3> QED BY <1>22, <3>1, <3>4, <3>5, <3>6
    <2> QED BY <2>1, <2>2, <2>3 DEF Touches
<1>24. Near(SumOn(q, AnyWithKey(k)'), Occurred(k)')
    <2>1. Near(SumOn(peak, R), Occurred(k)) /\ Occurred(k) \in Nat
        BY OccasionsAre DEF PeakOf, AlertsInv
    <2>2. Occurred(k)' = IF Touches(me, k) THEN Occurred(k) + 1 ELSE Occurred(k)
        BY OccurredAfterCommit DEF me
    <2> HIDE DEF R, R2
    <2> QED BY <1>16, <1>22, <1>23, <2>1, <2>2 DEF Near
<1>25. PeakOf(k, q)'
    <2>1. (\A i \in AnyWithKey(k) : Near(alerts[i].count, q[i]))'
        BY <1>13, <1>14, <1>16 DEF Near
    <2>2. (\A v \in Workers : ReadsNear(worker[v], k, q))'
        BY <1>2, <1>13, <1>15 DEF ReadsNear, Near, KeyFor
    <2>3. Near(SumOn(q, AnyWithKey(k)), Occurred(k))'
        BY <1>13, <1>24 DEF Near
    <2> QED BY <2>1, <2>2, <2>3 DEF PeakOf
<1>26. q \in Peaks'
    BY <1>9 DEF Peaks
<1> QED BY <1>25, <1>26

LEMMA CommitKeepsCounts ==
    ASSUME AlertsInv, CountsInv, NEW w \in Workers, CommitSpend(w)
    PROVE  CountsInv'
<1>1. PICK new \in SetToSeqs(NewAlerts(worker[w].writes)) :
          alerts' = Updated(alerts, worker[w].writes) \o new
    BY DEF CommitSpend
<1>2. worker' = [worker EXCEPT ![w] = IdleWorker] /\ UNCHANGED <<source, shared>>
    BY DEF CommitSpend
<1>3. /\ worker'[w] = IdleWorker /\ \A v \in Workers \ {w} : worker'[v] = worker[v]
      /\ IdleWorker.at = "idle" /\ IdleWorker.writes = {}
    BY <1>2 DEF AlertsInv, AlertsTypes, IdleWorker
<1>4. \A i \in DOMAIN alerts : i \in DOMAIN alerts' /\ alerts'[i].key = alerts[i].key
    BY <1>1, RowsAfterCommit
<1>5. ASSUME NEW v \in Workers PROVE OneWritePerKey(worker[v])'
    <2>1. CASE v = w
        BY <1>3, <2>1 DEF OneWritePerKey
    <2>2. CASE v # w
        <3>1. OneWritePerKey(worker[v])
            BY DEF CountsInv
        <3> QED BY <1>2, <1>3, <1>4, <2>2, <3>1 DEF OneWritePerKey, KeyFor
    <2> QED BY <2>1, <2>2
<1>6. AlertKeys' = AlertKeys
    BY <1>2 DEF AlertKeys, KeyFor
<1>7. ASSUME NEW k \in AlertKeys PROVE (\E peak \in Peaks : PeakOf(k, peak))'
    BY PeakAfterCommit DEF CountsInv
<1> QED BY <1>5, <1>6, <1>7 DEF CountsInv

-----------------------------------------------------------------------------
(* What changes neither counts nor keys, nor any transaction               *)
LEMMA CountsStay ==
    ASSUME AlertsInv, CountsInv, UNCHANGED <<source, shared, fired, worker>>,
           DOMAIN alerts' = DOMAIN alerts,
           \A i \in DOMAIN alerts : alerts'[i].key = alerts[i].key /\ alerts'[i].count = alerts[i].count
    PROVE  CountsInv'
<1>1. ASSUME NEW w \in Workers PROVE OneWritePerKey(worker[w])'
    BY DEF CountsInv, OneWritePerKey, KeyFor
<1>2. ASSUME NEW k \in AlertKeys PROVE (\E peak \in Peaks : PeakOf(k, peak))'
    <2>1. PICK peak \in Peaks : PeakOf(k, peak)
        BY DEF CountsInv
    <2>2. AnyWithKey(k)' = AnyWithKey(k) /\ Occurred(k)' = Occurred(k) /\ Abreast' = Abreast
        BY DEF AnyWithKey, Occurred, Occasions, KeyFor, Abreast
    <2>3. (\A i \in AnyWithKey(k) : Near(alerts[i].count, peak[i]))'
        BY <2>1, <2>2 DEF PeakOf, AnyWithKey, Near
    <2>4. (\A w \in Workers : ReadsNear(worker[w], k, peak))'
        BY <2>1, <2>2 DEF PeakOf, ReadsNear, Near, KeyFor
    <2>5. Near(SumOn(peak, AnyWithKey(k)), Occurred(k))'
        BY <2>1, <2>2 DEF PeakOf, Near
    <2>6. PeakOf(k, peak)'
        BY <2>3, <2>4, <2>5 DEF PeakOf
    <2> QED BY <2>1, <2>6 DEF Peaks
<1>3. AlertKeys' = AlertKeys
    BY DEF AlertKeys, KeyFor
<1> QED BY <1>1, <1>2, <1>3 DEF CountsInv

LEMMA SetStatusKeepsCounts ==
    ASSUME AlertsInv, CountsInv, NEW u \in Users, SetStatus(u)
    PROVE  CountsInv'
<1> DEFINE i == user[u].row  op == user[u].op
<1>1. /\ op # "none" /\ alerts' = [alerts EXCEPT ![i].status = Leads[op]]
      /\ UNCHANGED <<source, shared, fired, worker>>
    BY DEF SetStatus
<1>2. i \in DOMAIN alerts /\ alerts \in Seq(AlertRow)
    BY <1>1 DEF AlertsInv, AlertsTypes, RequestsHaveTheirAlert
<1>3. alerts[i] \in AlertRow
    BY <1>2
<1> HIDE DEF i, op
<1>4. /\ DOMAIN alerts' = DOMAIN alerts /\ alerts'[i] = [alerts[i] EXCEPT !.status = Leads[op]]
      /\ \A j \in DOMAIN alerts \ {i} : alerts'[j] = alerts[j]
    BY <1>1, <1>2
<1>5. alerts'[i].key = alerts[i].key /\ alerts'[i].count = alerts[i].count
    BY <1>3, <1>4 DEF AlertRow
<1>6. \A j \in DOMAIN alerts : alerts'[j].key = alerts[j].key /\ alerts'[j].count = alerts[j].count
    BY <1>4, <1>5
<1> QED BY <1>1, <1>4, <1>6, CountsStay

LEMMA InitCounts ==
    ASSUME AlertsInit  PROVE CountsInv
<1>1. AlertsInv /\ AlertsTypes
    BY InitAlertsInv DEF AlertsInv
<1>2. \A w \in Workers : worker[w].at = "idle" /\ worker[w].writes = {}
    BY DEF AlertsInit, IdleWorker
<1>3. \A w \in Workers : OneWritePerKey(worker[w])
    BY <1>2 DEF OneWritePerKey
<1>4. ASSUME NEW k \in AlertKeys PROVE \E peak \in Peaks : PeakOf(k, peak)
    <2>1. PICK peak \in Peaks : TRUE
        <3>1. [i \in DOMAIN alerts |-> 0] \in Peaks
            BY DEF Peaks
        <3> QED BY <3>1
    <2>2. AnyWithKey(k) = {}
        BY DEF AlertsInit, AnyWithKey
    <2>3. SumOn(peak, AnyWithKey(k)) = 0
        BY <2>2, EmptySum
    <2>4. Occurred(k) = 0
        <3> DEFINE f == [lp \in Limits \X (1..Periods) |-> fired[lp[1]][lp[2]]]
        <3>1. Occasions(k) \in SUBSET (Limits \X (1..Periods)) /\ IsFiniteSet(Occasions(k))
            BY <1>1, OccasionsAre
        <3>2. \A lp \in Occasions(k) : f[lp] = 0
            BY <3>1 DEF AlertsInit
        <3>3. Occurred(k) = SumOn(f, Occasions(k))
            BY DEF Occurred, SumOn
        <3> HIDE DEF f
        <3> QED BY <3>1, <3>2, <3>3, SumOfZeros
    <2>5. Near(SumOn(peak, AnyWithKey(k)), Occurred(k))
        BY <2>3, <2>4 DEF Near
    <2>6. \A w \in Workers : ReadsNear(worker[w], k, peak)
        BY <1>2 DEF ReadsNear
    <2>7. PeakOf(k, peak)
        BY <2>2, <2>5, <2>6 DEF PeakOf
    <2> QED BY <2>7
<1> QED BY <1>3, <1>4 DEF CountsInv

LEMMA CountsStep == AlertsInv /\ CountsInv /\ [AlertsNext]_alertVars => CountsInv'
<1> SUFFICES ASSUME AlertsInv, CountsInv, [AlertsNext]_alertVars PROVE CountsInv'
    OBVIOUS
<1>1. ASSUME NEW w \in Workers,
             \/ RecordSpend(w) \/ CheckLimits(w) \/ Fold(w) \/ CreateAlert(w)
             \/ CommitSpend(w) \/ AbortSpend(w)
             \/ \E l \in Limits : Suppress(w, l) \/ FindOpen(w, l)
      PROVE  CountsInv'
    BY <1>1, QuietWorkerKeepsCounts, WriteKeepsCounts, CommitKeepsCounts, FindKeepsCounts
<1>2. ASSUME NEW u \in Users, SetStatus(u) PROVE CountsInv'
    BY <1>2, SetStatusKeepsCounts
<1>3. ASSUME \/ \E u \in Users : \E i \in DOMAIN alerts, op \in DOMAIN AllowedFrom : LoadAlert(u, i, op)
             \/ SetSuppressions \/ NewPeriod \/ UNCHANGED alertVars
      PROVE  CountsInv'
    <2>1. UNCHANGED <<source, shared, fired, worker, alerts>>
        BY <1>3 DEF LoadAlert, SetSuppressions, NewPeriod, alertVars, historyVars
    <2> QED BY <2>1, CountsStay
<1> QED BY <1>1, <1>2, <1>3 DEF AlertsNext

LEMMA PeaksCount ==
    ASSUME AlertsInv, CountsInv  PROVE OccurrencesAreCounted
<1> SUFFICES ASSUME NEW k \in AlertKeys
             PROVE  IF Abreast = 1 THEN CountsWith(k) = Occurred(k) ELSE CountsWith(k) <= Occurred(k)
    BY DEF OccurrencesAreCounted
<1> DEFINE count == [i \in DOMAIN alerts |-> alerts[i].count]  R == AnyWithKey(k)
<1>1. PICK peak \in Peaks : PeakOf(k, peak)
    BY DEF CountsInv
<1>2. /\ R \in SUBSET (DOMAIN alerts) /\ IsFiniteSet(R)
      /\ \A i \in DOMAIN alerts : alerts[i].count \in Nat
    BY RowsWithKey DEF AlertsInv, AlertsTypes
<1>3. Occurred(k) \in Nat
    BY OccasionsAre DEF AlertsInv
<1>4. \A i \in R : /\ count[i] \in Nat /\ peak[i] \in Nat /\ count[i] <= peak[i]
                   /\ Abreast = 1 => count[i] = peak[i]
    BY <1>1, <1>2 DEF PeakOf, Near, Peaks
<1>5. CountsWith(k) = SumOn(count, R)
    BY DEF CountsWith, SumOn
<1> HIDE DEF count, R
<1>6. SumOn(count, R) \in Nat /\ SumOn(peak, R) \in Nat
    BY <1>2, <1>4, SumIsNat
<1>7. SumOn(count, R) <= SumOn(peak, R)
    BY <1>2, <1>4, SumNoMore
<1>8. Abreast = 1 => SumOn(count, R) = SumOn(peak, R)
    BY <1>2, <1>4, SumSame
<1>9. SumOn(peak, R) <= Occurred(k) /\ (Abreast = 1 => SumOn(peak, R) = Occurred(k))
    BY <1>1 DEF PeakOf, Near, R
<1> QED BY <1>3, <1>5, <1>6, <1>7, <1>8, <1>9

(* AlertsCountWhatHappened: besides not opening more alerts than           *)
(* AlertsDoNotStorm allows, fire() of service.py never lets the alerts of  *)
(* a condition count more occurrences than were committed, although it     *)
(* writes a count it read before; one at a time it counts each of them.    *)
THEOREM AlertsCountOccurrences == AlertsSpec => []AlertsCountWhatHappened
<1>1. AlertsInv /\ CountsInv => AlertsCountWhatHappened
    BY PeaksCount DEF AlertsInv, AlertsCountWhatHappened
<1>2. AlertsInit => AlertsInv /\ CountsInv
    BY InitAlertsInv, InitCounts
<1>3. AlertsInv /\ CountsInv /\ [AlertsNext]_alertVars => (AlertsInv /\ CountsInv)'
    BY AlertsStep, CountsStep
<1> QED BY <1>1, <1>2, <1>3, PTL DEF AlertsSpec
=============================================================================
