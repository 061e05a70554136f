---------------------------- MODULE DashboardLive -----------------------------
(* One browser tab of the dashboard while it is open: the single real-time *)
(* connection (apps/dashboard/src/realtime), the live figures it feeds and *)
(* the cached charts it makes stale (hooks/useDashboard.ts).  The gateway  *)
(* at the other end is Realtime; here it accepts a fresh token, sends an   *)
(* organization's usage events in order and may go away without a word.    *)
(* Backoff delays, heartbeats and rendering are abstracted: an effect of   *)
(* React runs as part of the change that causes it, the nudge of a failed  *)
(* sign-in as a step of its own.                                           *)
EXTENDS Naturals, Sequences

CONSTANTS
    LiveOrgs,         \* organizations the user switches between
    MaxAttempts,      \* MAX_RECONNECT_ATTEMPTS
    MaxUsage,         \* bound: usage events of an organization
    MaxTabSwitches,   \* bound: choices of an organization, sign-ins and -outs
    MaxDrops          \* bound: connections lost and tokens expired

VARIABLES
    org,        \* the selected organization (useOrgStore)
    token,      \* "none", "fresh" or "expired" (useAuthStore)
    live,       \* the RealtimeClient and its socket
    leftover,   \* organization of a torn-down socket that may still deliver
    shown,      \* events in the live figures and the activity list
    usage,      \* organization -> usage events recorded so far
    pipe,       \* events on their way through the open socket
    debounce,   \* organizations whose charts the pending timer will refetch
    charts,     \* organization -> usage events its cached charts include
    fetch,      \* organizations being fetched, with what the server read
    tabSwitches, drops

liveVars == <<org, token, live, leftover, shown, usage, pipe, debounce, charts, fetch,
              tabSwitches, drops>>

NoOrg == "no_org"
NotLoaded == MaxUsage + 1   \* no cached charts

NoClient == [org |-> NoOrg, status |-> "connecting", attempts |-> 0, timer |-> FALSE,
             socket |-> "none"]

-----------------------------------------------------------------------------
(* RealtimeClient.connect: without a token it waits for one, otherwise a   *)
(* socket is opened.                                                       *)
Connected(c) ==
    IF token' = "none" THEN [c EXCEPT !.status = "auth_failed"]
    ELSE [c EXCEPT !.socket = "opening",
                   !.status = IF c.attempts > 0 THEN "reconnecting" ELSE "connecting"]

(* teardownSocket: no timer and no socket; what the old one still delivers *)
(* finds the client disposed of.                                           *)
TornDown(c) == [c EXCEPT !.timer = FALSE, !.socket = "none"]

(* scheduleReconnect gives up after the last attempt.                      *)
Rescheduled(c) ==
    IF c.attempts >= MaxAttempts THEN [c EXCEPT !.socket = "none", !.status = "offline"]
    ELSE [c EXCEPT !.socket = "none", !.status = "reconnecting", !.timer = TRUE,
                   !.attempts = @ + 1]

LiveInit ==
    /\ org = NoOrg /\ token = "none" /\ live = NoClient /\ leftover = NoOrg
    /\ shown = {} /\ pipe = <<>> /\ debounce = {}
    /\ usage = [o \in LiveOrgs |-> 0]
    /\ charts = [o \in LiveOrgs |-> NotLoaded]
    /\ fetch = [o \in LiveOrgs |-> NotLoaded]
    /\ tabSwitches = 0 /\ drops = 0

(* RealtimeSubscriptionManager.stop: the store keeps its figures.          *)
Stopped ==
    /\ leftover' = IF live.socket = "open" THEN live.org ELSE leftover
    /\ live' = [TornDown(live) EXCEPT !.org = NoOrg]
    /\ pipe' = <<>>
    /\ UNCHANGED shown

(* RealtimeSubscriptionManager.start, after the effect's cleanup: nothing  *)
(* to do for the organization it runs for, else the live figures are       *)
(* cleared and a client is made.                                           *)
Started(o) ==
    IF live.org = o THEN UNCHANGED <<leftover, live, pipe, shown>>
    ELSE /\ leftover' = IF live.socket = "open" THEN live.org ELSE leftover
         /\ live' = Connected([NoClient EXCEPT !.org = o])
         /\ pipe' = <<>>
         /\ shown' = {}

(* useRealtimeConnection: its effect depends on the organization and on    *)
(* whether there is a token, never on which token.                         *)
UseRealtimeConnection ==
    IF token' = "none" \/ org' = NoOrg THEN Stopped ELSE Started(org')

TabSwitches == tabSwitches < MaxTabSwitches /\ tabSwitches' = tabSwitches + 1

SwitchOrganization(o) ==
    /\ TabSwitches /\ o # org
    /\ org' = o
    /\ UNCHANGED token
    /\ UseRealtimeConnection
    /\ UNCHANGED <<usage, debounce, charts, fetch, drops>>

TokenStored ==
    /\ TabSwitches /\ token = "none" /\ token' = "fresh"
    /\ UNCHANGED org
    /\ UseRealtimeConnection
    /\ UNCHANGED <<usage, debounce, charts, fetch, drops>>

TokenCleared ==
    /\ TabSwitches /\ token # "none" /\ token' = "none"
    /\ UNCHANGED org
    /\ UseRealtimeConnection
    /\ UNCHANGED <<usage, debounce, charts, fetch, drops>>

(* The access token ages; a request that gets 401 renews it.               *)
TokenAges ==
    /\ token = "fresh" /\ drops < MaxDrops
    /\ token' = "expired" /\ drops' = drops + 1
    /\ UNCHANGED <<org, live, leftover, shown, usage, pipe, debounce, charts, fetch, tabSwitches>>

TokenRenewed ==
    /\ token = "expired" /\ token' = "fresh"
    /\ UNCHANGED <<org, live, leftover, shown, usage, pipe, debounce, charts, fetch, tabSwitches, drops>>

-----------------------------------------------------------------------------
(* The socket's events.                                                    *)

Socket(new) ==
    /\ live' = new
    /\ pipe' = <<>>
    /\ UNCHANGED <<org, token, leftover, shown, usage, debounce, charts, fetch, tabSwitches>>

Opened ==
    /\ live.socket = "opening" /\ token = "fresh"
    /\ Socket([live EXCEPT !.socket = "open", !.status = "connected", !.attempts = 0])
    /\ UNCHANGED drops

(* Close code 4401 is not retried by the client itself.                    *)
AuthRejected ==
    /\ live.socket = "opening" /\ token = "expired"
    /\ Socket([live EXCEPT !.socket = "none", !.status = "auth_failed"])
    /\ UNCHANGED drops

(* The second effect of useRealtimeConnection, through reconnectNow().     *)
Nudge ==
    /\ live.org # NoOrg /\ live.status = "auth_failed" /\ token # "none"
    /\ live' = [TornDown(live) EXCEPT !.attempts = 0, !.socket = "opening", !.status = "connecting"]
    /\ UNCHANGED <<org, token, leftover, shown, usage, pipe, debounce, charts, fetch,
                   tabSwitches, drops>>

(* The network or the gateway goes: the tab learns of it only later.       *)
GoesSilent ==
    /\ live.socket = "open" /\ drops < MaxDrops /\ drops' = drops + 1
    /\ Socket([live EXCEPT !.socket = "dead"])

Closed ==
    /\ \/ live.socket = "dead" /\ UNCHANGED drops
       \/ live.socket = "opening" /\ drops < MaxDrops /\ drops' = drops + 1
    /\ Socket(Rescheduled(live))

ReconnectTimer ==
    /\ live.timer
    /\ token' = token
    /\ live' = Connected([live EXCEPT !.timer = FALSE])
    /\ UNCHANGED <<org, leftover, shown, usage, pipe, debounce, charts, fetch, tabSwitches, drops>>

-----------------------------------------------------------------------------
(* Usage is recorded by the backend and published.                         *)
Recorded(o) ==
    /\ usage[o] < MaxUsage
    /\ usage' = [usage EXCEPT ![o] = @ + 1]
    /\ pipe' = IF live.socket = "open" /\ live.org = o THEN Append(pipe, <<o, usage'[o]>>) ELSE pipe
    /\ UNCHANGED <<org, token, live, leftover, shown, debounce, charts, fetch, tabSwitches, drops>>

(* dispatch(): the store takes the event, then the bridge (re)starts its   *)
(* timer for the organization of the last render.                          *)
Dispatch(event) ==
    /\ shown' = shown \cup {event}
    /\ debounce' = {org}

Message ==
    /\ pipe # <<>>
    /\ Dispatch(Head(pipe))
    /\ pipe' = Tail(pipe)
    /\ UNCHANGED <<org, token, live, leftover, usage, charts, fetch, tabSwitches, drops>>

(* Mutation: the listener does not look whether it was disposed of.        *)
LateFrameCounts ==
    /\ leftover # NoOrg
    /\ leftover' = NoOrg
    /\ Dispatch(<<leftover, 1>>)

(* The message listener of a disposed client returns at once.              *)
LateFrame ==
    /\ leftover # NoOrg
    /\ leftover' = NoOrg
    /\ UNCHANGED <<shown, debounce>>

LateMessage ==
    /\ LateFrame
    /\ UNCHANGED <<org, token, live, usage, pipe, charts, fetch, tabSwitches, drops>>

-----------------------------------------------------------------------------
(* Charts: a query is fetched when it is shown without data, when it is    *)
(* invalidated, and every minute unless the connection is healthy.         *)

Fetches(o) == fetch' = [fetch EXCEPT ![o] = usage[o]]

InvalidateCharts ==
    /\ debounce # {}
    /\ debounce' = {}
    /\ fetch' = [o \in LiveOrgs |-> IF o \in debounce \cap {org} THEN usage[o] ELSE fetch[o]]
    /\ charts' = [o \in LiveOrgs |-> IF o \in debounce \ {org} THEN NotLoaded ELSE charts[o]]
    /\ UNCHANGED <<org, token, live, leftover, shown, usage, pipe, tabSwitches, drops>>

(* Mutation: polling never takes over.                                     *)
LoadOnce(o) ==
    /\ org = o /\ token # "none" /\ fetch[o] = NotLoaded
    /\ charts[o] = NotLoaded
    /\ Fetches(o)
    /\ UNCHANGED <<org, token, live, leftover, shown, usage, pipe, debounce, charts,
                   tabSwitches, drops>>

Load(o) ==
    /\ org = o /\ token # "none" /\ fetch[o] = NotLoaded
    /\ charts[o] = NotLoaded \/ live.status # "connected"
    /\ Fetches(o)
    /\ UNCHANGED <<org, token, live, leftover, shown, usage, pipe, debounce, charts,
                   tabSwitches, drops>>

Loaded(o) ==
    /\ fetch[o] # NotLoaded
    /\ charts' = [charts EXCEPT ![o] = fetch[o]]
    /\ fetch' = [fetch EXCEPT ![o] = NotLoaded]
    /\ UNCHANGED <<org, token, live, leftover, shown, usage, pipe, debounce, tabSwitches, drops>>

LiveNext ==
    \/ TokenStored \/ TokenCleared \/ TokenAges \/ TokenRenewed
    \/ Opened \/ AuthRejected \/ Nudge \/ GoesSilent \/ Closed \/ ReconnectTimer
    \/ Message \/ LateMessage \/ InvalidateCharts
    \/ \E o \in LiveOrgs : SwitchOrganization(o) \/ Recorded(o) \/ Load(o) \/ Loaded(o)

LiveSpec == LiveInit /\ [][LiveNext]_liveVars

(* Timers fire, frames and answers arrive, effects run, an expired token   *)
(* is renewed by the next request.                                         *)
LiveFairness ==
    /\ WF_liveVars(Message) /\ WF_liveVars(InvalidateCharts)
    /\ WF_liveVars(Opened) /\ WF_liveVars(Closed) /\ WF_liveVars(ReconnectTimer)
    /\ WF_liveVars(Nudge) /\ WF_liveVars(AuthRejected) /\ WF_liveVars(TokenRenewed)
    /\ \A o \in LiveOrgs : WF_liveVars(Load(o)) /\ WF_liveVars(Loaded(o))

-----------------------------------------------------------------------------
(* The state keeps its types and bounds.                                   *)
LiveTypeOK ==
    /\ org \in LiveOrgs \cup {NoOrg} /\ token \in {"none", "fresh", "expired"}
    /\ live.org \in LiveOrgs \cup {NoOrg} /\ live.attempts \in 0..MaxAttempts
    /\ live.status \in {"connecting", "connected", "reconnecting", "offline", "auth_failed"}
    /\ live.socket \in {"none", "opening", "open", "dead"}
    /\ shown \subseteq LiveOrgs \X (1..MaxUsage)
    /\ \A o \in LiveOrgs : charts[o] \in 0..NotLoaded /\ fetch[o] \in 0..NotLoaded

(* store.ts: a switch never shows one organization's live figures under    *)
(* another; hooks.ts: polling pauses only over a connection.  Frames of a  *)
(* torn-down socket, close events and timers come when they like.          *)
LiveViewIsOurs ==
    live.org # NoOrg =>
        /\ live.org = org
        /\ \A event \in shown : event[1] = org
        /\ live.status = "connected" => live.socket \in {"open", "dead"}
        /\ live.socket # "none" => ~live.timer

(* queryBridge.ts and useRealtimeRefetchInterval: whatever a signed-in tab *)
(* was told of, or learns by polling, reaches the charts it shows; a       *)
(* connection that fails does not leave them behind for good.  It needs a  *)
(* pause in the events, since each of them restarts the bridge's timer.    *)
ChartsCatchUp ==
    \A o \in LiveOrgs, n \in 1..MaxUsage :
        LET away   == org # o \/ token = "none"
            behind == org = o /\ usage[o] >= n /\ live.status # "connected"
        IN  /\ (org = o /\ <<o, n>> \in shown) ~> (charts[o] \in n..MaxUsage \/ away)
            /\ behind ~> (charts[o] \in n..MaxUsage \/ away \/ live.status = "connected")
=============================================================================
