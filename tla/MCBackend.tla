----------------------------- MODULE MCBackend ------------------------------
(* Small instances of the backend's components.  They share no state, so   *)
(* their steps commute: a behaviour runs the component in `focus` and      *)
(* leaves the others where they started.                                   *)
EXTENDS UsageIngestion, SyncScheduler, UsageCollection, Alerts, Realtime,
        Memberships, Accounts, ProviderConnections, ProviderCalls, DashboardReads,
        RateLimits, UsagePricing, TLC

CONSTANT Parts   \* the components of a run

(* Cost records and filters a dashboard read may meet.                     *)
MCShapes ==
    {[day |-> 4, provider |-> "openai", model |-> "m1", project |-> "px", currency |-> "USD", cost |-> 1],
     [day |-> 3, provider |-> "openai", model |-> "m2", project |-> NoProject, currency |-> "EUR", cost |-> 2],
     [day |-> 1, provider |-> "google", model |-> "m3", project |-> NoProject, currency |-> "USD", cost |-> 3]}
MCFilters == {[field |-> "all", value |-> "all"], [field |-> "project", value |-> "px"]}

(* A provider whose items have a time, one whose items have ids and one    *)
(* whose items have neither; and two prices, both good on one day.         *)
MCReporters == {<<"openai", "time">>, <<"anthropic", "id">>, <<"openrouter", "neither">>}
MCDrafts ==
    {[version |-> "v1", from |-> 1, to |-> 2, active |-> TRUE],
     [version |-> "v2", from |-> 2, to |-> Forever, active |-> TRUE]}

VARIABLE focus

On(part) == focus = part

Init ==
    /\ focus \in Parts
    /\ IngestInit /\ SchedulerInit /\ CollectionInit
    /\ AlertsInit /\ RealtimeInit /\ MembershipsInit /\ AccountsInit
    /\ ConnectionsInit /\ CallsInit /\ ReadsInit
    /\ LimitsInit /\ PricingInit
    /\ ~On("scheduler") => due = {}
    /\ ~On("collection") =>
          immediate = (TRUE \in Arbiters) /\ swallows = (TRUE \in Swallowing) /\ invalid = {}
    /\ ~On("alerts") => source = "ingestion" /\ shared
    /\ IF On("connections") THEN \E c \in Connections : row[c] = NoRow
       ELSE \A c \in Connections : row[c] = NoRow
    /\ ~On("limits") => limiter = "login"
    /\ ~On("pricing") => reporter = <<"openai", "time">>

Next ==
    /\ UNCHANGED focus
    /\ IF On("ingestion")   THEN IngestNext      ELSE UNCHANGED ingestVars
    /\ IF On("scheduler")   THEN SchedulerNext   ELSE UNCHANGED schedulerVars
    /\ IF On("collection")  THEN CollectionNext  ELSE UNCHANGED collectionVars
    /\ IF On("alerts")      THEN AlertsNext      ELSE UNCHANGED alertVars
    /\ IF On("realtime")    THEN RealtimeNext    ELSE UNCHANGED realtimeVars
    /\ IF On("memberships") THEN MembershipsNext ELSE UNCHANGED membershipVars
    /\ IF On("accounts")    THEN AccountsNext    ELSE UNCHANGED accountVars
    /\ IF On("connections") THEN ConnectionsNext ELSE UNCHANGED connVars
    /\ IF On("calls")       THEN CallsNext       ELSE UNCHANGED callVars
    /\ IF On("reads")       THEN ReadsNext       ELSE UNCHANGED readVars
    /\ IF On("limits")      THEN LimitsNext      ELSE UNCHANGED limitVars
    /\ IF On("pricing")     THEN PricingNext     ELSE UNCHANGED pricingVars

vars == <<focus, ingestVars, schedulerVars, collectionVars, alertVars, realtimeVars,
          membershipVars, accountVars, connVars, callVars, readVars,
          limitVars, pricingVars>>

Spec == Init /\ [][Next]_vars

FairSpec ==
    /\ Spec
    /\ \/ On("ingestion")  /\ IngestFairness
       \/ On("scheduler")  /\ SchedulerFairness
       \/ On("collection") /\ CollectionFairness
       \/ On("realtime")   /\ RealtimeFairness

(* The state of the component in focus keeps its types and bounds.         *)
BackendTypeOK ==
    \/ On("ingestion")   /\ IngestTypeOK
    \/ On("scheduler")   /\ SchedulerTypeOK
    \/ On("collection")  /\ CollectionTypeOK
    \/ On("alerts")      /\ AlertsTypeOK
    \/ On("realtime")    /\ RealtimeTypeOK
    \/ On("memberships") /\ MembershipsTypeOK
    \/ On("accounts")    /\ AccountsTypeOK
    \/ On("connections") /\ ConnectionsTypeOK
    \/ On("calls")       /\ CallsTypeOK
    \/ On("reads")       /\ ReadsTypeOK
    \/ On("limits")      /\ LimitsTypeOK
    \/ On("pricing")     /\ PricingTypeOK

(* Requests, and with each transposition of them two values of the other   *)
(* sets of interchangeable values: one component is away from its initial  *)
(* state, so permuting them all at once loses nothing.                     *)
Moves(f) == \E x \in DOMAIN f : f[x] # x
Transposes(f) == Cardinality({x \in DOMAIN f : f[x] # x}) = 2
Pair(S, swapped) ==
    CHOOSE f \in Permutations(S) : IF swapped THEN Transposes(f) ELSE ~Moves(f)

Symmetric ==
    {f @@ Pair(ApiKeys, Transposes(f)) @@ Pair(Workers, Transposes(f))
       @@ Pair(Calls, Transposes(f)) @@ Pair(Syncs, Transposes(f))
       @@ Pair(Processes, Transposes(f)) @@ Pair(Browsers, Transposes(f))
       @@ Pair(Edits, Transposes(f)) @@ Pair(RecordIds, Transposes(f))
       @@ Pair(Tries, Transposes(f)) @@ Pair(Feeds, Transposes(f))
       @@ Pair(Collectors, Transposes(f)) @@ Pair(Editors, Transposes(f)) : f \in Permutations(Requests)}
=============================================================================
