--------------------------- MODULE DashboardReads ----------------------------
(* The dashboard's and the analytics API's reads of the cost records.  A   *)
(* request runs several GROUP BY statements one after another, each on     *)
(* what is committed when it runs, so usage that arrives meanwhile is in   *)
(* some parts of one answer and not in others.                             *)
EXTENDS Naturals, Sequences, FiniteSets, FiniteSetsExt, Functions

CONSTANTS
    Reads,         \* requests, one at most each
    RecordIds,     \* cost records
    Shapes,        \* what a record may hold: day, provider, model, project, currency, cost
    Today,         \* days are 1..Today
    MonthStart,    \* first day of the month and of the current trend period
    Filters,       \* [field |-> ..., value |-> ...]; the field "all" filters nothing
    TopModels,     \* the limit of a model breakdown
    MaxUpserts     \* bound on writes

NoProject == "unassigned"
NoRecord == [day |-> 0, provider |-> "none", model |-> "none", project |-> NoProject,
             currency |-> "none", cost |-> 0]

ASSUME DaysAssumption == Today \in Nat /\ MonthStart \in 1..Today /\ TopModels \in Nat
Currencies == {s.currency : s \in Shapes}
Records == [day : 1..Today, provider : {s.provider : s \in Shapes}, model : {s.model : s \in Shapes},
            project : {s.project : s \in Shapes}, currency : Currencies, cost : Nat]

ASSUME RecordsAssumption ==
    /\ IsFiniteSet(RecordIds)
    /\ Shapes \subseteq Records
    /\ \A s \in Shapes : s.provider # "none" /\ s.currency # "none"

VARIABLES
    cost_records,       \* id -> committed cost record
    upserts,       \* number of writes
    read           \* request -> its statements, the tables since it began, and what
                   \* each statement saw, with the number of the table it read

readVars == <<cost_records, upserts, read>>

-----------------------------------------------------------------------------
(* repositories/usage_cost_record_repository.py.                           *)

Matches(r, filter) == filter.field = "all" \/ r[filter.field] = filter.value

(* The WHERE clause all the totals share.                                  *)
Selected(table, from, to, filter) ==
    {i \in RecordIds : table[i] # NoRecord /\ table[i].day \in from..to /\ Matches(table[i], filter)}

Cost(table, S) == SumFunctionOnSet([i \in S |-> table[i].cost], S)

(* SELECT key, currency, SUM(total_cost), COUNT(id) GROUP BY key, currency *)
GroupBy(table, S, key) ==
    LET groupOf == [i \in S |-> <<key[i], table[i].currency>>]
        Group(g) == {i \in S : groupOf[i] = g}
    IN {[key |-> g[1], currency |-> g[2], cost |-> Cost(table, Group(g)), requests |-> Cardinality(Group(g))] :
            g \in {groupOf[i] : i \in S}}

TotalsByOrg(table, S) == GroupBy(table, S, [i \in S |-> "organization"])
TotalsByProvider(table, S) == GroupBy(table, S, [i \in S |-> table[i].provider])
TotalsByModel(table, S) == GroupBy(table, S, [i \in S |-> <<table[i].provider, table[i].model>>])

(* The rows a NULL project drops out of.                                   *)
TotalsByNamedProject(table, S) ==
    LET named == {i \in S : table[i].project # NoProject}
    IN  GroupBy(table, named, [i \in named |-> table[i].project])
TotalsByProject(table, S) == GroupBy(table, S, [i \in S |-> table[i].project])
DailyTrend(table, S) == GroupBy(table, S, [i \in S |-> table[i].day])

(* The hour and weekday of the record's event; a record has one event.     *)
Heatmap(table, S) == GroupBy(table, S, [i \in S |-> table[i].day % 2])

(* ORDER BY the sum DESC LIMIT: rows of equal cost in any order, and the   *)
(* currencies are told apart only afterwards.                              *)
Limited(rows, n) ==
    IF Cardinality(rows) <= n THEN {rows}
    ELSE {top \in kSubset(n, rows) : \A a \in top, b \in rows \ top : a.cost >= b.cost}

(* upsert: one record per event; only these columns follow a new version.  *)
Upserted(old, new) ==
    IF old = NoRecord THEN new
    ELSE [old EXCEPT !.day = new.day, !.currency = new.currency, !.cost = new.cost]

-----------------------------------------------------------------------------
(* dashboard/service.py and analytics/service.py.                          *)

In(rows, currency) == {r \in rows : r.currency = currency}
Amount(rows) == SumFunctionOnSet([r \in rows |-> r.cost], rows)
RequestCount(rows) == SumFunctionOnSet([r \in rows |-> r.requests], rows)

(* The weekly and monthly series merge the daily rows of a bucket whatever *)
(* their currency and keep the currency of the first.                      *)
Week(day) == (day + 1) \div 2
Month(day) == IF day < MonthStart THEN 1 ELSE 2
Rebucketed(daily, bucketOf) ==
    LET buckets == {bucketOf[r.key] : r \in daily}
        Of(b) == {r \in daily : bucketOf[r.key] = b}
        Firsts(b) == {r.currency : r \in {x \in Of(b) : \A y \in Of(b) : x.key <= y.key}}
    IN {{[key |-> b, currency |-> label[b], cost |-> Amount(Of(b)), requests |-> RequestCount(Of(b))] :
            b \in buckets} :
          label \in {f \in [buckets -> Currencies] : \A b \in buckets : f[b] \in Firsts(b)}}

(* What one statement of a request may answer: the amount under the asked  *)
(* currency, or under any for the figures of the overview and the KPIs.    *)
Part(part, table, from, to, filter, currency) ==
    LET S == Selected(table, from, to, filter)
        AllTime == Selected(table, 1, Today, [field |-> "all", value |-> "all"])
        Dates(a, b) == {i \in AllTime : table[i].day \in a..b}
    IN CASE part = "providers"      -> {Amount(In(TotalsByProvider(table, S), currency))}
         [] part = "models"         -> {Amount(In(rows, currency)) : rows \in Limited(TotalsByModel(table, S), TopModels)}
         [] part = "all_models"     -> {Amount(In(TotalsByModel(table, S), currency))}
         [] part = "projects"       -> {Amount(In(TotalsByProject(table, S), currency))}
         [] part = "heatmap"        -> {Amount(In(Heatmap(table, S), currency))}
         [] part = "daily"          -> {Amount(In(DailyTrend(table, S), currency))}
         [] part = "weekly"         -> {Amount(In(rows, currency)) : rows \in Rebucketed(DailyTrend(table, S), [d \in 1..Today |-> Week(d)])}
         [] part = "monthly"        -> {Amount(In(rows, currency)) : rows \in Rebucketed(DailyTrend(table, S), [d \in 1..Today |-> Month(d)])}
         [] part = "cost_summary"   -> {Amount(In(TotalsByOrg(table, S), currency))}
         [] part = "usage_summary"  -> {RequestCount(TotalsByOrg(table, S))}
         [] part = "kpi_total"      -> {Amount(TotalsByOrg(table, S))}
         [] part = "total_spend"    -> {Amount(TotalsByOrg(table, AllTime))}
         [] part = "month_spend"    -> {Amount(TotalsByOrg(table, Dates(MonthStart, Today)))}
         [] part = "today_spend"    -> {Amount(TotalsByOrg(table, Dates(Today, Today)))}
         [] part = "prior_spend"    -> {Amount(TotalsByOrg(table, Dates(1, MonthStart - 1)))}
         [] part = "active"         -> {Cardinality({r.key : r \in TotalsByProvider(table, AllTime)})}

-----------------------------------------------------------------------------
(* The endpoints and the statements each runs, in order.                   *)

Overview == <<"total_spend", "month_spend", "today_spend", "active", "prior_spend">>
Organization == Overview \o <<"providers", "models", "projects", "daily">>
Kpis == <<"providers", "all_models", "kpi_total">>
TimeSeries(granularity) == <<granularity>>
ProviderBreakdown == <<"providers">>
ModelBreakdown == <<"models">>
ProjectBreakdown == <<"projects">>
Heat == <<"heatmap">>

(* api/v1/analytics.py.                                                    *)
CostSummary == <<"cost_summary">>
AnalyticsBreakdowns == {<<"providers">>, <<"all_models">>, <<"projects">>}
OrgSummary == <<"usage_summary", "cost_summary">>

Statements ==
    {Overview, Organization, Kpis, Heat, CostSummary, OrgSummary, ProviderBreakdown,
     ModelBreakdown, ProjectBreakdown}
       \cup AnalyticsBreakdowns
       \cup {TimeSeries(g) : g \in {"daily", "weekly", "monthly"}}

NoRead == [at |-> "idle", todo |-> <<>>, from |-> 1, to |-> Today, currency |-> "USD",
           filter |-> [field |-> "all", value |-> "all"], saw |-> {}, tables |-> <<>>]

ReadsInit ==
    /\ cost_records = [i \in RecordIds |-> NoRecord]
    /\ upserts = 0
    /\ read = [q \in Reads |-> NoRead]

(* A cost record is written or rewritten: the statements that a running    *)
(* request still has to run read the new table.                            *)
UpsertRecord ==
    /\ upserts < MaxUpserts
    /\ \E i \in RecordIds, s \in Shapes :
          /\ Upserted(cost_records[i], s) # cost_records[i]
          /\ cost_records' = [cost_records EXCEPT ![i] = Upserted(cost_records[i], s)]
    /\ upserts' = upserts + 1
    /\ read' = [q \in Reads |->
                   IF read[q].at = "reading" THEN [read[q] EXCEPT !.tables = Append(@, cost_records')] ELSE read[q]]

(* start_date after end_date is a 422 and reads nothing.                   *)
BeginRead(q) ==
    /\ read[q].at = "idle"
    /\ \E statements \in Statements, from \in {1, MonthStart}, currency \in Currencies, filter \in Filters :
          /\ statements \in {Overview, Organization} => filter.field = "all"
          /\ read' = [read EXCEPT ![q] = [NoRead EXCEPT !.at = "reading", !.todo = statements, !.from = from,
                                             !.currency = currency, !.filter = filter, !.tables = <<cost_records>>]]
    /\ UNCHANGED <<cost_records, upserts>>

Statement(q) ==
    LET r == read[q] IN
    /\ r.at = "reading" /\ r.todo # <<>>
    /\ \E amount \in Part(Head(r.todo), cost_records, r.from, Today, r.filter, r.currency) :
          read' = [read EXCEPT ![q].todo = Tail(r.todo),
                               ![q].saw = @ \cup {<<Head(r.todo), amount, Len(r.tables)>>}]
    /\ UNCHANGED <<cost_records, upserts>>

Respond(q) ==
    /\ read[q].at = "reading" /\ read[q].todo = <<>>
    /\ read' = [read EXCEPT ![q].at = "done"]
    /\ UNCHANGED <<cost_records, upserts>>

ReadsNext ==
    \/ UpsertRecord
    \/ \E q \in Reads : BeginRead(q) \/ Statement(q) \/ Respond(q)

ReadsSpec == ReadsInit /\ [][ReadsNext]_readVars

-----------------------------------------------------------------------------
(* The state keeps its types and bounds.                                   *)
ReadsTypeOK ==
    /\ cost_records \in [RecordIds -> Records \cup {NoRecord}]
    /\ upserts \in 0..MaxUpserts
    /\ \A q \in Reads : read[q].at \in {"idle", "reading", "done"}

Spent(table, from, to, filter, currencies) ==
    Cost(table, {i \in RecordIds : /\ table[i] # NoRecord /\ table[i].day \in from..to
                                   /\ Matches(table[i], filter) /\ table[i].currency \in currencies})
OneCurrency(table) == Cardinality({table[i].currency : i \in RecordIds} \ {"none"}) <= 1

(* What the amount a part answered means, had the request read all of it   *)
(* from one table.  The series by week and month and the totals of the     *)
(* overview and the KPIs add the currencies together.                      *)
AddsUp(part, amount, table, r) ==
    LET Was(from, to, filter, currencies) == amount = Spent(table, from, to, filter, currencies)
        all == [field |-> "all", value |-> "all"]
    IN /\ part \in {"providers", "all_models", "projects", "heatmap", "daily", "cost_summary"} =>
             Was(r.from, Today, r.filter, {r.currency})
       /\ part = "models" => amount <= Spent(table, r.from, Today, r.filter, {r.currency})
       /\ part = "usage_summary" =>
             amount = Cardinality({i \in RecordIds : table[i].day \in r.from..Today /\ Matches(table[i], r.filter)})
       /\ part = "active" => amount = Cardinality({table[i].provider : i \in RecordIds} \ {"none"})
       /\ OneCurrency(table) =>
             /\ part \in {"weekly", "monthly"} => Was(r.from, Today, r.filter, {r.currency})
             /\ part = "kpi_total" => Was(r.from, Today, r.filter, Currencies)
             /\ part = "total_spend" => Was(1, Today, all, Currencies)
             /\ part = "month_spend" => Was(MonthStart, Today, all, Currencies)
             /\ part = "today_spend" => Was(Today, Today, all, Currencies)
             /\ part = "prior_spend" => Was(1, MonthStart - 1, all, Currencies)

(* api/v1/dashboard.py: every part of an answer is what was spent, in the  *)
(* asked currency and over the asked days, in the table that was committed *)
(* when its statement ran, however many writes fall between the statements *)
(* of a request: parts with no write between them add up to one another,   *)
(* and no record is left out or counted twice by a grouping (one without a *)
(* project, one that moved to another day).  A top list never exceeds it.  *)
(* A sum over currencies is asserted only while one currency is in use:    *)
(* the repository says that currencies are never summed together, and the  *)
(* services above it do.                                                   *)
PartsAddUp ==
    \A q \in Reads : \A seen \in read[q].saw :
        AddsUp(seen[1], seen[2], read[q].tables[seen[3]], read[q])
=============================================================================
