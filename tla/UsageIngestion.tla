--------------------------- MODULE UsageIngestion ---------------------------
(***************************************************************************)
(* POST /v1/ingest/usage (backend/app/api/v1/ingest.py,                    *)
(* services/usage_ingestion_service.py, analytics/aggregation.py and the   *)
(* repositories they use): concurrent requests of one organization, each   *)
(* one database transaction at READ COMMITTED, that record a usage event   *)
(* once per request id and recompute the summaries of its day.             *)
(*                                                                         *)
(* One action is one SQL statement, or the statements between two points   *)
(* where another transaction can matter.  What PostgreSQL does at them is  *)
(* external: a statement sees what is committed plus its own writes, and a *)
(* write waits for an uncommitted write of the same row or unique key.     *)
(*                                                                         *)
(* A sum is represented by the set of events it adds up.                   *)
(***************************************************************************)
EXTENDS Naturals, FiniteSets

CONSTANTS
    Requests,      \* requests being served
    ApiKeys,       \* API keys of the organization
    Ids,           \* request ids
    Attributed,    \* the ids whose payload names a project,
    Foreign,       \* and those for which it is not the organization's
    Faults         \* a statement may fail, or a serving process die

ASSUME IngestAssumption ==
    Attributed \subseteq Ids /\ Foreign \subseteq Attributed /\ Faults \in BOOLEAN

VARIABLES
    records,    \* committed usage records, with their UsageEvent and cost
                \* record: one transaction writes all three
    rows,       \* committed rows of daily_cost_summaries
    pc,         \* where each request is
    key,        \* its API key
    id,         \* its request id
    todo,       \* groups its summary build has still to upsert, with sums
    saved,      \* the group it upserted last
    writes,     \* summary rows it wrote and has not committed
    created,    \* how many transactions committed a record of an id
    acked,      \* ids answered with 200
    unsaved,    \* those answered so although their COMMIT rolled back, until a
                \* later call records them
    published   \* ids announced with usage.created

txnVars == <<pc, key, id, todo, saved, writes>>
ingestVars == <<records, rows, txnVars, created, acked, unsaved, published>>

(* The (project, provider, model, currency) groups of one day: the events  *)
(* that name the project, and those with project_id NULL.                  *)
Groups == {"project", "null"}
GroupOf(e) == IF e \in Attributed THEN "project" ELSE "null"

(* `by` stands for the row's primary key: an event inserts at most one row *)
Row == [group : Groups, by : Ids, counted : SUBSET Ids]

Inserted == {"aggregate", "upsert", "read back", "budget", "commit"}
InTransaction == {"check", "insert"} \cup Inserted

(* The authenticating UPDATE of last_used_at locks the key's row until the *)
(* transaction ends.                                                       *)
HoldsKey(t) == pc[t] \in InTransaction

(* Transactions with an uncommitted usage record of e                      *)
Inserting(e) == {t \in Requests : id[t] = e /\ pc[t] \in Inserted}

(* What a statement of t sees                                              *)
VisibleRecords(t) == IF pc[t] \in Inserted THEN records \cup {id[t]} ELSE records

Replaces(w, r) == w.group = r.group /\ w.by = r.by
After(committed, written) ==
    {r \in committed : \A w \in written : ~Replaces(w, r)} \cup written
VisibleRows(t, g) == {r \in After(rows, writes[t]) : r.group = g}
-----------------------------------------------------------------------------
(* What a request has that is not being served                             *)
NoApiKey == "none"
NoId == "none"

(* Empty usage_records and daily summaries, as the ep16 migration leaves   *)
(* them, and every request still to come.                                  *)
IngestInit ==
    /\ records = {} /\ rows = {}
    /\ pc = [t \in Requests |-> "idle"]
    /\ key = [t \in Requests |-> NoApiKey]
    /\ id = [t \in Requests |-> NoId]
    /\ saved = [t \in Requests |-> "null"]
    /\ todo = [t \in Requests |-> {}] /\ writes = [t \in Requests |-> {}]
    /\ created = [e \in Ids |-> 0] /\ acked = {} /\ unsaved = {} /\ published = {}
-----------------------------------------------------------------------------
Goto(t, to) == pc' = [pc EXCEPT ![t] = to]

(* ApiKeyAuthService.authenticate: update_last_used waits for the key row. *)
Authenticate(t, k, e) ==
    /\ pc[t] = "idle"
    /\ \A u \in Requests : HoldsKey(u) => key[u] # k
    /\ Goto(t, "check")
    /\ key' = [key EXCEPT ![t] = k]
    /\ id' = [id EXCEPT ![t] = e]
    /\ UNCHANGED <<records, rows, todo, saved, writes, created, acked, unsaved, published>>

Leave(t) ==
    /\ Goto(t, "idle")
    /\ key' = [key EXCEPT ![t] = NoApiKey]
    /\ id' = [id EXCEPT ![t] = NoId]

AnswerOk(t) ==
    /\ Leave(t)
    /\ acked' = acked \cup {id[t]}

(* get_by_request_id finds the id: the answer is `duplicate`.              *)
FindDuplicate(t) ==
    /\ pc[t] = "check"
    /\ id[t] \in records
    /\ AnswerOk(t)
    /\ UNCHANGED <<records, rows, todo, saved, writes, created, unsaved, published>>

NotSeen(t) ==
    /\ pc[t] = "check"
    /\ id[t] \notin records
    /\ Goto(t, "insert")
    /\ UNCHANGED <<records, rows, key, id, todo, saved, writes, created, acked, unsaved, published>>

(* UnknownProjectError: 404 and rollback                                   *)
RefuseProject(t) ==
    /\ pc[t] = "insert"
    /\ id[t] \in Foreign
    /\ Leave(t)
    /\ UNCHANGED <<records, rows, todo, saved, writes, created, acked, unsaved, published>>

(* Mutation: there is no unique constraint.                              *)
InsertUnchecked(t) ==
    /\ pc[t] = "insert"
    /\ id[t] \notin Foreign
    /\ Goto(t, "aggregate")
    /\ UNCHANGED <<records, rows, key, id, todo, saved, writes, created, acked, unsaved, published>>

(* INSERT under uq_usage_records_org_request_id: waits for the transaction *)
(* that inserts the same id; then the event and cost records follow.       *)
Insert(t) ==
    /\ pc[t] = "insert"
    /\ id[t] \notin Foreign
    /\ Inserting(id[t]) = {}
    /\ id[t] \notin records
    /\ Goto(t, "aggregate")
    /\ UNCHANGED <<records, rows, key, id, todo, saved, writes, created, acked, unsaved, published>>

(* IntegrityError: rollback, which gives the key's row up, and read again. *)
LoseRace(t) ==
    /\ pc[t] = "insert"
    /\ Inserting(id[t]) = {}
    /\ id[t] \in records
    /\ Goto(t, "reread")
    /\ UNCHANGED <<records, rows, key, id, todo, saved, writes, created, acked, unsaved, published>>

AnswerRaced(t) ==
    /\ pc[t] = "reread"
    /\ id[t] \in records
    /\ AnswerOk(t)
    /\ UNCHANGED <<records, rows, todo, saved, writes, created, unsaved, published>>

(* The SUM ... GROUP BY over the day's cost records, one statement.        *)
Aggregate(t) ==
    /\ pc[t] = "aggregate"
    /\ Goto(t, "upsert")
    /\ todo' = [todo EXCEPT ![t] =
                   {[group |-> g, counted |-> {e \in VisibleRecords(t) : GroupOf(e) = g}]
                        : g \in {GroupOf(e) : e \in VisibleRecords(t)}}]
    /\ UNCHANGED <<records, rows, key, id, saved, writes, created, acked, unsaved, published>>

(* Mutation: a plain INSERT of the summary.                              *)
NoConflicts(g) == {}

(* INSERT ... ON CONFLICT DO UPDATE on uq_daily_cost_summaries.  NULLs are *)
(* distinct in that constraint: rows without a project never conflict.     *)
Conflicts(g) == {r \in rows : r.group = g /\ g # "null"}

RowIsLocked(t, g) == \E u \in Requests \ {t} : \E w \in writes[u] : w.group = g /\ g # "null"

Written(t, sum) ==
    IF Conflicts(sum.group) = {}
    THEN [group |-> sum.group, by |-> id[t], counted |-> sum.counted]
    ELSE [(CHOOSE r \in Conflicts(sum.group) : TRUE) EXCEPT !.counted = sum.counted]

Upsert(t, sum) ==
    /\ pc[t] = "upsert"
    /\ sum \in todo[t]
    /\ ~RowIsLocked(t, sum.group)
    /\ Goto(t, "read back")
    /\ writes' = [writes EXCEPT ![t] = @ \cup {Written(t, sum)}]
    /\ todo' = [todo EXCEPT ![t] = @ \ {sum}]
    /\ saved' = [saved EXCEPT ![t] = sum.group]
    /\ UNCHANGED <<records, rows, key, id, created, acked, unsaved, published>>

(* The SELECT that returns the persisted row                               *)
ReadBack(t) ==
    /\ pc[t] = "read back"
    /\ Cardinality(VisibleRows(t, saved[t])) <= 1
    /\ Goto(t, "upsert")
    /\ UNCHANGED <<records, rows, key, id, todo, saved, writes, created, acked, unsaved, published>>

(* Mutation: a failed transaction's writes stay in the session.          *)
RollbackKeepsWrites(t) ==
    /\ Leave(t)
    /\ todo' = [todo EXCEPT ![t] = {}]
    /\ UNCHANGED <<records, rows, saved, writes, created, acked, unsaved, published>>

RollbackUsage(t) ==
    /\ Leave(t)
    /\ todo' = [todo EXCEPT ![t] = {}]
    /\ writes' = [writes EXCEPT ![t] = {}]
    /\ UNCHANGED <<records, rows, saved, created, acked, unsaved, published>>

(* The rollback has expired the loaded Organization; reading its id again  *)
(* for the second lookup is an implicit load an async session refuses:     *)
(* 500.                                                                    *)
RereadFails(t) == pc[t] = "reread" /\ RollbackUsage(t)

(* scalar_one_or_none finds two rows: MultipleResultsFound, 500            *)
FindTwoRows(t) ==
    /\ pc[t] = "read back"
    /\ Cardinality(VisibleRows(t, saved[t])) > 1
    /\ RollbackUsage(t)

(* event_bus.publish(USAGE_CREATED), before get_db commits; then an event  *)
(* with a project has its budget checked.                                  *)
Publish(t) ==
    /\ pc[t] = "upsert"
    /\ todo[t] = {}
    /\ Goto(t, IF id[t] \in Attributed THEN "budget" ELSE "commit")
    /\ published' = published \cup {id[t]}
    /\ UNCHANGED <<records, rows, key, id, todo, saved, writes, created, acked, unsaved>>

(* _check_budget_alerts, whose alerts are the module Alerts.               *)
CheckBudget(t) ==
    /\ pc[t] = "budget"
    /\ Goto(t, "commit")
    /\ UNCHANGED <<records, rows, key, id, todo, saved, writes, created, acked, unsaved, published>>

(* One of its statements fails: the database has ended the transaction and *)
(* released its locks, and the request swallows the error.                 *)
BudgetCheckFails(t) ==
    /\ Faults
    /\ pc[t] = "budget"
    /\ Goto(t, "aborted")
    /\ writes' = [writes EXCEPT ![t] = {}]
    /\ UNCHANGED <<records, rows, key, id, todo, saved, created, acked, unsaved, published>>

(* The COMMIT of such a transaction rolls back without an error: 200.      *)
AnswerUnsaved(t) ==
    /\ pc[t] = "aborted"
    /\ AnswerOk(t)
    /\ unsaved' = unsaved \cup {id[t]}
    /\ UNCHANGED <<records, rows, todo, saved, writes, created, published>>

CommitUsage(t) ==
    /\ pc[t] = "commit"
    /\ records' = records \cup {id[t]}
    /\ rows' = After(rows, writes[t])
    /\ created' = [created EXCEPT ![id[t]] = @ + 1]
    /\ writes' = [writes EXCEPT ![t] = {}]
    /\ unsaved' = unsaved \ {id[t]}
    /\ AnswerOk(t)
    /\ UNCHANGED <<todo, saved, published>>

(* A statement fails (a lost connection, a deadlock's victim) or the       *)
(* serving process dies: the transaction never happened, the client sees   *)
(* an error and may send the event again.                                  *)
Fail(t) ==
    /\ Faults
    /\ pc[t] # "idle"
    /\ RollbackUsage(t)
-----------------------------------------------------------------------------
IngestStep(t) ==
    \/ FindDuplicate(t) \/ NotSeen(t) \/ Insert(t) \/ LoseRace(t) \/ AnswerRaced(t)
    \/ RereadFails(t)
    \/ Aggregate(t) \/ (\E sum \in todo[t] : Upsert(t, sum)) \/ ReadBack(t)
    \/ FindTwoRows(t) \/ RefuseProject(t) \/ Publish(t) \/ CheckBudget(t)
    \/ CommitUsage(t) \/ AnswerUnsaved(t)

IngestNext ==
    \E t \in Requests :
        \/ \E k \in ApiKeys, e \in Ids : Authenticate(t, k, e)
        \/ IngestStep(t) \/ BudgetCheckFails(t) \/ Fail(t)

IngestSpec == IngestInit /\ [][IngestNext]_ingestVars

(* Requests let in are served, faults come to an end (only the errors of   *)
(* the service's own making go on), and clients keep sending every event   *)
(* until it is answered 200; each gets through now and then.               *)
IngestFairness ==
    /\ \A t \in Requests : WF_ingestVars(IngestStep(t))
    /\ \A e \in Ids :
          /\ SF_ingestVars(\E t \in Requests, k \in ApiKeys :
                              e \notin acked /\ Authenticate(t, k, e))
          /\ SF_ingestVars(\E t \in Requests : id[t] = e /\ Insert(t))
    /\ <>[][\A t \in Requests : BudgetCheckFails(t) \/ Fail(t) => IngestStep(t)]_ingestVars

IngestFairSpec == IngestSpec /\ IngestFairness
-----------------------------------------------------------------------------
IngestTypeOK ==
    /\ records \subseteq Ids /\ rows \subseteq Row
    /\ pc \in [Requests -> InTransaction \cup {"idle", "reread", "aborted"}]
    /\ key \in [Requests -> ApiKeys \cup {NoApiKey}] /\ id \in [Requests -> Ids \cup {NoId}]
    /\ saved \in [Requests -> Groups]
    /\ todo \in [Requests -> SUBSET [group : Groups, counted : SUBSET Ids]]
    /\ writes \in [Requests -> SUBSET Row]
    /\ \A t \in Requests : pc[t] \notin Inserted => todo[t] = {} /\ writes[t] = {}
    /\ created \in [Ids -> Nat]
    /\ acked \subseteq Ids /\ unsaved \subseteq Ids /\ published \subseteq Ids

(* No committed usage record is without matching dashboard data            *)
(* (usage_ingestion_service.py): its day's summaries add it up.            *)
SummariesAreComplete == \A e \in records : \E r \in rows : e \in r.counted

(* "Never double count usage" (usage_record.py): however retries and       *)
(* concurrent requests interleave, one transaction records an id; no event *)
(* is added up in two rows of its day, and none that was rolled back at    *)
(* all; and a 200, `duplicate` or not, means the event was announced and   *)
(* is in the database -- whoever answers a duplicate saw the commit of a   *)
(* transaction that had published before -- unless it has a project and a  *)
(* database error of its budget check was swallowed.                       *)
CountedOnce ==
    /\ \A e \in Ids : created[e] <= 1
    /\ \A r \in rows : r.counted \subseteq records
    /\ \A r, s \in rows : r # s => r.counted \cap s.counted = {}
    /\ acked \subseteq (records \cup unsaved) \cap published
    /\ unsaved \subseteq Attributed

(* "One summary row per dimension combination per day" (EP-09), in the     *)
(* database and in what a transaction sees of it, and every record is in   *)
(* one: the dashboard's total over the rows is what was ingested.          *)
SummariesMatchRecords ==
    /\ SummariesAreComplete
    /\ \A g \in Groups :
          /\ Cardinality({r \in rows : r.group = g}) <= 1
          /\ \A t \in Requests : Cardinality(VisibleRows(t, g)) <= 1

(* An event sent again until it is answered 200 is recorded in the end,    *)
(* unless its project is refused or a failed budget check had it answered  *)
(* 200 unsaved: what the retries of SDK and agent count on.                *)
EveryIdIsRecorded ==
    \A e \in Ids \ Foreign :
        (\E t \in Requests : id[t] = e /\ pc[t] # "idle") ~> e \in records \cup unsaved

(* And with its summaries: from then on whoever asks for the day's total   *)
(* finds every recorded event in exactly one row of it.                    *)
EveryEventIsCounted ==
    \A e \in Ids \ Foreign :
        (\E t \in Requests : id[t] = e /\ pc[t] # "idle")
            ~> e \in unsaved \/ [](e \in records /\ SummariesMatchRecords)
=============================================================================
