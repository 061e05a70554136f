------------------------------- MODULE Alerts --------------------------------
(***************************************************************************)
(* Budget alerts (backend/app/alerts/, backend/app/budgets/,               *)
(* api/v1/alerts.py and the check at the end of POST /v1/ingest/usage):    *)
(* transactions that record spend compare the period's total with limits   *)
(* and fire an alert for each limit reached, deduplicated into the alert   *)
(* that is open, while people acknowledge, resolve, dismiss and reopen.    *)
(*                                                                         *)
(* One action is one SQL statement, or several between which no other      *)
(* transaction matters; PostgreSQL (READ COMMITTED, row locks) is          *)
(* external.  Spend is counted in events of one unit; one budget of one    *)
(* project, one rule or threshold per limit.                               *)
(***************************************************************************)
EXTENDS Naturals, Sequences, FiniteSets, FiniteSetsExt, SequencesExt

CONSTANTS
    Workers,    \* transactions that record spend and check the limits
    Users,      \* requests of people in the notification center
    Limits,     \* thresholds, in units of spend
    Periods,    \* bound: periods 1..Periods of the budget
    MaxSpend,   \* bound: events per period
    MaxAlerts,  \* bound: alert rows
    MaxReopens  \* bound: how often alerts of one key are reopened

ASSUME AlertsAssumption ==
    /\ Workers # {} /\ IsFiniteSet(Workers)
    /\ Limits \subseteq Nat \ {0} /\ IsFiniteSet(Limits)
    /\ Periods \in Nat \ {0} /\ MaxSpend \in Nat
    /\ MaxAlerts \in Nat /\ MaxReopens \in Nat

VARIABLES
    source,     \* who checks: "ingestion" or "budget_evaluation"
    shared,     \* they are serialised: one API key's row, a scheduler's lock
    period,     \* the current period
    spend,      \* spend[p]: committed events of p
    checked,    \* checked[p]: those whose transaction checked p itself
    alerts,     \* committed alert rows, in the order of their commits
    quiet,      \* limits an active suppression covers
    hushed,     \* limit and period pairs of which a check was suppressed
    fired,      \* fired[l][p]: committed occurrences
    reopened,   \* how often an alert was reopened
    worker,     \* progress of each transaction
    user        \* what each request has read: an operation on an alert

historyVars == <<checked, hushed, fired, reopened>>
alertVars == <<source, shared, period, spend, alerts, quiet, worker, user, historyVars>>

Closed == {"resolved", "dismissed"}
Statuses == {"open", "acknowledged"} \cup Closed

(* The scope in the dedup key: ingestion names the project, a budget       *)
(* evaluation also the period.                                             *)
KeyFor(l, p) == [limit |-> l, period |-> IF source = "ingestion" THEN 0 ELSE p]
AlertKeys == {KeyFor(l, p) : l \in Limits, p \in 1..Periods}

IdleWorker == [at |-> "idle", in |-> 1, on |-> 1, todo |-> {}, limit |-> 0,
               found |-> 0, count |-> 0, writes |-> {}, muted |-> {}]

(* A write of an alert row a transaction has not committed: row 0 is new.  *)
Write(row, key, count) == [row |-> row, key |-> key, count |-> count]
RowLocked(i) == \E w \in Workers : \E x \in worker[w].writes : x.row = i
-----------------------------------------------------------------------------
(* Empty alert tables, as the ep19_3 migration leaves them.                *)
AlertsInit ==
    /\ source \in {"ingestion", "budget_evaluation"}
    /\ shared \in BOOLEAN
    /\ period = 1
    /\ spend = [p \in 1..Periods |-> 0] /\ checked = spend
    /\ alerts = <<>> /\ quiet = {} /\ hushed = {}
    /\ fired = [l \in Limits |-> [p \in 1..Periods |-> 0]]
    /\ reopened = [k \in AlertKeys |-> 0]
    /\ worker = [w \in Workers |-> IdleWorker]
    /\ user = [u \in Users |-> [op |-> "none", row |-> 0]]
-----------------------------------------------------------------------------
(* A transaction that records one event and checks the limits              *)

(* The event is inserted and flushed; what serialises is held to the end.  *)
RecordSpend(w) ==
    /\ worker[w].at = "idle"
    /\ shared => \A v \in Workers : worker[v].at = "idle"
    /\ spend[period] + Cardinality({v \in Workers : worker[v].at # "idle"}) < MaxSpend
    /\ worker' = [worker EXCEPT ![w] = [IdleWorker EXCEPT !.at = "recorded", !.in = period]]
    /\ UNCHANGED <<source, shared, period, spend, alerts, quiet, user, historyVars>>

(* Mutation: the total is taken without the event being recorded.        *)
TotalCommitted(w) == spend[period]

(* What the total of the current period is to w: its own event counts.     *)
TotalSeen(w) == spend[period] + IF worker[w].in = period THEN 1 ELSE 0

(* get_project_month_to_date_total, or evaluate_budget, for today; the     *)
(* rules or thresholds it reaches.                                         *)
CheckLimits(w) ==
    /\ worker[w].at = "recorded"
    /\ worker' = [worker EXCEPT ![w].at = "checking", ![w].on = period,
                                ![w].todo = {l \in Limits : TotalSeen(w) >= l}]
    /\ UNCHANGED <<source, shared, period, spend, alerts, quiet, user, historyVars>>

Firing(w, l) ==
    /\ worker[w].at = "checking"
    /\ worker[w].todo # {} /\ l = Min(worker[w].todo)
    /\ UNCHANGED <<source, shared, period, spend, alerts, quiet, user, historyVars>>

(* fire(): is_suppressed answers a suppression, nothing is written.        *)
Suppress(w, l) ==
    /\ Firing(w, l)
    /\ l \in quiet
    /\ worker' = [worker EXCEPT ![w].todo = @ \ {l}, ![w].muted = @ \cup {l}]

(* Mutation: any alert with the key is taken, whatever its status.       *)
AnyWithKey(k) == {i \in DOMAIN alerts : alerts[i].key = k}

(* find_open_by_dedup_key: the rows it may return the first of.            *)
OpenWithKey(k) == {i \in DOMAIN alerts : alerts[i].key = k /\ alerts[i].status = "open"}

(* Mutation: every occurrence gets an alert of its own.                  *)
FindNothing(w, l) ==
    /\ Firing(w, l)
    /\ l \notin quiet
    /\ worker' = [worker EXCEPT ![w].at = "writing", ![w].limit = l,
                                ![w].found = 0, ![w].count = 0]

FindOpen(w, l) ==
    /\ Firing(w, l)
    /\ l \notin quiet
    /\ LET Found(i, n) == worker' = [worker EXCEPT ![w].at = "writing", ![w].limit = l,
                                                   ![w].found = i, ![w].count = n]
           open == OpenWithKey(KeyFor(l, worker[w].on))
       IN  \/ open = {} /\ Found(0, 0)
           \/ \E i \in open : Found(i, alerts[i].count)

WriteDone(w, x) ==
    /\ worker' = [worker EXCEPT ![w].at = "checking",
                                ![w].todo = @ \ {worker[w].limit},
                                ![w].writes = @ \cup {x}]
    /\ UNCHANGED <<source, shared, period, spend, alerts, quiet, user, historyVars>>

(* Mutation: an occurrence is folded without being counted.              *)
FoldUncounted(w) ==
    /\ worker[w].at = "writing" /\ worker[w].found # 0
    /\ ~RowLocked(worker[w].found)
    /\ WriteDone(w, Write(worker[w].found, alerts[worker[w].found].key, worker[w].count))

(* The UPDATE of the columns fire() assigned, with the count it read; it   *)
(* waits for another transaction's write of the row.                       *)
Fold(w) ==
    /\ worker[w].at = "writing" /\ worker[w].found # 0
    /\ ~RowLocked(worker[w].found)
    /\ WriteDone(w, Write(worker[w].found, alerts[worker[w].found].key, worker[w].count + 1))

(* INSERT of an open alert with occurrence_count 1: no unique constraint.  *)
CreateAlert(w) ==
    /\ worker[w].at = "writing" /\ worker[w].found = 0
    /\ WriteDone(w, Write(0, KeyFor(worker[w].limit, worker[w].on), 1))

(* Mutation: the whole row is written back, its status as it was found.  *)
UpdatedWholly(rows, writes) ==
    [i \in DOMAIN rows |->
        IF \E x \in writes : x.row = i
        THEN [rows[i] EXCEPT !.count = (CHOOSE x \in writes : x.row = i).count,
                             !.status = "open"]
        ELSE rows[i]]

(* Rows after a commit: folded counts replaced, new alerts appended.       *)
Updated(rows, writes) ==
    [i \in DOMAIN rows |->
        IF \E x \in writes : x.row = i
        THEN [rows[i] EXCEPT !.count = (CHOOSE x \in writes : x.row = i).count]
        ELSE rows[i]]

NewAlerts(writes) ==
    {[key |-> x.key, status |-> "open", count |-> x.count] : x \in {y \in writes : y.row = 0}}

CommitSpend(w) ==
    LET me == worker[w]
        firings == {x.key.limit : x \in me.writes}
    IN
    /\ me.at = "checking" /\ me.todo = {}
    /\ Len(alerts) + Cardinality(NewAlerts(me.writes)) <= MaxAlerts
    /\ \E new \in SetToSeqs(NewAlerts(me.writes)) : alerts' = Updated(alerts, me.writes) \o new
    /\ spend' = [spend EXCEPT ![me.in] = @ + 1]
    /\ checked' = [checked EXCEPT ![me.in] = IF me.on = me.in THEN @ + 1 ELSE @]
    /\ hushed' = hushed \cup {<<l, me.on>> : l \in me.muted}
    /\ fired' = [l \in Limits |-> IF l \in firings
                                  THEN [fired[l] EXCEPT ![me.on] = @ + 1] ELSE fired[l]]
    /\ worker' = [worker EXCEPT ![w] = IdleWorker]
    /\ UNCHANGED <<source, shared, period, quiet, reopened, user>>

(* A statement fails or the process dies.  The check swallows an error of  *)
(* the database, but PostgreSQL then turns the COMMIT into a ROLLBACK.     *)
AbortSpend(w) ==
    /\ worker[w].at # "idle"
    /\ worker' = [worker EXCEPT ![w] = IdleWorker]
    /\ UNCHANGED <<source, shared, period, spend, alerts, quiet, user, historyVars>>
-----------------------------------------------------------------------------
(* The notification center                                                 *)

(* The statuses from which a handler does not answer 409, and the status   *)
(* it then writes.                                                         *)
AllowedFrom == [acknowledge |-> {"open"},
                resolve     |-> {"open", "acknowledged"},
                dismiss     |-> {"open", "acknowledged"},
                reopen      |-> Statuses \ {"open"}]
Leads == [acknowledge |-> "acknowledged", resolve |-> "resolved",
          dismiss |-> "dismissed", reopen |-> "open"]

LoadAlert(u, i, op) ==
    /\ user[u].op = "none"
    /\ alerts[i].status \in AllowedFrom[op]
    /\ op = "reopen" => reopened[alerts[i].key] < MaxReopens
    /\ user' = [user EXCEPT ![u] = [op |-> op, row |-> i]]
    /\ UNCHANGED <<source, shared, period, spend, alerts, quiet, worker, historyVars>>

(* UPDATE ... SET status, whatever the status is by now, and the commit.   *)
SetStatus(u) ==
    LET i == user[u].row  op == user[u].op IN
    /\ op # "none"
    /\ ~RowLocked(i)
    /\ alerts' = [alerts EXCEPT ![i].status = Leads[op]]
    /\ reopened' = [reopened EXCEPT ![alerts[i].key] = @ + IF op = "reopen" THEN 1 ELSE 0]
    /\ user' = [user EXCEPT ![u] = [op |-> "none", row |-> 0]]
    /\ UNCHANGED <<source, shared, period, spend, quiet, checked, hushed, fired, worker>>

(* A suppression is created, ends or is deleted.                           *)
SetSuppressions ==
    /\ quiet' \in {{}, Limits} \ {quiet}
    /\ UNCHANGED <<source, shared, period, spend, alerts, worker, user, historyVars>>

NewPeriod ==
    /\ period < Periods
    /\ period' = period + 1
    /\ UNCHANGED <<source, shared, spend, alerts, quiet, worker, user, historyVars>>
-----------------------------------------------------------------------------
AlertsNext ==
    \/ \E w \in Workers :
          \/ RecordSpend(w) \/ CheckLimits(w) \/ Fold(w) \/ CreateAlert(w)
          \/ CommitSpend(w) \/ AbortSpend(w)
          \/ \E l \in Limits : Suppress(w, l) \/ FindOpen(w, l)
    \/ \E u \in Users :
          \/ SetStatus(u)
          \/ \E i \in DOMAIN alerts, op \in DOMAIN AllowedFrom : LoadAlert(u, i, op)
    \/ SetSuppressions \/ NewPeriod

AlertsSpec == AlertsInit /\ [][AlertsNext]_alertVars
-----------------------------------------------------------------------------
AlertsTypeOK ==
    /\ period \in 1..Periods
    /\ spend \in [1..Periods -> 0..MaxSpend] /\ checked \in [1..Periods -> 0..MaxSpend]
    /\ \A i \in DOMAIN alerts :
          alerts[i].key \in AlertKeys /\ alerts[i].status \in Statuses /\ alerts[i].count > 0
    /\ quiet \subseteq Limits
    /\ \A w \in Workers : worker[w].todo \subseteq Limits /\ worker[w].found \in 0..Len(alerts)
    /\ \A u \in Users : user[u].row \in 0..Len(alerts)

(* How many transactions may be under way at a time                        *)
Abreast == IF shared THEN 1 ELSE Cardinality(Workers)

(* A budget is not overrun unnoticed: concurrent transactions do not see   *)
(* each other's spend, but no more than one event of each other one can be *)
(* missed, so from that far over the limit on an occurrence was fired (or  *)
(* suppressed); with one API key the limit itself never passes unnoticed.  *)
OverrunIsNoticed ==
    \A l \in Limits : \A p \in 1..Periods :
        checked[p] >= l + Abreast - 1 => fired[l][p] > 0 \/ <<l, p>> \in hushed

(* "Group repeated occurrences of the same underlying condition into one   *)
(* Alert row" (dedup.py): one open alert of a key, plus one for each other *)
(* transaction that looked at the same time and each reopened one.         *)
Creating(k) ==
    {w \in Workers :
        \/ worker[w].at = "writing" /\ worker[w].found = 0
              /\ KeyFor(worker[w].limit, worker[w].on) = k
        \/ Write(0, k, 1) \in worker[w].writes}

NoAlertStorm ==
    \A k \in AlertKeys :
        Cardinality(OpenWithKey(k)) + Cardinality(Creating(k)) <= Abreast + reopened[k]

(* What the alerts with a key count, and the occurrences that were         *)
(* committed for it                                                        *)
CountsWith(k) == SumFunctionOnSet([i \in DOMAIN alerts |-> alerts[i].count], AnyWithKey(k))
Occasions(k) == {lp \in Limits \X (1..Periods) : KeyFor(lp[1], lp[2]) = k}
Occurred(k) ==
    SumFunctionOnSet([lp \in Limits \X (1..Periods) |-> fired[lp[1]][lp[2]]], Occasions(k))

(* occurrence_count: no occurrence is counted that was not committed, in   *)
(* whichever alert; one at a time, none is lost either, so an alert of a   *)
(* new period never takes over or adds to the one of the period before.    *)
OccurrencesAreCounted ==
    \A k \in AlertKeys : IF Abreast = 1 THEN CountsWith(k) = Occurred(k)
                        ELSE CountsWith(k) <= Occurred(k)

(* What the list of alerts says is what happened: no more open alerts of a *)
(* condition, and no more occurrences in them, than there were.            *)
AlertsCountWhatHappened == NoAlertStorm /\ OccurrencesAreCounted

(* "Resolving is a deliberate 'I've dealt with this' signal, not something *)
(* a stray late occurrence should silently undo" (dedup.py): only a        *)
(* request to reopen it opens an alert again, also when the occurrence or  *)
(* another request read the alert before it was closed.                    *)
OnlyPeopleReopen ==
    [][ \A i \in DOMAIN alerts :
            alerts[i].status # "open" /\ alerts'[i].status = "open"
                => \E u \in Users : user[u] = [op |-> "reopen", row |-> i] ]_alertVars
=============================================================================
