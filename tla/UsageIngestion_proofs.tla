----------------------- MODULE UsageIngestion_proofs ------------------------
(***************************************************************************)
(* What producers of events are promised, and what the backend makes of    *)
(* what they deliver.                                                      *)
(*                                                                         *)
(* The promises of AtLeastOnceDelivery hold for any set of events.         *)
(*                                                                         *)
(* However many requests, keys and ids there are, an id is recorded once,  *)
(* no event is added up twice, and a 200 means that it is stored, or that a *)
(* database error of its budget check was swallowed.                       *)
(*                                                                         *)
(* CountedOnce is not inductive.  That no transaction counts an event a    *)
(* second time depends on what transactions have written and not yet       *)
(* committed; for events without a project, whose rows the constraint does *)
(* not keep apart, on the second look at the row that ReadBack takes.      *)
(***************************************************************************)
EXTENDS UsageIngestion, AtLeastOnceDelivery, FiniteSetTheorems, TLAPS

LEMMA StepKeepsEvents == NothingVanishes /\ [Next]_vars => NothingVanishes'
<1> SUFFICES ASSUME NothingVanishes, [Next]_vars PROVE NothingVanishes'
  OBVIOUS
<1> USE DEF NothingVanishes, Held
<1>1. ASSUME NEW e \in Events, NEW victims \in SUBSET buffered, Accept(e, victims)
      PROVE  NothingVanishes'
  BY <1>1 DEF Accept
<1>2. ASSUME NEW e \in Events, Persist(e) \/ Receive(e) \/ Confirm(e) \/ Reject(e)
      PROVE  NothingVanishes'
  BY <1>2 DEF Persist, Receive, Confirm, Reject, Retire
<1>3. ASSUME NEW gone \in SUBSET buffered, Lose(gone)
      PROVE  NothingVanishes'
  BY <1>3 DEF Lose
<1>4. ASSUME NEW kept \in SUBSET Events, Rewrite(kept)
      PROVE  NothingVanishes'
  BY <1>4 DEF Rewrite, Settled
<1>5. CASE UNCHANGED vars
  BY <1>5 DEF vars
<1>6. QED
  BY <1>1, <1>2, <1>3, <1>4, <1>5 DEF Next

(* No accepted event disappears without a documented reason.               *)
THEOREM NoEventVanishes == Spec => []NothingVanishes
<1>1. Init => NothingVanishes
  BY DEF Init, NothingVanishes
<1>2. QED
  BY <1>1, StepKeepsEvents, PTL DEF Spec

(* What is on disk stays there until an answer settled it.                 *)
THEOREM DurableEventsSurvive == Spec => DurableUntilAnswered
<1>1. [Next]_vars
        => [ \A e \in durable \ durable' : e \in received' \cup rejected' ]_vars
  BY DEF Next, vars, Accept, Persist, Receive, Confirm, Reject, Retire, Lose, Rewrite,
     Held, Settled
<1>2. QED
  BY <1>1, PTL DEF Spec, DurableUntilAnswered

-----------------------------------------------------------------------------
(* Ingestion.                                                              *)

(* The parts of the type invariant the argument needs.                     *)
Sums == [group : Groups, counted : SUBSET Ids]

IngestTypes ==
    /\ records \subseteq Ids /\ created \in [Ids -> Nat]
    /\ pc \in [Requests -> InTransaction \cup {"idle", "reread", "aborted"}]
    /\ id \in [Requests -> Ids \cup {NoId}]
    /\ saved \in [Requests -> Groups]
    /\ todo \in [Requests -> SUBSET Sums] /\ writes \in [Requests -> SUBSET Row]
    /\ rows \subseteq Row /\ IsFiniteSet(rows)
    /\ \A t \in Requests : IsFiniteSet(writes[t])

(* An id that is being inserted is new, and nobody else's.                 *)
InsertsAreNew ==
    /\ \A e \in Ids : created[e] = IF e \in records THEN 1 ELSE 0
    /\ \A t \in Requests : pc[t] # "idle" => id[t] \in Ids
    /\ \A t \in Requests : pc[t] \in Inserted => id[t] \notin records
    /\ \A t, u \in Requests :
          pc[t] \in Inserted /\ pc[u] \in Inserted /\ id[t] = id[u] => t = u

(* A transaction sums and writes each group once, and of that group only.  *)
Members(g, S) == {e \in S : GroupOf(e) = g}

SumsOf(t) ==
    /\ pc[t] \notin Inserted \ {"aggregate"} => todo[t] = {} /\ writes[t] = {}
    /\ pc[t] \in {"budget", "commit"} => todo[t] = {}
    /\ \A s \in todo[t] : s.counted # {} /\ s.counted \subseteq Members(s.group, records \cup {id[t]})
    /\ \A w \in writes[t] : w.counted \subseteq Members(w.group, records \cup {id[t]})
    /\ \A s1, s2 \in todo[t] : s1.group = s2.group => s1 = s2
    /\ \A w1, w2 \in writes[t] : w1.group = w2.group => w1 = w2
    /\ \A s \in todo[t], w \in writes[t] : s.group # w.group

SumsAreItsOwn ==
    /\ \A r \in rows : r.counted \subseteq Members(r.group, records)
    /\ \A t \in Requests : SumsOf(t)

(* The constraint: one row for the project, written by one at a time.      *)
OneProjectRow ==
    /\ \A r, s \in rows : r.group = "project" /\ s.group = "project" => r = s
    /\ \A t, u \in Requests : \A w \in writes[t], v \in writes[u] :
          w.group = "project" /\ v.group = "project" => t = u
    /\ \A t \in Requests : \A w \in writes[t], r \in rows :
          w.group = "project" /\ r.group = "project" => w.by = r.by

(* Without a project a transaction inserts a row of its own.  Once there   *)
(* is one, whoever inserts a second finds two and rolls back, so only rows *)
(* of a single event are committed.                                        *)
NullRowExists == \E r \in rows : r.group = "null"

NullSumOf(t) == \A s \in todo[t] : s.group = "null" => s.counted = {id[t]} \/ NullRowExists

NullWriteOf(t) ==
    \A w \in writes[t] : w.group = "null" =>
        /\ w.by = id[t]
        /\ \/ w.counted = {id[t]}
           \/ pc[t] = "read back" /\ saved[t] = "null" /\ NullRowExists

NullIsCovered(t) ==
    pc[t] \in {"upsert", "read back", "budget", "commit"} /\ GroupOf(id[t]) = "null" =>
        (\E s \in todo[t] : s.group = "null") \/ (\E w \in writes[t] : w.group = "null")

NullRowsAreSingle ==
    /\ \A r \in rows : r.group = "null" => r.counted = {r.by} /\ r.by \in records
    /\ \A e \in records : GroupOf(e) = "null" => NullRowExists
    /\ \A t \in Requests : NullSumOf(t) /\ NullWriteOf(t) /\ NullIsCovered(t)

AnswersAreTrue ==
    /\ acked \subseteq records \cup unsaved
    /\ records \cup unsaved \subseteq published /\ unsaved \subseteq Attributed
    /\ \A t \in Requests : pc[t] \in {"budget", "commit", "aborted"} => id[t] \in published
    /\ \A t \in Requests : pc[t] \in {"budget", "aborted"} => id[t] \in Attributed

IngestInv == IngestTypes /\ InsertsAreNew /\ SumsAreItsOwn /\ OneProjectRow
             /\ NullRowsAreSingle /\ AnswersAreTrue
-----------------------------------------------------------------------------
(* Outside its transaction a request has neither sums nor writes.          *)
LEMMA NothingToSum ==
    ASSUME NEW t \in Requests, todo[t] = {}, writes[t] = {},
           pc[t] \notin {"upsert", "read back", "budget", "commit"}
    PROVE  SumsOf(t) /\ NullSumOf(t) /\ NullWriteOf(t) /\ NullIsCovered(t)
BY DEF SumsOf, NullSumOf, NullWriteOf, NullIsCovered

LEMMA InitIngestInv == IngestInit => IngestInv
<1> SUFFICES ASSUME IngestInit PROVE IngestInv
  OBVIOUS
<1>1. IngestTypes /\ InsertsAreNew
  BY FS_EmptySet DEF IngestInit, IngestTypes, InsertsAreNew, Groups, Inserted
<1>2. \A t \in Requests : todo[t] = {} /\ writes[t] = {} /\ pc[t] = "idle"
  BY DEF IngestInit
<1>3. SumsAreItsOwn /\ NullRowsAreSingle
  BY <1>2, NothingToSum DEF IngestInit, SumsAreItsOwn, NullRowsAreSingle
<1>4. OneProjectRow /\ AnswersAreTrue
  BY <1>2 DEF IngestInit, OneProjectRow, AnswersAreTrue
<1>5. QED
  BY <1>1, <1>3, <1>4 DEF IngestInv

(* A step of t that leaves the committed rows alone: what is to be shown.  *)
LEMMA OthersAreUntouched ==
    ASSUME IngestInv, NEW t \in Requests, UNCHANGED <<records, rows>>,
           \A u \in Requests \ {t} :
              /\ pc'[u] = pc[u] /\ id'[u] = id[u] /\ todo'[u] = todo[u]
              /\ saved'[u] = saved[u] /\ writes'[u] = writes[u],
           SumsOf(t)', NullSumOf(t)', NullWriteOf(t)', NullIsCovered(t)'
    PROVE  SumsAreItsOwn' /\ NullRowsAreSingle'
<1>1. ASSUME NEW u \in Requests \ {t} PROVE SumsOf(u)'
  <2>1. SumsOf(u)
    BY DEF IngestInv, SumsAreItsOwn
  <2>2. QED
    BY <2>1 DEF SumsOf, Members, GroupOf
<1>2. ASSUME NEW u \in Requests \ {t} PROVE (NullSumOf(u) /\ NullWriteOf(u) /\ NullIsCovered(u))'
  <2>1. NullSumOf(u) /\ NullWriteOf(u) /\ NullIsCovered(u)
    BY DEF IngestInv, NullRowsAreSingle
  <2>2. NullSumOf(u)' /\ NullWriteOf(u)'
    BY <2>1 DEF NullSumOf, NullWriteOf, NullRowExists
  <2>3. NullIsCovered(u)'
    BY <2>1 DEF NullIsCovered, GroupOf
  <2>4. QED
    BY <2>2, <2>3
<1>3. SumsAreItsOwn'
  BY <1>1 DEF IngestInv, SumsAreItsOwn, Members, GroupOf
<1>4. NullRowsAreSingle'
  BY <1>2 DEF IngestInv, NullRowsAreSingle, NullRowExists, GroupOf
<1>5. QED
  BY <1>3, <1>4

(* A request that is let in, or leaves a statement that wrote nothing.     *)
LEMMA MovesKeepIngestInv ==
    ASSUME IngestInv, NEW t \in Requests,
           \/ \E k \in ApiKeys, e \in Ids : Authenticate(t, k, e)
           \/ FindDuplicate(t) \/ NotSeen(t) \/ LoseRace(t) \/ AnswerRaced(t)
           \/ RefuseProject(t)
    PROVE  IngestInv'
<1>1. /\ UNCHANGED <<records, rows, todo, saved, writes, created, unsaved, published>>
      /\ pc[t] \notin Inserted
      /\ \E to \in {"idle", "check", "insert", "reread"} : pc' = [pc EXCEPT ![t] = to]
      /\ \/ UNCHANGED id
         \/ \E e \in Ids \cup {NoId} : id' = [id EXCEPT ![t] = e]
      /\ pc'[t] # "idle" => id'[t] \in Ids
      /\ acked' \subseteq acked \cup records
  BY DEF Authenticate, FindDuplicate, NotSeen, LoseRace, AnswerRaced, RefuseProject, AnswerOk, Goto, Leave,
         IngestInv, IngestTypes, InsertsAreNew, Inserted, InTransaction
<1>2. IngestTypes'
  BY <1>1 DEF IngestInv, IngestTypes, InTransaction, Inserted
<1>3. /\ pc'[t] \in {"idle", "check", "insert", "reread"}
      /\ \A u \in Requests \ {t} : pc'[u] = pc[u] /\ id'[u] = id[u]
  BY <1>1 DEF IngestInv, IngestTypes
<1>4. /\ todo[t] = {} /\ writes[t] = {} /\ pc'[t] \notin Inserted
      /\ pc'[t] \notin {"upsert", "read back", "budget", "commit"}
  BY <1>1, <1>3 DEF IngestInv, SumsAreItsOwn, SumsOf, Inserted
<1>5. InsertsAreNew'
  BY <1>1, <1>3, <1>4 DEF IngestInv, InsertsAreNew
<1>6. (SumsOf(t) /\ NullSumOf(t) /\ NullWriteOf(t) /\ NullIsCovered(t))'
  BY <1>1, <1>4, NothingToSum DEF SumsOf, NullSumOf, NullWriteOf, NullIsCovered
<1>7. SumsAreItsOwn' /\ NullRowsAreSingle'
  BY <1>1, <1>3, <1>6, OthersAreUntouched
<1>8. OneProjectRow'
  BY <1>1 DEF IngestInv, OneProjectRow
<1>9. AnswersAreTrue'
  BY <1>1, <1>3, <1>4 DEF IngestInv, AnswersAreTrue, Inserted
<1>10. QED
  BY <1>2, <1>5, <1>7, <1>8, <1>9 DEF IngestInv

(* Rolled back, a transaction leaves nothing.                              *)
LEMMA RollbackKeepsIngestInv ==
    ASSUME IngestInv, NEW t \in Requests, RollbackUsage(t)
    PROVE  IngestInv'
<1>1. /\ UNCHANGED <<records, rows, saved, created, acked, unsaved, published>>
      /\ pc' = [pc EXCEPT ![t] = "idle"] /\ id' = [id EXCEPT ![t] = NoId]
      /\ todo' = [todo EXCEPT ![t] = {}] /\ writes' = [writes EXCEPT ![t] = {}]
  BY DEF RollbackUsage, Leave, Goto
<1>2. IngestTypes'
  BY <1>1, FS_EmptySet DEF IngestInv, IngestTypes
<1>3. /\ pc'[t] = "idle" /\ todo'[t] = {} /\ writes'[t] = {}
      /\ \A u \in Requests \ {t} : /\ pc'[u] = pc[u] /\ todo'[u] = todo[u]
                                   /\ writes'[u] = writes[u] /\ id'[u] = id[u]
  BY <1>1 DEF IngestInv, IngestTypes
<1>4. InsertsAreNew' /\ AnswersAreTrue'
  <2>1. \A u \in Requests : pc'[u] # "idle" => u # t /\ pc[u] = pc'[u]
    BY <1>3
  <2>2. \A u \in Requests : pc'[u] \in Inserted => u # t /\ pc[u] = pc'[u]
    BY <1>3 DEF Inserted
  <2>3. InsertsAreNew'
    BY <1>1, <1>3, <2>1, <2>2 DEF IngestInv, InsertsAreNew
  <2>4. AnswersAreTrue'
    BY <1>1, <1>3 DEF IngestInv, AnswersAreTrue
  <2>5. QED
    BY <2>3, <2>4
<1>5. (SumsOf(t) /\ NullSumOf(t) /\ NullWriteOf(t) /\ NullIsCovered(t))'
  BY <1>3, NothingToSum DEF SumsOf, NullSumOf, NullWriteOf, NullIsCovered
<1>6. SumsAreItsOwn' /\ NullRowsAreSingle'
  BY <1>1, <1>3, <1>5, OthersAreUntouched
<1>7. OneProjectRow'
  BY <1>1, <1>3 DEF IngestInv, OneProjectRow
<1>8. QED
  BY <1>2, <1>4, <1>6, <1>7 DEF IngestInv

(* The unique constraint admits an id nobody else has inserted.            *)
LEMMA InsertKeepsIngestInv ==
    ASSUME IngestInv, NEW t \in Requests, Insert(t)
    PROVE  IngestInv'
<1>1. /\ UNCHANGED <<records, rows, id, todo, saved, writes, created, acked, unsaved, published>>
      /\ pc[t] = "insert" /\ pc' = [pc EXCEPT ![t] = "aggregate"]
      /\ id[t] \notin records /\ Inserting(id[t]) = {}
  BY DEF Insert, Goto
<1>2. IngestTypes'
  BY <1>1 DEF IngestInv, IngestTypes, InTransaction, Inserted
<1>3. /\ pc'[t] = "aggregate" /\ todo[t] = {} /\ writes[t] = {}
      /\ \A u \in Requests \ {t} : pc'[u] = pc[u]
  BY <1>1 DEF IngestInv, IngestTypes, SumsAreItsOwn, SumsOf, Inserted
<1>4. InsertsAreNew'
  <2>1. \A u \in Requests : pc[u] \in Inserted => id[u] # id[t]
    BY <1>1 DEF Inserting
  <2>2. QED
    BY <1>1, <1>3, <2>1 DEF IngestInv, InsertsAreNew
<1>5. (SumsOf(t) /\ NullSumOf(t) /\ NullWriteOf(t) /\ NullIsCovered(t))'
  BY <1>1, <1>3, NothingToSum DEF SumsOf, NullSumOf, NullWriteOf, NullIsCovered
<1>6. SumsAreItsOwn' /\ NullRowsAreSingle'
  BY <1>1, <1>3, <1>5, OthersAreUntouched
<1>7. OneProjectRow' /\ AnswersAreTrue'
  BY <1>1, <1>3 DEF IngestInv, OneProjectRow, AnswersAreTrue
<1>8. QED
  BY <1>2, <1>4, <1>6, <1>7 DEF IngestInv

(* One statement sums up what the transaction sees, by group.              *)
LEMMA AggregateKeepsIngestInv ==
    ASSUME IngestInv, NEW t \in Requests, Aggregate(t)
    PROVE  IngestInv'
<1> DEFINE Seen == records \cup {id[t]}
           Sum(g) == [group |-> g, counted |-> Members(g, Seen)]
<1>1. /\ UNCHANGED <<records, rows, id, saved, writes, created, acked, unsaved, published>>
      /\ pc[t] = "aggregate" /\ pc' = [pc EXCEPT ![t] = "upsert"]
      /\ todo' = [todo EXCEPT ![t] = {Sum(g) : g \in {GroupOf(e) : e \in Seen}}]
  BY DEF Aggregate, Goto, VisibleRecords, Inserted, Members
<1>2. /\ pc'[t] = "upsert" /\ writes[t] = {}
      /\ todo'[t] = {Sum(g) : g \in {GroupOf(e) : e \in Seen}}
      /\ \A u \in Requests \ {t} : pc'[u] = pc[u] /\ todo'[u] = todo[u]
  BY <1>1 DEF IngestInv, IngestTypes, SumsAreItsOwn, SumsOf
<1>3. Seen \subseteq Ids /\ id[t] \in Ids
  BY <1>1 DEF IngestInv, IngestTypes, InsertsAreNew
<1>4. \A s \in todo'[t] : s \in Sums /\ s.counted = Members(s.group, Seen) /\ s.counted # {}
  BY <1>2, <1>3 DEF Sums, Members, Groups, GroupOf
<1>5. IngestTypes'
  <2>1. todo' \in [Requests -> SUBSET Sums]
    BY <1>1, <1>2, <1>4 DEF IngestInv, IngestTypes
  <2>2. QED
    BY <1>1, <2>1 DEF IngestInv, IngestTypes, InTransaction, Inserted
<1>6. InsertsAreNew' /\ OneProjectRow' /\ AnswersAreTrue'
  <2>1. \A u \in Requests : pc'[u] \in Inserted <=> pc[u] \in Inserted
    BY <1>1, <1>2 DEF Inserted
  <2>2. InsertsAreNew'
    BY <1>1, <1>2, <2>1 DEF IngestInv, InsertsAreNew
  <2>3. OneProjectRow' /\ AnswersAreTrue'
    BY <1>1, <1>2 DEF IngestInv, OneProjectRow, AnswersAreTrue
  <2>4. QED
    BY <2>2, <2>3
<1>7. SumsOf(t)'
  <2>1. \A s1, s2 \in todo'[t] : s1.group = s2.group => s1 = s2
    BY <1>2
  <2>2. QED
    BY <1>1, <1>2, <1>4, <2>1 DEF SumsOf, Inserted, Members, GroupOf
<1>8. NullSumOf(t)'
  <2>1. CASE \E e \in records : GroupOf(e) = "null"
    BY <2>1, <1>1 DEF IngestInv, NullRowsAreSingle, NullRowExists, NullSumOf
  <2>2. CASE \A e \in records : GroupOf(e) # "null"
    <3>1. Members("null", Seen) \subseteq {id[t]}
      BY <2>2 DEF Members
    <3>2. \A s \in todo'[t] : s.group = "null" => s.counted = {id[t]}
      BY <1>4, <3>1, SMTT(30)
    <3>3. QED
      BY <1>1, <3>2 DEF NullSumOf
  <2>3. QED
    BY <2>1, <2>2
<1>9. NullWriteOf(t)' /\ NullIsCovered(t)'
  <2>1. Sum(GroupOf(id[t])) \in todo'[t] /\ Sum(GroupOf(id[t])).group = GroupOf(id[t])
    BY <1>2
  <2>2. (GroupOf(id[t]))' = GroupOf(id[t])
    BY <1>1 DEF GroupOf
  <2>3. NullIsCovered(t)'
    BY <2>1, <2>2 DEF NullIsCovered
  <2>4. QED
    BY <1>1, <1>2, <2>3 DEF NullWriteOf
<1>10. SumsAreItsOwn' /\ NullRowsAreSingle'
  BY <1>1, <1>2, <1>7, <1>8, <1>9, OthersAreUntouched
<1>11. QED
  BY <1>5, <1>6, <1>10 DEF IngestInv

(* What the upsert writes: the project's row if there is one, otherwise a  *)
(* row of its own.                                                         *)
LEMMA WrittenRow ==
    ASSUME IngestInv, NEW t \in Requests, NEW sum \in todo[t], id[t] \in Ids
    PROVE  /\ Written(t, sum) \in Row
           /\ Written(t, sum).group = sum.group
           /\ Written(t, sum).counted = sum.counted
           /\ sum.group = "null" => Written(t, sum).by = id[t]
           /\ \A r \in rows : sum.group = "project" /\ r.group = "project" => Written(t, sum).by = r.by
<1>1. sum \in Sums /\ rows \subseteq Row
  BY DEF IngestInv, IngestTypes
<1>2. CASE Conflicts(sum.group) = {}
  <2>1. Written(t, sum) = [group |-> sum.group, by |-> id[t], counted |-> sum.counted]
    BY <1>2 DEF Written
  <2>2. \A r \in rows : sum.group = "project" => r.group # "project"
    BY <1>2 DEF Conflicts
  <2>3. QED
    BY <1>1, <2>1, <2>2 DEF Row, Sums
<1>3. CASE Conflicts(sum.group) # {}
  <2> DEFINE r == CHOOSE r \in Conflicts(sum.group) : TRUE
  <2>1. r \in rows /\ r.group = sum.group /\ sum.group # "null"
    BY <1>3 DEF Conflicts
  <2>2. Written(t, sum) = [r EXCEPT !.counted = sum.counted]
    BY <1>3 DEF Written
  <2>3. \A q \in rows : q.group = "project" => q = r
    BY <1>1, <2>1 DEF IngestInv, OneProjectRow, Sums, Groups
  <2>4. QED
    <3> HIDE DEF r
    <3> QED
      BY <1>1, <2>1, <2>2, <2>3 DEF Row, Sums
<1>4. QED
  BY <1>2, <1>3

LEMMA UpsertKeepsIngestInv ==
    ASSUME IngestInv, NEW t \in Requests, NEW sum \in todo[t], Upsert(t, sum)
    PROVE  IngestInv'
<1> DEFINE w == Written(t, sum)
<1>1. /\ UNCHANGED <<records, rows, id, created, acked, unsaved, published>>
      /\ pc[t] = "upsert" /\ pc' = [pc EXCEPT ![t] = "read back"]
      /\ writes' = [writes EXCEPT ![t] = @ \cup {w}]
      /\ todo' = [todo EXCEPT ![t] = @ \ {sum}]
      /\ saved' = [saved EXCEPT ![t] = sum.group]
      /\ ~RowIsLocked(t, sum.group)
  BY DEF Upsert, Goto
<1>2. /\ w \in Row /\ w.group = sum.group /\ w.counted = sum.counted
      /\ sum.group = "null" => w.by = id[t]
      /\ \A r \in rows : sum.group = "project" /\ r.group = "project" => w.by = r.by
  <2>1. id[t] \in Ids
    BY <1>1 DEF IngestInv, InsertsAreNew
  <2>2. QED
    BY <2>1, WrittenRow
<1> HIDE DEF w
<1>3. /\ pc'[t] = "read back" /\ saved'[t] = sum.group
      /\ writes'[t] = writes[t] \cup {w} /\ todo'[t] = todo[t] \ {sum}
      /\ \A u \in Requests \ {t} :
            /\ pc'[u] = pc[u] /\ todo'[u] = todo[u]
            /\ saved'[u] = saved[u] /\ writes'[u] = writes[u]
  BY <1>1 DEF IngestInv, IngestTypes
<1>4. sum \in Sums
  BY DEF IngestInv, IngestTypes
<1>5. IngestTypes'
  <2>1. todo' \in [Requests -> SUBSET Sums] /\ writes' \in [Requests -> SUBSET Row]
    BY <1>1, <1>2 DEF IngestInv, IngestTypes
  <2>2. \A u \in Requests : IsFiniteSet(writes'[u])
    <3>1. IsFiniteSet(writes[t] \cup {w})
      BY FS_AddElement DEF IngestInv, IngestTypes
    <3>2. QED
      BY <1>3, <3>1 DEF IngestInv, IngestTypes
  <2>3. pc' \in [Requests -> InTransaction \cup {"idle", "reread", "aborted"}] /\ saved' \in [Requests -> Groups]
    BY <1>1, <1>4 DEF IngestInv, IngestTypes, InTransaction, Inserted, Sums
  <2>4. QED
    BY <1>1, <2>1, <2>2, <2>3 DEF IngestInv, IngestTypes
<1>6. InsertsAreNew' /\ AnswersAreTrue'
  <2>1. \A u \in Requests : pc'[u] \in Inserted <=> pc[u] \in Inserted
    BY <1>1, <1>3 DEF Inserted
  <2>2. InsertsAreNew'
    BY <1>1, <1>3, <2>1 DEF IngestInv, InsertsAreNew
  <2>3. AnswersAreTrue'
    BY <1>1, <1>3 DEF IngestInv, AnswersAreTrue
  <2>4. QED
    BY <2>2, <2>3
<1>7. SumsOf(t) /\ NullSumOf(t) /\ NullWriteOf(t) /\ NullIsCovered(t)
  BY DEF IngestInv, SumsAreItsOwn, NullRowsAreSingle
<1>8. SumsOf(t)'
  <2>1. /\ \A v1, v2 \in writes'[t] : v1.group = v2.group => v1 = v2
        /\ \A s \in todo'[t], v \in writes'[t] : s.group # v.group
    <3>1. \A v \in writes[t] : v.group # w.group
      BY <1>2, <1>7 DEF SumsOf
    <3>2. \A s \in todo'[t] : s.group # w.group
      BY <1>2, <1>3, <1>7 DEF SumsOf
    <3>3. QED
      BY <1>3, <1>7, <3>1, <3>2, ZenonT(60) DEF SumsOf
  <2>2. \A v \in writes'[t] : v.counted \subseteq Members(v.group, records \cup {id[t]})
    BY <1>2, <1>3, <1>7 DEF SumsOf
  <2>3. QED
    BY <1>1, <1>3, <1>7, <2>1, <2>2 DEF SumsOf, Members, GroupOf, Inserted
<1>9. NullSumOf(t)'
  BY <1>1, <1>3, <1>7 DEF NullSumOf, NullRowExists
<1>10. NullWriteOf(t)'
  BY <1>1, <1>2, <1>3, <1>7 DEF NullWriteOf, NullSumOf, NullRowExists
<1>11. NullIsCovered(t)'
  BY <1>1, <1>2, <1>3, <1>7 DEF NullIsCovered, GroupOf
<1>12. SumsAreItsOwn' /\ NullRowsAreSingle'
  BY <1>1, <1>3, <1>8, <1>9, <1>10, <1>11, OthersAreUntouched
<1>13. OneProjectRow'
  <2>1. \A u \in Requests : \A v \in writes[u] : sum.group = "project" /\ v.group = "project" => u = t
    BY <1>1 DEF RowIsLocked
  <2>2. \A u \in Requests : \A v \in writes'[u] : v \in writes[u] \/ (u = t /\ v = w)
    <3>1. ASSUME NEW u \in Requests, NEW v \in writes'[u] PROVE v \in writes[u] \/ (u = t /\ v = w)
      BY <1>3
    <3>2. QED
      BY <3>1
  <2>3. \A t1, u \in Requests : \A v1 \in writes'[t1], v2 \in writes'[u] :
           v1.group = "project" /\ v2.group = "project" => t1 = u
    BY <1>2, <2>1, <2>2 DEF IngestInv, OneProjectRow
  <2>4. \A u \in Requests : \A v \in writes'[u], r \in rows :
           v.group = "project" /\ r.group = "project" => v.by = r.by
    BY <1>2, <2>2 DEF IngestInv, OneProjectRow
  <2>5. QED
    BY <1>1, <2>3, <2>4, ZenonT(60) DEF IngestInv, OneProjectRow
<1>14. QED
  BY <1>5, <1>6, <1>12, <1>13 DEF IngestInv

(* A second row without a project is noticed: a transaction whose own row  *)
(* counts more than its own event sees two of them, and does not go on.    *)
LEMMA ReadBackSeesOne ==
    ASSUME IngestInv, NEW t \in Requests, ReadBack(t), NEW w \in writes[t], w.group = "null"
    PROVE  w.by = id[t] /\ w.counted = {id[t]}
<1>1. /\ w.by = id[t]
      /\ w.counted = {id[t]} \/ (saved[t] = "null" /\ NullRowExists)
  <2>1. NullWriteOf(t)
    BY DEF IngestInv, NullRowsAreSingle
  <2>2. QED
    BY <2>1 DEF NullWriteOf
<1>2. SUFFICES ASSUME saved[t] = "null", NEW r \in rows, r.group = "null" PROVE FALSE
  BY <1>1 DEF NullRowExists
<1>3. r.by \in records /\ id[t] \notin records
  BY <1>2 DEF IngestInv, NullRowsAreSingle, InsertsAreNew, ReadBack, Inserted
<1>4. \A v \in writes[t] : ~Replaces(v, r)
  BY <1>1, <1>2, <1>3 DEF IngestInv, NullRowsAreSingle, NullWriteOf, Replaces
<1>5. r # w /\ {r, w} \in SUBSET VisibleRows(t, "null")
  BY <1>1, <1>2, <1>3, <1>4 DEF VisibleRows, After
<1>6. IsFiniteSet(VisibleRows(t, "null")) /\ Cardinality(VisibleRows(t, "null")) \in Nat
  <2>1. IsFiniteSet(rows \cup writes[t])
    BY FS_Union DEF IngestInv, IngestTypes
  <2>2. VisibleRows(t, "null") \in SUBSET (rows \cup writes[t])
    BY DEF VisibleRows, After
  <2>3. QED
    BY <2>1, <2>2, FS_Subset, FS_CardinalityType
<1>7. Cardinality({r, w}) = 2
  <2>1. IsFiniteSet({r}) /\ Cardinality({r}) = 1
    BY FS_Singleton
  <2>2. Cardinality({r} \cup {w}) = 2
    BY <1>5, <2>1, FS_AddElement, SMTT(30)
  <2>3. {r, w} = {r} \cup {w}
    OBVIOUS
  <2>4. QED
    BY <2>2, <2>3
<1>8. 2 <= Cardinality(VisibleRows(t, "null"))
  BY <1>5, <1>6, <1>7, FS_Subset
<1>9. Cardinality(VisibleRows(t, "null")) <= 1
  BY <1>2 DEF ReadBack
<1>10. QED
  BY <1>6, <1>8, <1>9

LEMMA ReadBackKeepsIngestInv ==
    ASSUME IngestInv, NEW t \in Requests, ReadBack(t)
    PROVE  IngestInv'
<1>1. /\ UNCHANGED <<records, rows, id, todo, saved, writes, created, acked, unsaved, published>>
      /\ pc[t] = "read back" /\ pc' = [pc EXCEPT ![t] = "upsert"]
  BY DEF ReadBack, Goto
<1>2. IngestTypes'
  BY <1>1 DEF IngestInv, IngestTypes, InTransaction, Inserted
<1>3. pc'[t] = "upsert" /\ \A u \in Requests \ {t} : pc'[u] = pc[u]
  BY <1>1 DEF IngestInv, IngestTypes
<1>4. InsertsAreNew'
  <2>1. \A u \in Requests : pc'[u] \in Inserted <=> pc[u] \in Inserted
    BY <1>1, <1>3 DEF Inserted
  <2>2. QED
    BY <1>1, <1>3, <2>1 DEF IngestInv, InsertsAreNew
<1>5. SumsOf(t) /\ NullSumOf(t) /\ NullIsCovered(t)
  BY DEF IngestInv, SumsAreItsOwn, NullRowsAreSingle
<1>6. SumsOf(t)'
  BY <1>1, <1>3, <1>5 DEF SumsOf, Members, GroupOf, Inserted
<1>7. NullWriteOf(t)'
  BY <1>1, ReadBackSeesOne DEF NullWriteOf
<1>8. NullSumOf(t)' /\ NullIsCovered(t)'
  BY <1>1, <1>5 DEF NullSumOf, NullIsCovered, NullRowExists, GroupOf
<1>9. SumsAreItsOwn' /\ NullRowsAreSingle'
  BY <1>1, <1>3, <1>6, <1>7, <1>8, OthersAreUntouched
<1>10. OneProjectRow' /\ AnswersAreTrue'
  BY <1>1, <1>3 DEF IngestInv, OneProjectRow, AnswersAreTrue
<1>11. QED
  BY <1>2, <1>4, <1>9, <1>10 DEF IngestInv

LEMMA PublishKeepsIngestInv ==
    ASSUME IngestInv, NEW t \in Requests, Publish(t)
    PROVE  IngestInv'
<1>1. /\ UNCHANGED <<records, rows, id, todo, saved, writes, created, acked, unsaved>>
      /\ pc[t] = "upsert" /\ todo[t] = {}
      /\ pc' = [pc EXCEPT ![t] = IF id[t] \in Attributed THEN "budget" ELSE "commit"]
      /\ published' = published \cup {id[t]}
  BY DEF Publish, Goto
<1>2. IngestTypes'
  BY <1>1 DEF IngestInv, IngestTypes, InTransaction, Inserted
<1>3. /\ pc'[t] \in {"budget", "commit"}
      /\ pc'[t] = "budget" => id[t] \in Attributed
      /\ \A u \in Requests \ {t} : pc'[u] = pc[u]
  BY <1>1 DEF IngestInv, IngestTypes
<1>4. InsertsAreNew'
  <2>1. \A u \in Requests : pc'[u] \in Inserted <=> pc[u] \in Inserted
    BY <1>1, <1>3 DEF Inserted
  <2>2. QED
    BY <1>1, <1>3, <2>1 DEF IngestInv, InsertsAreNew
<1>5. SumsOf(t) /\ NullSumOf(t) /\ NullWriteOf(t) /\ NullIsCovered(t)
  BY DEF IngestInv, SumsAreItsOwn, NullRowsAreSingle
<1>6. SumsOf(t)'
  BY <1>1, <1>3, <1>5 DEF SumsOf, Members, GroupOf, Inserted
<1>7. NullWriteOf(t)'
  BY <1>1, <1>5 DEF NullWriteOf
<1>8. NullSumOf(t)' /\ NullIsCovered(t)'
  BY <1>1, <1>5 DEF NullSumOf, NullIsCovered, NullRowExists, GroupOf
<1>9. SumsAreItsOwn' /\ NullRowsAreSingle'
  BY <1>1, <1>3, <1>6, <1>7, <1>8, OthersAreUntouched
<1>10. OneProjectRow' /\ AnswersAreTrue'
  BY <1>1, <1>3 DEF IngestInv, OneProjectRow, AnswersAreTrue
<1>11. QED
  BY <1>2, <1>4, <1>9, <1>10 DEF IngestInv

LEMMA CheckKeepsIngestInv ==
    ASSUME IngestInv, NEW t \in Requests, CheckBudget(t)
    PROVE  IngestInv'
<1>1. /\ UNCHANGED <<records, rows, id, todo, saved, writes, created, acked, unsaved, published>>
      /\ pc[t] = "budget" /\ pc' = [pc EXCEPT ![t] = "commit"]
  BY DEF CheckBudget, Goto
<1>2. IngestTypes'
  BY <1>1 DEF IngestInv, IngestTypes, InTransaction, Inserted
<1>3. pc'[t] = "commit" /\ \A u \in Requests \ {t} : pc'[u] = pc[u]
  BY <1>1 DEF IngestInv, IngestTypes
<1>4. InsertsAreNew'
  <2>1. \A u \in Requests : pc'[u] \in Inserted <=> pc[u] \in Inserted
    BY <1>1, <1>3 DEF Inserted
  <2>2. QED
    BY <1>1, <1>3, <2>1 DEF IngestInv, InsertsAreNew
<1>5. SumsOf(t) /\ NullSumOf(t) /\ NullWriteOf(t) /\ NullIsCovered(t)
  BY DEF IngestInv, SumsAreItsOwn, NullRowsAreSingle
<1>6. SumsOf(t)'
  BY <1>1, <1>3, <1>5 DEF SumsOf, Members, GroupOf, Inserted
<1>7. NullWriteOf(t)'
  BY <1>1, <1>5 DEF NullWriteOf
<1>8. NullSumOf(t)' /\ NullIsCovered(t)'
  BY <1>1, <1>5 DEF NullSumOf, NullIsCovered, NullRowExists, GroupOf
<1>9. SumsAreItsOwn' /\ NullRowsAreSingle'
  BY <1>1, <1>3, <1>6, <1>7, <1>8, OthersAreUntouched
<1>10. OneProjectRow' /\ AnswersAreTrue'
  BY <1>1, <1>3 DEF IngestInv, OneProjectRow, AnswersAreTrue
<1>11. QED
  BY <1>2, <1>4, <1>9, <1>10 DEF IngestInv

(* A transaction its budget check has ended leaves nothing but its 200.    *)
LEMMA AbortKeepsIngestInv ==
    ASSUME IngestInv, NEW t \in Requests, BudgetCheckFails(t) \/ AnswerUnsaved(t)
    PROVE  IngestInv'
<1>1. /\ UNCHANGED <<records, rows, todo, saved, created, published>>
      /\ pc[t] \in {"budget", "aborted"} /\ pc'[t] \in {"aborted", "idle"}
      /\ pc' = [pc EXCEPT ![t] = pc'[t]] /\ writes' = [writes EXCEPT ![t] = writes'[t]]
      /\ id' = [id EXCEPT ![t] = id'[t]] /\ id'[t] \in {id[t], NoId}
      /\ pc'[t] = "aborted" => id' = id
      /\ \/ UNCHANGED <<acked, unsaved>>
         \/ acked' = acked \cup {id[t]} /\ unsaved' = unsaved \cup {id[t]}
  BY DEF BudgetCheckFails, AnswerUnsaved, AnswerOk, Leave, Goto, IngestInv, IngestTypes
<1>2. writes'[t] = {} /\ todo'[t] = {}
  BY DEF BudgetCheckFails, AnswerUnsaved, IngestInv, IngestTypes, SumsAreItsOwn, SumsOf, Inserted
<1>3. \A u \in Requests \ {t} : /\ pc'[u] = pc[u] /\ todo'[u] = todo[u] /\ saved'[u] = saved[u]
                                /\ writes'[u] = writes[u] /\ id'[u] = id[u]
  BY <1>1 DEF IngestInv, IngestTypes
<1>4. id[t] \in Ids /\ id[t] \in Attributed /\ id[t] \in published
  BY <1>1 DEF IngestInv, InsertsAreNew, AnswersAreTrue
<1>5. IngestTypes'
  <2>1. /\ pc' \in [Requests -> InTransaction \cup {"idle", "reread", "aborted"}]
        /\ id' \in [Requests -> Ids \cup {NoId}] /\ writes' \in [Requests -> SUBSET Row]
    BY <1>1, <1>2 DEF IngestInv, IngestTypes
  <2>2. \A u \in Requests : IsFiniteSet(writes'[u])
    BY <1>2, <1>3, FS_EmptySet DEF IngestInv, IngestTypes
  <2>3. QED
    BY <1>1, <2>1, <2>2 DEF IngestInv, IngestTypes
<1>6. InsertsAreNew' /\ AnswersAreTrue'
  <2>1. \A u \in Requests : pc'[u] # "idle" => pc[u] # "idle" /\ id'[u] = id[u]
    BY <1>1, <1>3
  <2>2. \A u \in Requests : pc'[u] \in Inserted => u # t /\ pc[u] = pc'[u]
    BY <1>1, <1>3 DEF Inserted
  <2>3. InsertsAreNew'
    BY <1>1, <1>3, <2>1, <2>2 DEF IngestInv, InsertsAreNew
  <2>4. AnswersAreTrue'
    BY <1>1, <1>3, <1>4 DEF IngestInv, AnswersAreTrue
  <2>5. QED
    BY <2>3, <2>4
<1>7. (SumsOf(t) /\ NullSumOf(t) /\ NullWriteOf(t) /\ NullIsCovered(t))'
  BY <1>1, <1>2, NothingToSum DEF SumsOf, NullSumOf, NullWriteOf, NullIsCovered
<1>8. SumsAreItsOwn' /\ NullRowsAreSingle'
  BY <1>1, <1>3, <1>7, OthersAreUntouched
<1>9. OneProjectRow'
  BY <1>1, <1>2, <1>3 DEF IngestInv, OneProjectRow
<1>10. QED
  BY <1>5, <1>6, <1>8, <1>9 DEF IngestInv

(* What a commit leaves in the table: its own rows, and those it did not   *)
(* replace.                                                                *)
LEMMA CommittedRows ==
    ASSUME IngestInv, NEW t \in Requests, pc[t] = "commit", CommitUsage(t)
    PROVE  /\ records' = records \cup {id[t]} /\ id[t] \in Ids /\ id[t] \notin records
           /\ rows' \subseteq rows \cup writes[t] /\ writes[t] \subseteq rows'
           /\ \A r \in rows : r \in rows' \/ \E w \in writes[t] : w.group = r.group
           /\ \A r \in rows', w \in writes[t] : r.group = "project" /\ w.group = "project" => r = w
           /\ todo[t] = {}
           /\ unsaved' = unsaved \ {id[t]} /\ UNCHANGED <<todo, saved, published>>
           /\ pc'[t] = "idle" /\ writes'[t] = {}
           /\ \A u \in Requests \ {t} : pc'[u] = pc[u] /\ writes'[u] = writes[u] /\ id'[u] = id[u]
<1>1. /\ records' = records \cup {id[t]} /\ unsaved' = unsaved \ {id[t]} /\ UNCHANGED <<todo, saved, published>>
      /\ rows' = After(rows, writes[t]) /\ id' = [id EXCEPT ![t] = NoId]
      /\ pc' = [pc EXCEPT ![t] = "idle"] /\ writes' = [writes EXCEPT ![t] = {}]
  BY DEF CommitUsage, AnswerOk, Leave, Goto
<1>2. id[t] \in Ids /\ id[t] \notin records /\ todo[t] = {}
  BY DEF IngestInv, InsertsAreNew, SumsAreItsOwn, SumsOf, Inserted
<1>3. /\ rows' \subseteq rows \cup writes[t] /\ writes[t] \subseteq rows'
      /\ \A r \in rows : r \in rows' \/ \E w \in writes[t] : w.group = r.group
  BY <1>1 DEF After, Replaces
<1>4. ASSUME NEW r \in rows', NEW w \in writes[t], r.group = "project", w.group = "project"
      PROVE  r = w
  <2>1. CASE r \in writes[t]
    BY <2>1, <1>4 DEF IngestInv, SumsAreItsOwn, SumsOf
  <2>2. CASE r \notin writes[t]
    <3>1. r \in rows /\ ~Replaces(w, r)
      BY <2>2, <1>1 DEF After
    <3>2. w.by = r.by
      BY <3>1, <1>4 DEF IngestInv, OneProjectRow
    <3>3. QED
      BY <3>1, <3>2, <1>4 DEF Replaces
  <2>3. QED
    BY <2>1, <2>2
<1>5. QED
  BY <1>1, <1>2, <1>3, <1>4 DEF IngestInv, IngestTypes

LEMMA CommitKeepsIngestInv ==
    ASSUME IngestInv, NEW t \in Requests, CommitUsage(t)
    PROVE  IngestInv'
<1>1. /\ pc[t] = "commit" /\ created' = [created EXCEPT ![id[t]] = @ + 1]
      /\ acked' = acked \cup {id[t]} /\ id' = [id EXCEPT ![t] = NoId]
      /\ pc' = [pc EXCEPT ![t] = "idle"] /\ writes' = [writes EXCEPT ![t] = {}]
  BY DEF CommitUsage, AnswerOk, Leave, Goto
<1>2. /\ records' = records \cup {id[t]} /\ id[t] \in Ids /\ id[t] \notin records
      /\ rows' \subseteq rows \cup writes[t] /\ writes[t] \subseteq rows'
      /\ \A r \in rows : r \in rows' \/ \E w \in writes[t] : w.group = r.group
      /\ \A r \in rows', w \in writes[t] : r.group = "project" /\ w.group = "project" => r = w
      /\ todo[t] = {}
      /\ unsaved' = unsaved \ {id[t]} /\ UNCHANGED <<todo, saved, published>>
      /\ pc'[t] = "idle" /\ writes'[t] = {}
      /\ \A u \in Requests \ {t} : pc'[u] = pc[u] /\ writes'[u] = writes[u] /\ id'[u] = id[u]
  BY <1>1, CommittedRows
<1>3. SumsOf(t) /\ NullSumOf(t) /\ NullWriteOf(t) /\ NullIsCovered(t)
  BY DEF IngestInv, SumsAreItsOwn, NullRowsAreSingle
<1>4. IngestTypes'
  <2>1. IsFiniteSet(rows')
    <3>1. IsFiniteSet(rows \cup writes[t])
      BY FS_Union DEF IngestInv, IngestTypes
    <3>2. QED
      BY <3>1, <1>2, FS_Subset
  <2>2. rows' \subseteq Row
    BY <1>2 DEF IngestInv, IngestTypes
  <2>3. \A u \in Requests : IsFiniteSet(writes'[u])
    BY <1>2, FS_EmptySet DEF IngestInv, IngestTypes
  <2>4. /\ pc' \in [Requests -> InTransaction \cup {"idle", "reread", "aborted"}]
        /\ writes' \in [Requests -> SUBSET Row] /\ id' \in [Requests -> Ids \cup {NoId}]
    BY <1>1 DEF IngestInv, IngestTypes
  <2>5. created' \in [Ids -> Nat]
    BY <1>1, <1>2 DEF IngestInv, IngestTypes
  <2>6. QED
    BY <1>2, <2>1, <2>2, <2>3, <2>4, <2>5 DEF IngestInv, IngestTypes
<1>5. InsertsAreNew'
  <2>1. \A e \in Ids : created'[e] = IF e \in records' THEN 1 ELSE 0
    BY <1>1, <1>2 DEF IngestInv, IngestTypes, InsertsAreNew
  <2>2. \A u \in Requests : pc'[u] \in Inserted => id'[u] \notin records'
    <3>1. \A u \in Requests : pc'[u] \in Inserted => u # t /\ pc[u] \in Inserted
      BY <1>2 DEF Inserted
    <3>2. pc[t] \in Inserted
      BY <1>1 DEF Inserted
    <3>3. QED
      BY <1>2, <3>1, <3>2 DEF IngestInv, InsertsAreNew
  <2>3. \A u \in Requests : pc'[u] \in Inserted => pc[u] \in Inserted /\ id'[u] = id[u]
    BY <1>2 DEF Inserted
  <2>4. \A u \in Requests : pc'[u] # "idle" => pc[u] # "idle" /\ id'[u] = id[u]
    BY <1>1, <1>2
  <2>5. QED
    BY <1>2, <2>1, <2>2, <2>3, <2>4 DEF IngestInv, InsertsAreNew
<1>6. SumsAreItsOwn'
  <2>1. \A r \in rows' : r.counted \subseteq Members(r.group, records')
    <3>1. \A r \in rows : r.counted \subseteq Members(r.group, records')
      BY <1>2 DEF IngestInv, SumsAreItsOwn, Members
    <3>2. \A w \in writes[t] : w.counted \subseteq Members(w.group, records')
      BY <1>2, <1>3 DEF SumsOf
    <3>3. QED
      BY <1>2, <3>1, <3>2
  <2>2. SumsOf(t)'
    BY <1>2 DEF SumsOf
  <2>3. ASSUME NEW u \in Requests \ {t} PROVE SumsOf(u)'
    <3>1. SumsOf(u)
      BY DEF IngestInv, SumsAreItsOwn
    <3>2. \A g : Members(g, records \cup {id[u]}) \subseteq Members(g, records' \cup {id'[u]})
      BY <1>2 DEF Members
    <3>3. QED
      BY <1>2, <3>1, <3>2 DEF SumsOf
  <2>4. QED
    BY <2>1, <2>2, <2>3 DEF SumsAreItsOwn, Members, GroupOf
<1>7. OneProjectRow'
  <2>1. ASSUME NEW r \in rows', NEW s \in rows', r.group = "project", s.group = "project"
        PROVE  r = s
    BY <1>2, <2>1 DEF IngestInv, OneProjectRow
  <2>2. \A u \in Requests : \A v \in writes'[u] : v \in writes[u] /\ u # t
    BY <1>2
  <2>3. ASSUME NEW u \in Requests, NEW v \in writes'[u], NEW r \in rows',
               v.group = "project", r.group = "project"
        PROVE  v.by = r.by
    BY <1>2, <2>2, <2>3 DEF IngestInv, OneProjectRow
  <2>4. QED
    BY <2>1, <2>2, <2>3 DEF IngestInv, OneProjectRow
<1>8. NullRowsAreSingle'
  <2>1. \A r \in rows' : r.group = "null" => r.counted = {r.by} /\ r.by \in records'
    <3>1. \A w \in writes[t] : w.group = "null" => w.counted = {w.by} /\ w.by \in records'
      BY <1>1, <1>2, <1>3 DEF NullWriteOf
    <3>2. QED
      BY <1>2, <3>1 DEF IngestInv, NullRowsAreSingle
  <2>2. NullRowExists => NullRowExists'
    BY <1>2 DEF NullRowExists
  <2>3. GroupOf(id[t]) = "null" => NullRowExists'
    BY <1>1, <1>2, <1>3 DEF NullIsCovered, NullRowExists
  <2>4. \A e \in records' : GroupOf(e) = "null" => NullRowExists'
    BY <1>2, <2>2, <2>3 DEF IngestInv, NullRowsAreSingle
  <2>5. (NullSumOf(t) /\ NullWriteOf(t) /\ NullIsCovered(t))'
    BY <1>2 DEF NullSumOf, NullWriteOf, NullIsCovered
  <2>6. ASSUME NEW u \in Requests \ {t} PROVE (NullSumOf(u) /\ NullWriteOf(u) /\ NullIsCovered(u))'
    <3>1. NullSumOf(u) /\ NullWriteOf(u) /\ NullIsCovered(u)
      BY DEF IngestInv, NullRowsAreSingle
    <3>2. NullSumOf(u)' /\ NullWriteOf(u)'
      BY <1>2, <2>2, <3>1 DEF NullSumOf, NullWriteOf
    <3>3. NullIsCovered(u)'
      BY <1>2, <3>1 DEF NullIsCovered, GroupOf
    <3>4. QED
      BY <3>2, <3>3
  <2>7. QED
    BY <2>1, <2>4, <2>5, <2>6 DEF NullRowsAreSingle, GroupOf
<1>9. AnswersAreTrue'
  BY <1>1, <1>2 DEF IngestInv, AnswersAreTrue
<1>10. QED
  BY <1>4, <1>5, <1>6, <1>7, <1>8, <1>9 DEF IngestInv
-----------------------------------------------------------------------------
LEMMA IngestInvStep == IngestInv /\ [IngestNext]_ingestVars => IngestInv'
<1> SUFFICES ASSUME IngestInv, [IngestNext]_ingestVars PROVE IngestInv'
  OBVIOUS
<1>1. CASE UNCHANGED ingestVars
  <2>1. IngestTypes' /\ InsertsAreNew' /\ OneProjectRow' /\ AnswersAreTrue'
    BY <1>1 DEF ingestVars, txnVars, IngestInv, IngestTypes, InsertsAreNew, OneProjectRow,
                AnswersAreTrue
  <2>2. SumsAreItsOwn'
    BY <1>1 DEF ingestVars, txnVars, IngestInv, SumsAreItsOwn, SumsOf, Members, GroupOf
  <2>3. NullRowsAreSingle'
    BY <1>1 DEF ingestVars, txnVars, IngestInv, NullRowsAreSingle, NullSumOf, NullWriteOf,
                NullIsCovered, NullRowExists, GroupOf
  <2>4. QED
    BY <2>1, <2>2, <2>3 DEF IngestInv
<1>2. ASSUME NEW t \in Requests, NEW k \in ApiKeys, NEW e \in Ids, Authenticate(t, k, e)
      PROVE  IngestInv'
  BY <1>2, MovesKeepIngestInv
<1>3. ASSUME NEW t \in Requests, IngestStep(t) PROVE IngestInv'
  <2>1. CASE FindDuplicate(t) \/ NotSeen(t) \/ LoseRace(t) \/ AnswerRaced(t) \/ RefuseProject(t)
    BY <2>1, MovesKeepIngestInv
  <2>2. CASE Insert(t)
    BY <2>2, InsertKeepsIngestInv
  <2>3. CASE Aggregate(t)
    BY <2>3, AggregateKeepsIngestInv
  <2>4. CASE \E sum \in todo[t] : Upsert(t, sum)
    BY <2>4, UpsertKeepsIngestInv
  <2>5. CASE ReadBack(t)
    BY <2>5, ReadBackKeepsIngestInv
  <2>6. CASE RereadFails(t) \/ FindTwoRows(t)
    BY <2>6, RollbackKeepsIngestInv DEF RereadFails, FindTwoRows
  <2>7. CASE Publish(t)
    BY <2>7, PublishKeepsIngestInv
  <2>8. CASE CheckBudget(t) \/ AnswerUnsaved(t)
    BY <2>8, CheckKeepsIngestInv, AbortKeepsIngestInv
  <2>9. CASE CommitUsage(t)
    BY <2>9, CommitKeepsIngestInv
  <2>10. QED
    BY <1>3, <2>1, <2>2, <2>3, <2>4, <2>5, <2>6, <2>7, <2>8, <2>9 DEF IngestStep
<1>4. ASSUME NEW t \in Requests, BudgetCheckFails(t) \/ Fail(t) PROVE IngestInv'
  BY <1>4, RollbackKeepsIngestInv, AbortKeepsIngestInv DEF Fail
<1>5. QED
  BY <1>1, <1>2, <1>3, <1>4 DEF IngestNext

LEMMA IngestInvHolds == IngestSpec => []IngestInv
BY InitIngestInv, IngestInvStep, PTL DEF IngestSpec

(* Rows of different groups count different events; of the rows without a  *)
(* project each counts the event it is named after.                        *)
LEMMA CountedOnceFromInv == IngestInv => CountedOnce
<1> SUFFICES ASSUME IngestInv PROVE CountedOnce
  OBVIOUS
<1>1. \A e \in Ids : created[e] <= 1
  BY DEF IngestInv, IngestTypes, InsertsAreNew
<1>2. \A r \in rows : r.counted \subseteq records
  BY DEF IngestInv, SumsAreItsOwn, Members
<1>3. ASSUME NEW r \in rows, NEW s \in rows, NEW e \in r.counted \cap s.counted PROVE r = s
  <2>1. r \in Row /\ s \in Row
    BY DEF IngestInv, IngestTypes
  <2>2. r.group = s.group
    BY DEF IngestInv, SumsAreItsOwn, Members
  <2>3. CASE r.group = "project"
    BY <2>2, <2>3 DEF IngestInv, OneProjectRow
  <2>4. CASE r.group = "null"
    <3>1. r.counted = {r.by} /\ s.counted = {s.by}
      BY <2>2, <2>4 DEF IngestInv, NullRowsAreSingle
    <3>2. r.by = s.by /\ r.counted = s.counted
      BY <3>1
    <3>3. QED
      BY <2>1, <2>2, <3>2 DEF Row
  <2>5. QED
    BY <2>1, <2>3, <2>4 DEF Row, Groups
<1>4. acked \subseteq (records \cup unsaved) \cap published /\ unsaved \subseteq Attributed
  BY DEF IngestInv, AnswersAreTrue
<1>5. QED
  BY <1>1, <1>2, <1>3, <1>4 DEF CountedOnce

(* However many requests with however many keys send the same ids, again   *)
(* and again, and whatever fails: an id is recorded by one transaction, no *)
(* event is added up twice or without its record, and a 200 is true unless *)
(* a database error of the budget check of its project was swallowed.      *)
THEOREM IngestCountsOnce == IngestSpec => []CountedOnce
BY IngestInvHolds, CountedOnceFromInv, PTL
=============================================================================
