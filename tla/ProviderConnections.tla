------------------------- MODULE ProviderConnections -------------------------
(* The provider connections of one organization and the requests that edit *)
(* them: create, update, delete, test, rotate, sync and sync-all of        *)
(* api/v1/provider_connections.py, the live validation behind them, and    *)
(* the organization's scheduler settings.  A request reads the row when it *)
(* begins, probes the provider while other requests run, and at its flush  *)
(* the ORM writes only the columns that differ from what it read; a        *)
(* flushed row stays locked until the request's transaction ends.          *)
EXTENDS Naturals, FiniteSets

CONSTANTS
    Connections,   \* connections an owner may register
    Edits,         \* requests, one at most each
    ConnKinds,     \* provider types in use
    MaxFailureCount \* bound on the count of consecutive failures

Kinds == {"openai", "azure_openai", "ollama"}

ASSUME ConnectionsAssumption ==
    Connections # {} /\ ConnKinds \subseteq Kinds /\ MaxFailureCount \in Nat \ {0}

Keys == {"valid", "revoked"}
NoKey == "no_key"

VARIABLES
    row,           \* connection -> its committed row
    sync_settings, \* the organization's JSON bag, as one value
    rowLock,        \* connection -> the request that has its row locked
    edit,          \* request -> what it does, read and found
    asked,         \* settings the last finished request asked for (history)
    overlapped     \* rows an edit wrote over a version it had not read (history)

connVars == <<row, sync_settings, rowLock, edit, asked, overlapped>>

-----------------------------------------------------------------------------
(* Validation: providers/validation.py.                                    *)

Verdicts == {"healthy", "invalid_api_key", "unauthorized", "quota_exceeded",
             "network_failure", "timeout", "provider_unavailable"}

HealthFor(validation) ==
    CASE validation = "healthy" -> "healthy"
      [] validation \in {"invalid_api_key", "unauthorized", "provider_unavailable"} -> "critical"
      [] OTHER -> "warning"

(* The provider type's configuration: only Azure needs the base URL.       *)
Configurable(kind, url) == kind = "azure_openai" => url

Outages == {"quota_exceeded", "network_failure", "timeout", "provider_unavailable"}

(* What one probe may find of a credential.                                *)
Validate(kind, key, url) ==
    IF ~Configurable(kind, url) THEN {"invalid_api_key"}
    ELSE CASE kind = "ollama" -> {"healthy"} \cup Outages
           [] key = NoKey     -> {"invalid_api_key"}
           [] key = "revoked" -> {"invalid_api_key", "unauthorized"} \cup Outages
           [] OTHER           -> {"healthy"} \cup Outages

-----------------------------------------------------------------------------
(* Rows and what a flush does to them.                                     *)

NoRow == [present |-> FALSE, deleted |-> FALSE, active |-> FALSE, kind |-> "openai",
          key |-> NoKey, url |-> FALSE, health |-> "unknown", validation |-> "none",
          failures |-> 0, probed |-> NoKey, version |-> 0]

(* ProviderConnectionRepository.get: rows that are there and not deleted.  *)
Found(c) == row[c].present /\ ~row[c].deleted

NewRow(kind, key, url) ==
    [NoRow EXCEPT !.present = TRUE, !.active = TRUE, !.kind = kind, !.key = key, !.url = url]

(* BaseRepository.update: of the attributes set, a column is in the UPDATE *)
(* when its new value differs from the loaded one.                         *)
Flushed(c, read, new) ==
    [f \in DOMAIN NoRow |->
        CASE f = "version"       -> row[c].version + 1
          [] read[f] # new[f]    -> new[f]
          [] OTHER               -> row[c][f]]

(* A verdict that forgets the failures before it.                          *)
VerdictKeepsCount(read, validation) ==
    [read EXCEPT !.validation = validation, !.health = HealthFor(validation), !.probed = read.key]

(* ProviderHealthService.check_and_persist: the columns of a verdict.      *)
Verdict(read, validation) ==
    [read EXCEPT !.validation = validation,
                 !.health = HealthFor(validation),
                 !.failures = IF validation = "healthy" THEN 0
                              ELSE IF read.failures < MaxFailureCount THEN read.failures + 1
                              ELSE MaxFailureCount,
                 !.probed = read.key]

-----------------------------------------------------------------------------
DefaultSettings == [auto |-> FALSE, interval |-> "1h"]
SettingsPatches == {[auto |-> TRUE], [interval |-> "5m"], [auto |-> FALSE]}
Merged(bag, patch) == [f \in DOMAIN bag |-> IF f \in DOMAIN patch THEN patch[f] ELSE bag[f]]

Idle == [op |-> "none", c |-> CHOOSE c \in Connections : TRUE, read |-> NoRow, at |-> "idle",
         found |-> "none", bag |-> DefaultSettings, patch |-> [auto |-> TRUE],
         todo |-> {}, runs |-> {}]

ConnectionsInit ==
    /\ row \in [Connections -> {NoRow} \cup
                   {NewRow(kind, "valid", TRUE) : kind \in ConnKinds} \cup
                   {[NewRow(kind, "revoked", TRUE) EXCEPT !.validation = "unauthorized",
                        !.health = "critical", !.failures = 1, !.probed = "revoked"] : kind \in ConnKinds}]
    /\ rowLock = [c \in Connections |-> {}]
    /\ edit = [r \in Edits |-> Idle]
    /\ sync_settings = DefaultSettings /\ asked = DefaultSettings
    /\ overlapped = {}

Begins(r, record) == edit[r].at = "idle" /\ edit' = [edit EXCEPT ![r] = record]
At(r, op, at) == edit[r].op = op /\ edit[r].at = at
Moved(r, at) == edit' = [edit EXCEPT ![r].at = at]

Free(r, c) == rowLock[c] \subseteq {r}
Ends(r, c) == rowLock' = [rowLock EXCEPT ![c] = {}] /\ Moved(r, "done")

Stores(r, c, new) ==
    /\ Free(r, c)
    /\ row' = [row EXCEPT ![c] = Flushed(c, edit[r].read, new)]
    /\ overlapped' = IF row[c].version = edit[r].read.version THEN overlapped ELSE overlapped \cup {c}

(* create_provider_connection: a key, or Ollama, is validated in the same  *)
(* transaction; nobody sees the row before it commits.                     *)
Create(r) ==
    \E c \in Connections, kind \in ConnKinds, key \in Keys \cup {NoKey}, url \in BOOLEAN :
        /\ edit[r].at = "idle" /\ ~row[c].present
        /\ \A other \in Edits : ~(edit[other].op = "create" /\ edit[other].c = c)
        /\ LET made == NewRow(kind, key, url) IN
           IF key # NoKey \/ kind = "ollama"
           THEN /\ Begins(r, [Idle EXCEPT !.op = "create", !.c = c, !.read = made, !.at = "probing"])
                /\ UNCHANGED row
           ELSE /\ Begins(r, [Idle EXCEPT !.op = "create", !.c = c, !.at = "done"])
                /\ row' = [row EXCEPT ![c] = made]
        /\ UNCHANGED <<sync_settings, rowLock, asked, overlapped>>

Created(r) ==
    /\ At(r, "create", "probed")
    /\ row' = [row EXCEPT ![edit[r].c] = Verdict(edit[r].read, edit[r].found)]
    /\ Moved(r, "done")
    /\ UNCHANGED <<sync_settings, rowLock, asked, overlapped>>

(* _get_owned_connection: a missing or deleted row is a 404 and no edit.   *)
ReadRow(r, op, c) ==
    /\ Found(c)
    /\ Begins(r, [Idle EXCEPT !.op = op, !.c = c, !.read = row[c], !.at = "read"])
    /\ UNCHANGED <<row, sync_settings, rowLock, asked, overlapped>>

(* update_provider_connection: any of its fields; nothing is revalidated.  *)
Update(r) ==
    LET read == edit[r].read IN
    /\ At(r, "update", "read")
    /\ \E new \in {[read EXCEPT !.active = FALSE], [read EXCEPT !.active = TRUE],
                   [read EXCEPT !.url = ~read.url], read} :
          IF new = read THEN UNCHANGED <<row, overlapped>> ELSE Stores(r, edit[r].c, new)
    /\ Moved(r, "done")
    /\ UNCHANGED <<sync_settings, rowLock, asked>>

(* delete_provider_connection: a soft delete.                              *)
Delete(r) ==
    /\ At(r, "delete", "read")
    /\ Stores(r, edit[r].c, [edit[r].read EXCEPT !.deleted = TRUE])
    /\ Moved(r, "done")
    /\ UNCHANGED <<sync_settings, rowLock, asked>>

(* rotate_provider_connection_key: the new key is flushed and the row read *)
(* again, still locked, before the probe.  The column always differs: a    *)
(* key is encrypted with a nonce of its own.                               *)
Rotate(r) ==
    LET c == edit[r].c IN
    /\ At(r, "rotate", "read") /\ Free(r, c)
    /\ \E key \in Keys :
          edit' = [edit EXCEPT ![r].read = [row[c] EXCEPT !.key = key], ![r].at = "probing"]
    /\ rowLock' = [rowLock EXCEPT ![c] = {r}]
    /\ overlapped' = IF row[c].version = edit[r].read.version THEN overlapped ELSE overlapped \cup {c}
    /\ UNCHANGED <<row, sync_settings, asked>>

(* test_provider_connection: the probe starts from the row as it was read. *)
Test(r) ==
    /\ At(r, "test", "read")
    /\ Moved(r, "probing")
    /\ UNCHANGED <<row, sync_settings, rowLock, asked, overlapped>>

(* ProviderValidator.validate: every error is a verdict.                   *)
Probe(r) ==
    LET read == edit[r].read IN
    /\ edit[r].at = "probing"
    /\ \E validation \in Validate(read.kind, read.key, read.url) :
          edit' = [edit EXCEPT ![r].at = "probed", ![r].found = validation]
    /\ UNCHANGED <<row, sync_settings, rowLock, asked, overlapped>>

Persist(r) ==
    LET c == edit[r].c
        new == Verdict(edit[r].read, edit[r].found) IN
    /\ edit[r].op \in {"test", "rotate"} /\ edit[r].at = "probed" /\ Free(r, c)
    /\ row' = [row EXCEPT ![c] =
                  IF edit[r].op = "rotate" THEN [new EXCEPT !.version = @ + 1]
                  ELSE [Flushed(c, edit[r].read, new) EXCEPT !.probed = edit[r].read.key]]
    /\ overlapped' = IF row[c].version = edit[r].read.version THEN overlapped ELSE overlapped \cup {c}
    /\ Ends(r, c)
    /\ UNCHANGED <<sync_settings, asked>>

-----------------------------------------------------------------------------
(* Synchronization: services/provider_sync_service.py.                     *)

(* sync_all_connections takes the active connections it lists at the       *)
(* start, sync_connection the one of the request.                          *)
BeginSync(r) ==
    \E chosen \in {{c} : c \in {d \in Connections : Found(d)}}
                    \cup {{d \in Connections : Found(d) /\ row[d].active}} :
        /\ Begins(r, [Idle EXCEPT !.op = "sync", !.at = "syncing", !.todo = chosen])
        /\ UNCHANGED <<row, sync_settings, rowLock, asked, overlapped>>

(* One connection: a failing provider leaves a FAILED run and the loop     *)
(* goes on, but its configuration is built outside the try block.          *)
SyncConnection(r) ==
    /\ At(r, "sync", "syncing")
    /\ \E c \in edit[r].todo :
          IF Configurable(row[c].kind, row[c].url)
          THEN \E outcome \in {"completed", "failed"} :
                  edit' = [edit EXCEPT ![r].todo = @ \ {c}, ![r].runs = @ \cup {<<c, outcome>>}]
          ELSE edit' = [edit EXCEPT ![r].at = "error", ![r].todo = {}, ![r].runs = {}]
    /\ UNCHANGED <<row, sync_settings, rowLock, asked, overlapped>>

(* The answer, after the budgets are evaluated, whose failure is caught.   *)
SyncAnswered(r) ==
    /\ At(r, "sync", "syncing") /\ edit[r].todo = {}
    /\ Moved(r, "done")
    /\ UNCHANGED <<row, sync_settings, rowLock, asked, overlapped>>

-----------------------------------------------------------------------------
(* The scheduler's settings: a bag that is read, merged and written whole. *)
ReadSettings(r) ==
    \E patch \in SettingsPatches :
        /\ Begins(r, [Idle EXCEPT !.op = "settings", !.at = "read", !.bag = sync_settings,
                                  !.patch = patch])
        /\ UNCHANGED <<row, sync_settings, rowLock, asked, overlapped>>

SaveSettings(r) ==
    LET merged == Merged(edit[r].bag, edit[r].patch) IN
    /\ At(r, "settings", "read")
    /\ sync_settings' = IF merged = edit[r].bag THEN sync_settings ELSE merged
    /\ asked' = Merged(asked, edit[r].patch)
    /\ overlapped' = IF sync_settings = edit[r].bag THEN overlapped ELSE overlapped \cup {"settings"}
    /\ Moved(r, "done")
    /\ UNCHANGED <<row, rowLock>>

(* An error or a lost process rolls the request's transaction back.        *)
RollBack(r) ==
    /\ edit[r].at \notin {"idle", "done", "error"}
    /\ rowLock' = [c \in Connections |-> rowLock[c] \ {r}]
    /\ Moved(r, "error")
    /\ UNCHANGED <<row, sync_settings, asked, overlapped>>

ConnectionsNext ==
    \E r \in Edits :
        \/ Create(r) \/ Created(r)
        \/ \E c \in Connections, op \in {"update", "delete", "rotate", "test"} : ReadRow(r, op, c)
        \/ Update(r) \/ Delete(r) \/ Rotate(r) \/ Test(r) \/ Probe(r) \/ Persist(r)
        \/ BeginSync(r) \/ SyncConnection(r) \/ SyncAnswered(r)
        \/ ReadSettings(r) \/ SaveSettings(r)
        \/ RollBack(r)

ConnectionsSpec == ConnectionsInit /\ [][ConnectionsNext]_connVars

-----------------------------------------------------------------------------
(* The state keeps its types and bounds.                                   *)
ConnectionsTypeOK ==
    /\ \A c \in Connections :
          /\ row[c].kind \in Kinds /\ row[c].key \in Keys \cup {NoKey}
          /\ row[c].validation \in Verdicts \cup {"none"}
          /\ row[c].failures \in 0..MaxFailureCount
          /\ rowLock[c] \subseteq Edits /\ Cardinality(rowLock[c]) <= 1
    /\ \A r \in Edits : edit[r].at \in {"idle", "read", "probing", "probed", "syncing", "done", "error"}
    /\ overlapped \subseteq Connections \cup {"settings"}

(* provider_health_service.py:5-8 and the descriptions of /test and        *)
(* /rotate: health, error and failure count tell one story, and it is that *)
(* of the stored key; the settings hold all that was asked for.  No lock   *)
(* is taken and nothing is compared at the write, so two overlapping edits *)
(* of one row can break it: it holds of the rows where none overlapped.    *)
SeparateEditsAgree ==
    /\ \A c \in Connections \ overlapped :
          LET r == row[c] IN
          r.validation # "none" =>
             /\ r.health = HealthFor(r.validation)
             /\ r.health = "healthy" <=> r.failures = 0
             /\ r.probed = r.key
    /\ "settings" \notin overlapped => sync_settings = asked
=============================================================================
