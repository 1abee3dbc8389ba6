------------------------------ MODULE Settings ------------------------------
(***************************************************************************)
(* app_settings and its cache in memory (backend/app/orchestrator/         *)
(* settings_service.py): read by the router for every task and by the      *)
(* pilot for every turn, written by the settings pages.  The cache is      *)
(* loaded once, under a lock; a write commits first, then takes the lock   *)
(* and writes the same into the cache.                                     *)
(***************************************************************************)
CONSTANTS
  Key,      \* role_model.<role>, worker_priority.<name>, pilot.<...>
  Value,    \* what a key may be set to
  Unset,    \* no row, no entry
  Request   \* requests under way

ASSUME UnsetAssumption == Unset \notin Value

VARIABLES
  table,    \* key -> the value of its row
  cache,    \* key -> the value in memory
  loaded,   \* _cache_loaded
  reader,   \* the lock's holder that loads the cache: "none", "started", "read"
  seen,     \* what it has read
  write     \* request -> the write it is at

settingsVars == <<table, cache, loaded, reader, seen, write>>

Setting == [Key -> Value \cup {Unset}]
NoWrite == [at |-> "none"]
Write == [at : {"row", "cache"}, key : Key, value : Value \cup {Unset}]

SettingsTypeOK ==
  /\ table \in Setting /\ cache \in Setting /\ seen \in Setting
  /\ loaded \in BOOLEAN
  /\ reader \in {"none", "started", "read"}
  /\ loaded => reader = "none"
  /\ write \in [Request -> Write \cup {NoWrite}]

SettingsInit ==
  /\ table \in Setting
  /\ cache = [k \in Key |-> Unset] /\ seen = cache
  /\ loaded = FALSE /\ reader = "none"
  /\ write = [r \in Request |-> NoWrite]

-----------------------------------------------------------------------------
(* set_role_model, set_worker_priority, set_raw: a value, or none to clear *)
(* the row.                                                                *)

SetValue(r, k, v) ==
  /\ write[r] = NoWrite
  /\ write' = [write EXCEPT ![r] = [at |-> "row", key |-> k, value |-> v]]
  /\ UNCHANGED <<table, cache, loaded, reader, seen>>

CommitRow(r) ==
  /\ write[r].at = "row"
  /\ table' = [table EXCEPT ![write[r].key] = write[r].value]
  /\ write' = [write EXCEPT ![r].at = "cache"]
  /\ UNCHANGED <<cache, loaded, reader, seen>>

CommitFails(r) ==
  /\ write[r].at = "row"
  /\ write' = [write EXCEPT ![r] = NoWrite]
  /\ UNCHANGED <<table, cache, loaded, reader, seen>>

\* Slip: the lock is not taken.
UpdateCacheUnlocked(r) ==
  /\ write[r].at = "cache"
  /\ cache' = [cache EXCEPT ![write[r].key] = write[r].value]
  /\ write' = [write EXCEPT ![r] = NoWrite]
  /\ UNCHANGED <<table, loaded, reader, seen>>

UpdateCache(r) ==
  /\ write[r].at = "cache" /\ reader = "none"
  /\ cache' = [cache EXCEPT ![write[r].key] = write[r].value]
  /\ write' = [write EXCEPT ![r] = NoWrite]
  /\ UNCHANGED <<table, loaded, reader, seen>>

-----------------------------------------------------------------------------
(* Whoever reads first loads the cache.                                    *)

StartLoad ==
  /\ ~loaded /\ reader = "none"
  /\ reader' = "started"
  /\ UNCHANGED <<table, cache, loaded, seen, write>>

ReadTable ==
  /\ reader = "started"
  /\ reader' = "read" /\ seen' = table
  /\ UNCHANGED <<table, cache, loaded, write>>

\* Slip: the lock is kept.
FillCacheLocked ==
  /\ reader = "read"
  /\ cache' = seen /\ loaded' = TRUE
  /\ UNCHANGED <<table, reader, seen, write>>

FillCache ==
  /\ reader = "read"
  /\ cache' = seen /\ loaded' = TRUE /\ reader' = "none"
  /\ UNCHANGED <<table, seen, write>>

LoadFails ==
  /\ reader = "started"
  /\ reader' = "none"
  /\ UNCHANGED <<table, cache, loaded, seen, write>>

RestartSettings ==
  /\ cache' = [k \in Key |-> Unset]
  /\ loaded' = FALSE /\ reader' = "none"
  /\ write' = [r \in Request |-> NoWrite]
  /\ UNCHANGED <<table, seen>>

SettingsNext ==
  \/ \E r \in Request, k \in Key, v \in Value \cup {Unset} : SetValue(r, k, v)
  \/ \E r \in Request : CommitRow(r) \/ CommitFails(r) \/ UpdateCache(r)
  \/ StartLoad \/ ReadTable \/ FillCache \/ LoadFails \/ RestartSettings

SettingsSpec == SettingsInit /\ [][SettingsNext]_settingsVars

\* One writer of a key at a time: two that cross on a key leave the cache with
\* whichever came last to it, whatever came last to the table.
OneWriter ==
  \A r, q \in Request :
    write[r] # NoWrite /\ write[q] # NoWrite /\ write[r].key = write[q].key => r = q
OneWriterSpec == SettingsInit /\ [][SettingsNext /\ OneWriter']_settingsVars

-----------------------------------------------------------------------------
(***************************************************************************)
(* The cache does not go stale: once it is loaded it holds every row but   *)
(* those whose writer is still on its way to it, however the loading and   *)
(* the writes of different keys cross.                                     *)
(***************************************************************************)
CacheIsTable ==
  loaded => \A k \in Key :
    \/ cache[k] = table[k]
    \/ \E r \in Request : write[r].at = "cache" /\ write[r].key = k
=============================================================================
