---------------------------- MODULE SessionStore ----------------------------
(* The sessions of TON Connect: a map in memory, written to the storage whole
   after every change, and merged with what the storage holds at every event
   of the bridge (TONConnectStoredSessionManager.ts, handleBridgeEvent of
   BridgeManager.ts).  A session is here the number of its key pair.  The
   storage is external: it serves the requests in their order, and a read or a
   write may fail, which is only logged. *)
EXTENDS Naturals, Sequences

CONSTANTS
    SessionIds,
    MaxKeys,        \* bound: sessions created
    MaxQueued,      \* bound: storage requests under way
    MaxMishaps      \* bound: failed reads and writes, restarts

ASSUME SessionAssumption ==
    MaxKeys \in Nat /\ MaxQueued \in Nat /\ MaxMishaps \in Nat

VARIABLES
    sessions,       \* the map: the key of each session, 0 for none
    disk,           \* what the storage holds
    storageQueue,   \* the requests the storage has yet to serve
    loading,        \* of loadSessions: "idle", "asked", "read"
    found,          \* what loadSessions has read
    running,        \* initialize() was done since the start
    keys,           \* key pairs made so far
    mishaps,
    lastFailed,     \* history: the last write that was served failed
    decided,        \* history: what each session should be
    unsaved,        \* history: sessions changed since the last write that succeeded
    exposed         \* history: sessions a load or a restart may have set back

loadVars == <<loading, found>>
historyVars == <<decided, unsaved, exposed>>
sessionVars ==
    <<sessions, disk, storageQueue, loadVars, running, keys, mishaps, lastFailed, historyVars>>

\* A stored session of another schema version.
Alien == MaxKeys + 1
Keypairs == 1..MaxKeys
None == [id \in SessionIds |-> 0]

SessionsInit ==
    /\ sessions = None
    /\ disk \in [SessionIds -> {0, Alien}]
    /\ storageQueue = <<[kind |-> "read", value |-> None, changed |-> {}]>>
    /\ loading = "asked" /\ found = None
    /\ running = FALSE /\ keys = 0 /\ mishaps = 0 /\ lastFailed = FALSE
    /\ decided = None /\ unsaved = {} /\ exposed = {}

AskStorage(request) == storageQueue' = Append(storageQueue, request)

\* persistSessions() with the map `value`.
Persist(value, changed) ==
    /\ Len(storageQueue) < MaxQueued
    /\ AskStorage([kind |-> "write", value |-> value, changed |-> changed])

\* Mutant of Change: the map is persisted as it was.
ChangeLate(ids, value) ==
    /\ running
    /\ sessions' = [id \in SessionIds |-> IF id \in ids THEN value ELSE sessions[id]]
    /\ Persist(sessions, ids)
    /\ decided' = [id \in SessionIds |-> IF id \in ids THEN value ELSE decided[id]]
    /\ unsaved' = unsaved \cup ids
    /\ exposed' = IF loading = "read" THEN exposed \cup ids ELSE exposed \ ids
    /\ UNCHANGED <<disk, loadVars, running, mishaps, lastFailed>>

(* The sessions in `ids` are changed to `value`, by the application or the
   dApp, and the map is persisted. *)
Change(ids, value) ==
    LET new == [id \in SessionIds |-> IF id \in ids THEN value ELSE sessions[id]]
    IN /\ running
       /\ sessions' = new
       /\ Persist(new, ids)
       /\ decided' = [id \in SessionIds |-> IF id \in ids THEN value ELSE decided[id]]
       /\ unsaved' = unsaved \cup ids
       /\ exposed' = IF loading = "read" THEN exposed \cup ids ELSE exposed \ ids
       /\ UNCHANGED <<disk, loadVars, running, mishaps, lastFailed>>

-----------------------------------------------------------------------------
\* A key pair is made anew, also for a session that exists.
CreateSession(id) ==
    /\ keys < MaxKeys /\ keys' = keys + 1
    /\ Change({id}, keys + 1)

(* removeSession, removeSessions of a wallet or domain, cleanupInactiveSessions:
   nothing is persisted if there is nothing to remove. *)
RemoveSessions(ids) ==
    /\ ids # {} /\ \A id \in ids : sessions[id] # 0
    /\ Change(ids, 0)
    /\ UNCHANGED keys

ClearSessions == Change(SessionIds, 0) /\ UNCHANGED keys

-----------------------------------------------------------------------------
\* initialize(), for the next event of the bridge: events come one at a time.
Load ==
    /\ running /\ loading = "idle"
    /\ Len(storageQueue) < MaxQueued
    /\ loading' = "asked"
    /\ AskStorage([kind |-> "read", value |-> None, changed |-> {}])
    /\ UNCHANGED <<sessions, disk, found, running, keys, mishaps, lastFailed, historyVars>>

\* Mutant of Merge: the map is persisted before the migration.
MergeUnmigrated ==
    LET merged == [id \in SessionIds |-> IF found[id] # 0 THEN found[id] ELSE sessions[id]]
    IN /\ loading = "read"
       /\ loading' = "idle" /\ found' = None
       /\ sessions' = [id \in SessionIds |-> IF merged[id] = Alien THEN 0 ELSE merged[id]]
       /\ Persist(merged, {})
       /\ running' = TRUE
       /\ UNCHANGED <<disk, keys, mishaps, lastFailed, historyVars>>

(* The sessions read are put into the map, over those it holds; then those of
   an unknown schema are deleted, and the map is persisted. *)
Merge ==
    LET merged == [id \in SessionIds |-> IF found[id] # 0 THEN found[id] ELSE sessions[id]]
        migrated == [id \in SessionIds |-> IF merged[id] = Alien THEN 0 ELSE merged[id]]
    IN /\ loading = "read"
       /\ loading' = "idle" /\ found' = None
       /\ sessions' = migrated
       /\ Persist(migrated, {})
       /\ running' = TRUE
       /\ UNCHANGED <<disk, keys, mishaps, lastFailed, historyVars>>

-----------------------------------------------------------------------------
(* The storage serves its first request. *)
FirstIs(kind) == storageQueue # <<>> /\ Head(storageQueue).kind = kind
Pop == storageQueue' = Tail(storageQueue)

LoadRead ==
    /\ FirstIs("read") /\ Pop
    /\ loading' = "read" /\ found' = disk
    /\ exposed' = exposed \cup unsaved
    /\ UNCHANGED <<sessions, disk, running, keys, mishaps, lastFailed, decided, unsaved>>

(* A failed read finds nothing: when the application starts, nothing is then
   left of the sessions, and the empty map is persisted. *)
ReadFailed ==
    /\ FirstIs("read") /\ Pop
    /\ mishaps < MaxMishaps /\ mishaps' = mishaps + 1
    /\ loading' = "read" /\ found' = None
    /\ exposed' = IF running THEN exposed ELSE SessionIds
    /\ UNCHANGED <<sessions, disk, running, keys, lastFailed, decided, unsaved>>

\* What changed after the map was copied for this write is not saved by it.
Written ==
    /\ FirstIs("write") /\ Pop
    /\ disk' = Head(storageQueue).value /\ lastFailed' = FALSE
    /\ unsaved' = UNION {Tail(storageQueue)[i].changed : i \in DOMAIN Tail(storageQueue)}
    /\ UNCHANGED <<sessions, loadVars, running, keys, mishaps, decided, exposed>>

WriteFailed ==
    /\ FirstIs("write") /\ Pop
    /\ mishaps < MaxMishaps /\ mishaps' = mishaps + 1
    /\ lastFailed' = TRUE
    /\ UNCHANGED <<sessions, disk, loadVars, running, keys, historyVars>>

\* The application is closed and started again: initialize() comes first.
RestartKit ==
    /\ running
    /\ mishaps < MaxMishaps /\ mishaps' = mishaps + 1
    /\ sessions' = None
    /\ storageQueue' = <<[kind |-> "read", value |-> None, changed |-> {}]>>
    /\ loading' = "asked" /\ found' = None
    /\ running' = FALSE
    /\ exposed' = exposed \cup unsaved /\ unsaved' = {}
    /\ UNCHANGED <<disk, keys, lastFailed, decided>>

SessionsNext ==
    \/ \E id \in SessionIds : CreateSession(id)
    \/ \E ids \in SUBSET SessionIds : RemoveSessions(ids)
    \/ ClearSessions
    \/ Load \/ Merge
    \/ LoadRead \/ ReadFailed \/ Written \/ WriteFailed \/ RestartKit

SessionsSpec == SessionsInit /\ [][SessionsNext]_sessionVars

-----------------------------------------------------------------------------
Map == [SessionIds -> 0..Alien]
Request == [kind : {"read", "write"}, value : Map, changed : SUBSET SessionIds]

(* The types of the variables; the map never holds a session of another
   schema. *)
SessionsTypeOK ==
    /\ sessions \in [SessionIds -> 0..MaxKeys]
    /\ disk \in Map /\ found \in Map
    /\ storageQueue \in Seq(Request)
    /\ loading \in {"idle", "asked", "read"}
    /\ running \in BOOLEAN
    /\ keys \in 0..MaxKeys /\ mishaps \in 0..MaxMishaps /\ lastFailed \in BOOLEAN
    /\ decided \in [SessionIds -> 0..MaxKeys]
    /\ unsaved \in SUBSET SessionIds /\ exposed \in SUBSET SessionIds

(* A session is what was decided of it: with the key it was created with, or
   removed.  It may be otherwise only if it was changed while a load was under
   way, if the write of the change failed or was lost in a restart (then the
   load brings a removed session back, or an old key), or if the application
   could not read its sessions when it started. *)
SessionsAsDecided ==
    running => \A id \in SessionIds : sessions[id] = decided[id] \/ id \in exposed

(* The last write on its way carries the whole map: when the storage is done,
   a restart finds the sessions the application had, unless that write failed. *)
LastWriteIsTheMap ==
    LET writes == {i \in DOMAIN storageQueue : storageQueue[i].kind = "write"}
    IN running =>
       \/ \E i \in writes : storageQueue[i].value = sessions /\ \A j \in writes : j <= i
       \/ writes = {} /\ (disk = sessions \/ lastFailed)
=============================================================================
