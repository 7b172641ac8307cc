------------------------------ MODULE KitProofs ------------------------------
(***************************************************************************)
(* Theorems about SessionStore, for any sessions, keys, length of the      *)
(* storage's queue and number of failures, and about AgenticSetup, for any *)
(* number of setups; and what MCKit, which runs them beside three more     *)
(* parts, has from their theorems.                                         *)
(***************************************************************************)
EXTENDS MCKit, StreamingProofs, RequestQueueProofs

Reading == [kind |-> "read", value |-> None, changed |-> {}]
Writing(value, changed) == [kind |-> "write", value |-> value, changed |-> changed]

-----------------------------------------------------------------------------
(* The storage's queue: what asking it and serving it do to its entries. *)

LEMMA QueueEntries ==
  ASSUME NEW q \in Seq(Request)
  PROVE  /\ Len(q) \in Nat /\ DOMAIN q = 1..Len(q)
         /\ \A i \in 1..Len(q) : q[i] \in Request
  BY LenProperties, ElementOfSeq

LEMMA AskedQueue ==
  ASSUME SessionsTypeOK, NEW r \in Request, AskStorage(r)
  PROVE  /\ storageQueue' \in Seq(Request)
         /\ Len(storageQueue') = Len(storageQueue) + 1
         /\ storageQueue'[Len(storageQueue) + 1] = r
         /\ \A i \in 1..Len(storageQueue) : storageQueue'[i] = storageQueue[i]
<1>1. storageQueue \in Seq(Request) /\ storageQueue' = Append(storageQueue, r)
  BY DEF SessionsTypeOK, AskStorage
<1>2. QED
  BY <1>1, AppendProperties

LEMMA PoppedQueue ==
  ASSUME SessionsTypeOK, storageQueue # <<>>, Pop
  PROVE  /\ storageQueue' \in Seq(Request)
         /\ Len(storageQueue) > 0 /\ Head(storageQueue) = storageQueue[1]
         /\ storageQueue[1] \in Request
         /\ Len(storageQueue') = Len(storageQueue) - 1
         /\ \A i \in 1..Len(storageQueue') : storageQueue'[i] = storageQueue[i + 1]
<1>1. storageQueue \in Seq(Request) /\ storageQueue' = Tail(storageQueue)
  BY DEF SessionsTypeOK, Pop
<1>2. /\ storageQueue' \in Seq(Request) /\ Len(storageQueue') = Len(storageQueue) - 1
      /\ \A i \in 1..Len(storageQueue') : storageQueue'[i] = storageQueue[i + 1]
      /\ Head(storageQueue) \in Request
  BY <1>1, HeadTailProperties
<1>3. Head(storageQueue) = storageQueue[1]
  OBVIOUS
<1>4. Len(storageQueue) > 0
  BY <1>1, EmptySeq, LenProperties
<1>5. QED
  BY <1>2, <1>3, <1>4

-----------------------------------------------------------------------------
(* SessionStore: types. *)

LEMMA MapTypes ==
  /\ None \in [SessionIds -> 0..MaxKeys] /\ None \in Map /\ Reading \in Request
  /\ [SessionIds -> 0..MaxKeys] \subseteq Map /\ Alien \notin 0..MaxKeys
  /\ \A value \in Map, changed \in SUBSET SessionIds : Writing(value, changed) \in Request
<1>1. MaxKeys \in Nat /\ 0..MaxKeys \subseteq 0..Alien /\ Alien \notin 0..MaxKeys
  BY SessionAssumption DEF Alien
<1>2. None \in [SessionIds -> 0..MaxKeys]
  BY <1>1 DEF None
<1>3. [SessionIds -> 0..MaxKeys] \subseteq Map
  BY <1>1 DEF Map
<1>4. Reading \in Request
  BY <1>2, <1>3 DEF Reading, Request
<1>5. QED
  BY <1>1, <1>2, <1>3, <1>4 DEF Request, Writing

\* A change by the application or the dApp.
LEMMA ChangeTypes ==
  ASSUME SessionsTypeOK, NEW ids \in SUBSET SessionIds, NEW value \in 0..MaxKeys,
         Change(ids, value), keys' \in 0..MaxKeys
  PROVE  /\ SessionsTypeOK'
         /\ AskStorage(Writing(sessions', ids)) /\ Writing(sessions', ids) \in Request
         /\ \A id \in SessionIds :
              /\ sessions'[id] = IF id \in ids THEN value ELSE sessions[id]
              /\ decided'[id] = IF id \in ids THEN value ELSE decided[id]
<1>1. /\ sessions' = [id \in SessionIds |-> IF id \in ids THEN value ELSE sessions[id]]
      /\ decided' = [id \in SessionIds |-> IF id \in ids THEN value ELSE decided[id]]
      /\ unsaved' = unsaved \cup ids
      /\ exposed' = IF loading = "read" THEN exposed \cup ids ELSE exposed \ ids
      /\ UNCHANGED <<disk, loading, found, running, mishaps, lastFailed>>
  BY DEF Change, loadVars
<1>2. AskStorage(Writing(sessions', ids))
  BY <1>1 DEF Change, Persist, Writing
<1>3. sessions' \in [SessionIds -> 0..MaxKeys] /\ decided' \in [SessionIds -> 0..MaxKeys]
  BY <1>1 DEF SessionsTypeOK
<1>4. Writing(sessions', ids) \in Request
  BY <1>3, MapTypes
<1>5. storageQueue' \in Seq(Request)
  BY <1>2, <1>4, AskedQueue
<1>6. QED
  BY <1>1, <1>2, <1>3, <1>4, <1>5 DEF SessionsTypeOK

\* Who removed a session, or made one, makes no difference.
LEMMA ChangesAre ==
  ASSUME SessionsTypeOK,
         (\E id \in SessionIds : CreateSession(id))
         \/ (\E ids \in SUBSET SessionIds : RemoveSessions(ids)) \/ ClearSessions
  PROVE  \E ids \in SUBSET SessionIds, value \in 0..MaxKeys :
            Change(ids, value) /\ keys' \in 0..MaxKeys
<1>1. keys \in 0..MaxKeys /\ MaxKeys \in Nat /\ 0 \in 0..MaxKeys
  BY SessionAssumption DEF SessionsTypeOK
<1>2. ASSUME NEW id \in SessionIds, CreateSession(id)
      PROVE  /\ {id} \in SUBSET SessionIds /\ keys + 1 \in 0..MaxKeys
             /\ Change({id}, keys + 1) /\ keys' \in 0..MaxKeys
  BY <1>1, <1>2 DEF CreateSession
<1>3. ASSUME NEW ids \in SUBSET SessionIds, RemoveSessions(ids)
      PROVE  Change(ids, 0) /\ keys' \in 0..MaxKeys
  BY <1>1, <1>3 DEF RemoveSessions
<1>4. CASE ClearSessions
  BY <1>1, <1>4 DEF ClearSessions
<1>5. QED
  BY <1>1, <1>2, <1>3, <1>4

\* The map after a load, and the write that saves it.
Migrated ==
    [id \in SessionIds |->
        LET merged == IF found[id] # 0 THEN found[id] ELSE sessions[id]
        IN IF merged = Alien THEN 0 ELSE merged]

LEMMA MergeTypes ==
  ASSUME SessionsTypeOK, Merge
  PROVE  /\ SessionsTypeOK' /\ sessions' = Migrated
         /\ AskStorage(Writing(sessions', {})) /\ Writing(sessions', {}) \in Request
<1>1. /\ sessions' = Migrated /\ loading' = "idle" /\ found' = None /\ running' = TRUE
      /\ UNCHANGED <<disk, keys, mishaps, lastFailed, decided, unsaved, exposed>>
  BY DEF Merge, Migrated, historyVars
<1>2. AskStorage(Writing(sessions', {}))
  BY DEF Merge, Persist, Writing
<1>3. Migrated \in [SessionIds -> 0..MaxKeys]
  <2>1. \A n \in 0..Alien : n = Alien \/ n \in 0..MaxKeys
    BY SessionAssumption DEF Alien
  <2>2. 0 \in 0..MaxKeys
    BY SessionAssumption
  <2>3. found \in [SessionIds -> 0..Alien] /\ sessions \in [SessionIds -> 0..MaxKeys]
    BY DEF SessionsTypeOK, Map
  <2>4. QED
    BY <2>1, <2>2, <2>3 DEF Migrated
<1>4. Writing(sessions', {}) \in Request
  BY <1>1, <1>3, MapTypes
<1>5. storageQueue' \in Seq(Request)
  BY <1>2, <1>4, AskedQueue
<1>6. QED
  BY <1>1, <1>2, <1>3, <1>4, <1>5, MapTypes DEF SessionsTypeOK

LEMMA ServedTypes ==
  ASSUME SessionsTypeOK, LoadRead \/ ReadFailed \/ Written \/ WriteFailed
  PROVE  SessionsTypeOK' /\ Pop /\ storageQueue # <<>>
<1>1. Pop /\ storageQueue # <<>>
  BY DEF LoadRead, ReadFailed, Written, WriteFailed, FirstIs
<1>2. /\ storageQueue' \in Seq(Request) /\ Len(storageQueue') \in Nat
      /\ storageQueue[1] \in Request /\ Head(storageQueue) = storageQueue[1]
      /\ DOMAIN storageQueue' = 1..Len(storageQueue')
      /\ \A i \in 1..Len(storageQueue') : storageQueue'[i] \in Request
  BY <1>1, PoppedQueue, QueueEntries
<1>3. CASE LoadRead
  BY <1>1, <1>2, <1>3 DEF LoadRead, SessionsTypeOK
<1>4. CASE ReadFailed
  <2>1. mishaps' \in 0..MaxMishaps
    BY <1>4, SessionAssumption DEF ReadFailed, SessionsTypeOK
  <2>2. QED
    BY <1>1, <1>2, <1>4, <2>1, MapTypes DEF ReadFailed, SessionsTypeOK
<1>5. CASE Written
  <2>1. unsaved' = UNION {storageQueue'[i].changed : i \in DOMAIN storageQueue'}
    BY <1>1, <1>5 DEF Written, Pop
  <2>2. unsaved' \in SUBSET SessionIds
    BY <1>2, <2>1 DEF Request
  <2>3. disk' \in Map
    BY <1>2, <1>5 DEF Written, Request
  <2>4. QED
    BY <1>1, <1>2, <1>5, <2>2, <2>3 DEF Written, SessionsTypeOK, loadVars
<1>6. CASE WriteFailed
  <2>1. mishaps' \in 0..MaxMishaps
    BY <1>6, SessionAssumption DEF WriteFailed, SessionsTypeOK
  <2>2. QED
    BY <1>1, <1>2, <1>6, <2>1 DEF WriteFailed, SessionsTypeOK, loadVars, historyVars
<1>7. QED
  BY <1>1, <1>3, <1>4, <1>5, <1>6

LEMMA LoadTypes ==
  ASSUME SessionsTypeOK, Load
  PROVE  SessionsTypeOK' /\ AskStorage(Reading) /\ Reading \in Request
<1>1. AskStorage(Reading) /\ loading' = "asked"
      /\ UNCHANGED <<sessions, disk, found, running, keys, mishaps, lastFailed, historyVars>>
  BY DEF Load, Reading
<1>2. storageQueue' \in Seq(Request)
  BY <1>1, MapTypes, AskedQueue
<1>3. QED
  BY <1>1, <1>2, MapTypes DEF SessionsTypeOK, historyVars

LEMMA RestartTypes ==
  ASSUME SessionsTypeOK, RestartKit
  PROVE  SessionsTypeOK' /\ storageQueue' = <<Reading>>
<1>1. storageQueue' = <<Reading>> /\ <<Reading>> \in Seq(Request)
  BY MapTypes DEF RestartKit, Reading
<1>2. mishaps' \in 0..MaxMishaps
  BY SessionAssumption DEF RestartKit, SessionsTypeOK
<1>3. QED
  BY <1>1, <1>2, MapTypes DEF RestartKit, SessionsTypeOK

LEMMA StoppedTypes ==
  ASSUME SessionsTypeOK, UNCHANGED sessionVars
  PROVE  /\ UNCHANGED <<sessions, disk, storageQueue, loading, found, running, keys, mishaps,
                        lastFailed, decided, unsaved, exposed>>
         /\ SessionsTypeOK'
  BY DEF sessionVars, loadVars, historyVars, SessionsTypeOK

LEMMA SessionSteps ==
  SessionsNext =>
    \/ \E id \in SessionIds : CreateSession(id)
    \/ \E ids \in SUBSET SessionIds : RemoveSessions(ids)
    \/ ClearSessions
    \/ Load \/ Merge \/ (LoadRead \/ ReadFailed \/ Written \/ WriteFailed) \/ RestartKit
  BY DEF SessionsNext

LEMMA InitialSessions == SessionsInit => SessionsTypeOK
<1> SUFFICES ASSUME SessionsInit PROVE SessionsTypeOK
  OBVIOUS
<1>1. <<Reading>> \in Seq(Request) /\ storageQueue = <<Reading>>
  BY MapTypes DEF SessionsInit, Reading
<1>2. disk \in Map
  BY SessionAssumption DEF SessionsInit, Map, Alien
<1>3. 0 \in 0..MaxKeys /\ 0 \in 0..MaxMishaps
  BY SessionAssumption
<1>4. QED
  BY <1>1, <1>2, <1>3, MapTypes DEF SessionsInit, SessionsTypeOK

LEMMA SessionTypesKept == SessionsTypeOK /\ [SessionsNext]_sessionVars => SessionsTypeOK'
<1> SUFFICES ASSUME SessionsTypeOK, [SessionsNext]_sessionVars PROVE SessionsTypeOK'
  OBVIOUS
<1>1. CASE (\E id \in SessionIds : CreateSession(id))
           \/ (\E ids \in SUBSET SessionIds : RemoveSessions(ids)) \/ ClearSessions
  BY <1>1, ChangesAre, ChangeTypes
<1>2. QED
  BY <1>1, LoadTypes, MergeTypes, ServedTypes, RestartTypes, StoppedTypes, SessionSteps

(* The variables keep their types; above all the map never holds a session of
   another schema, whatever the storage holds. *)
THEOREM SessionTypeCorrect == SessionsSpec => []SessionsTypeOK
  BY InitialSessions, SessionTypesKept, PTL DEF SessionsSpec

-----------------------------------------------------------------------------
(* The last write. *)

Writes == {i \in 1..Len(storageQueue) : storageQueue[i].kind = "write"}
Saved ==
    \/ \E i \in Writes : storageQueue[i].value = sessions /\ \A j \in Writes : j <= i
    \/ Writes = {} /\ (disk = sessions \/ lastFailed)

\* A write asked for last is the last one.
LEMMA WriteAsked ==
  ASSUME SessionsTypeOK, NEW ids \in SUBSET SessionIds,
         AskStorage(Writing(sessions', ids)), Writing(sessions', ids) \in Request
  PROVE  Saved'
<1> DEFINE n == Len(storageQueue) + 1
<1>1. /\ Len(storageQueue') = n /\ storageQueue'[n] = Writing(sessions', ids)
      /\ Len(storageQueue) \in Nat
  BY AskedQueue, QueueEntries DEF SessionsTypeOK
<1> HIDE DEF n
<1>2. n \in 1..n /\ \A j \in 1..n : j <= n
  BY <1>1 DEF n
<1>3. storageQueue'[n].kind = "write" /\ storageQueue'[n].value = sessions'
  BY <1>1 DEF Writing
<1>4. QED
  BY <1>1, <1>2, <1>3 DEF Saved, Writes

\* Serving the storage's first request.
LEMMA ServedSaves ==
  ASSUME SessionsTypeOK, Saved, Pop, storageQueue # <<>>, sessions' = sessions,
         \/ Head(storageQueue).kind = "read" /\ UNCHANGED <<disk, lastFailed>>
         \/ Head(storageQueue).kind = "write" /\ disk' = Head(storageQueue).value
         \/ Head(storageQueue).kind = "write" /\ lastFailed'
  PROVE  Saved'
<1>1. /\ Head(storageQueue) = storageQueue[1] /\ Len(storageQueue) \in Nat
      /\ Len(storageQueue) > 0 /\ Len(storageQueue') = Len(storageQueue) - 1
      /\ \A i \in 1..Len(storageQueue') : storageQueue'[i] = storageQueue[i + 1]
  BY PoppedQueue, QueueEntries DEF SessionsTypeOK
<1>2. \A i \in Int : i \in Writes' <=> i + 1 \in Writes /\ i >= 1
  BY <1>1 DEF Writes
<1>3. Writes \subseteq Int /\ \A i \in Writes : i = 1 \/ i - 1 \in Writes'
  BY <1>1, <1>2 DEF Writes
<1>4. CASE Writes = {}
  <2>1. Writes' = {}
    BY <1>2, <1>4 DEF Writes
  <2>2. Head(storageQueue).kind # "write"
    BY <1>1, <1>4 DEF Writes
  <2>3. QED
    BY <1>4, <2>1, <2>2 DEF Saved
<1>5. ASSUME NEW i \in Writes, storageQueue[i].value = sessions, \A j \in Writes : j <= i
      PROVE  Saved'
  <2>1. CASE i = 1
    <3>1. Writes' = {}
      BY <1>1, <1>2, <1>5, <2>1 DEF Writes
    <3>2. storageQueue[1].kind = "write" /\ storageQueue[1].value = sessions
      BY <1>5, <2>1 DEF Writes
    <3>3. QED
      BY <1>1, <3>1, <3>2 DEF Saved
  <2>2. CASE i # 1
    <3>1. i - 1 \in Writes' /\ i \in Int
      BY <1>3, <2>2
    <3>2. storageQueue'[i - 1] = storageQueue[i]
      BY <1>1, <3>1 DEF Writes
    <3>3. ASSUME NEW j \in Writes' PROVE j <= i - 1
      <4>1. j \in Int /\ j + 1 \in Writes
        BY <1>2 DEF Writes
      <4>2. QED
        BY <1>5, <3>1, <4>1
    <3>4. QED
      BY <1>5, <3>1, <3>2, <3>3 DEF Saved
  <2>3. QED
    BY <2>1, <2>2
<1>6. QED
  BY <1>4, <1>5 DEF Saved

LEMMA SavedKept ==
  SessionsTypeOK /\ (running => Saved) /\ [SessionsNext]_sessionVars => (running => Saved)'
<1> SUFFICES ASSUME SessionsTypeOK, running => Saved, [SessionsNext]_sessionVars, running'
             PROVE  Saved'
  OBVIOUS
<1>1. ASSUME NEW ids \in SUBSET SessionIds, NEW value \in 0..MaxKeys,
             Change(ids, value), keys' \in 0..MaxKeys
      PROVE  Saved'
  BY <1>1, ChangeTypes, WriteAsked
<1>2. CASE Merge
  BY <1>2, MergeTypes, WriteAsked
<1>3. CASE Load
  <2>1. /\ Len(storageQueue) \in Nat /\ Len(storageQueue') = Len(storageQueue) + 1
        /\ storageQueue'[Len(storageQueue) + 1] = Reading
        /\ \A i \in 1..Len(storageQueue) : storageQueue'[i] = storageQueue[i]
    BY <1>3, LoadTypes, AskedQueue, QueueEntries DEF SessionsTypeOK
  <2>2. Writes' = Writes /\ \A i \in Writes : storageQueue'[i] = storageQueue[i]
    BY <2>1 DEF Writes, Reading
  <2>3. running /\ UNCHANGED <<sessions, disk, lastFailed>>
    BY <1>3 DEF Load
  <2>4. QED
    BY <2>2, <2>3 DEF Saved
<1>4. CASE LoadRead \/ ReadFailed \/ Written \/ WriteFailed
  <2>1. /\ Pop /\ storageQueue # <<>> /\ sessions' = sessions /\ running
        /\ \/ Head(storageQueue).kind = "read" /\ UNCHANGED <<disk, lastFailed>>
           \/ Head(storageQueue).kind = "write" /\ disk' = Head(storageQueue).value
           \/ Head(storageQueue).kind = "write" /\ lastFailed'
    BY <1>4 DEF LoadRead, ReadFailed, Written, WriteFailed, FirstIs
  <2>2. QED
    BY <2>1, ServedSaves
<1>5. CASE RestartKit
  BY <1>5 DEF RestartKit
<1>6. CASE UNCHANGED sessionVars
  <2>1. UNCHANGED <<sessions, disk, storageQueue, running, lastFailed>>
    BY <1>6 DEF sessionVars
  <2>2. QED
    BY <2>1 DEF Saved, Writes
<1>7. QED
  BY <1>1, <1>2, <1>3, <1>4, <1>5, <1>6, ChangesAre, SessionSteps

(* When the storage is done with what it was asked, it holds the sessions the
   application has, unless the last write failed. *)
THEOREM SessionsLastWrite == SessionsSpec => []LastWriteIsTheMap
<1>1. SessionsInit => (running => Saved)
  BY DEF SessionsInit
<1>2. SessionsTypeOK /\ (running => Saved) => LastWriteIsTheMap
  <2> SUFFICES ASSUME SessionsTypeOK, running => Saved PROVE LastWriteIsTheMap
    OBVIOUS
  <2>1. DOMAIN storageQueue = 1..Len(storageQueue)
    BY QueueEntries DEF SessionsTypeOK
  <2>2. QED
    BY <2>1 DEF LastWriteIsTheMap, Saved, Writes
<1>3. QED
  BY <1>1, <1>2, SavedKept, SessionTypeCorrect, PTL DEF SessionsSpec

-----------------------------------------------------------------------------
(* What was decided. *)

Known(key) == IF key = Alien THEN 0 ELSE key
Safe == SessionIds \ exposed

\* Outside the sessions a load or a restart may have set back, the map, what a
\* load has found, every write on its way and the storage itself agree with
\* what was decided, but for changes that a later write still carries.
MapAgrees == \A id \in Safe : sessions[id] = IF running THEN decided[id] ELSE 0
FoundAgrees ==
    loading = "read" => \A id \in Safe :
        IF found[id] = 0 THEN running \/ decided[id] = 0 ELSE Known(found[id]) = decided[id]
WritesAgree ==
    \A i \in Writes : \A id \in Safe :
        (\A j \in (i + 1)..Len(storageQueue) : id \notin storageQueue[j].changed)
        => storageQueue[i].value[id] = decided[id]
DiskAgrees == \A id \in Safe \ unsaved : Known(disk[id]) = decided[id]

DecidedInv == MapAgrees /\ FoundAgrees /\ WritesAgree /\ DiskAgrees

\* A write with the decided sessions, asked for after those on their way.
LEMMA AskedAgrees ==
  ASSUME SessionsTypeOK, NEW ids \in SUBSET SessionIds, WritesAgree,
         AskStorage(Writing(sessions', ids)), Writing(sessions', ids) \in Request,
         \A id \in Safe' : sessions'[id] = decided'[id],
         \A id \in Safe' \ ids : id \in Safe /\ decided'[id] = decided[id]
  PROVE  WritesAgree'
<1> DEFINE n == Len(storageQueue)
<1>1. /\ n \in Nat /\ Len(storageQueue') = n + 1
      /\ storageQueue'[n + 1] = Writing(sessions', ids)
      /\ \A i \in 1..n : storageQueue'[i] = storageQueue[i]
  BY AskedQueue, QueueEntries DEF SessionsTypeOK
<1>2. storageQueue'[n + 1].value = sessions' /\ storageQueue'[n + 1].changed = ids
  BY <1>1 DEF Writing
<1> SUFFICES ASSUME NEW i \in Writes', NEW id \in Safe',
                    \A j \in (i + 1)..(n + 1) : id \notin storageQueue'[j].changed
             PROVE  storageQueue'[i].value[id] = decided'[id]
  BY <1>1 DEF WritesAgree
<1> HIDE DEF n
<1>3. i \in 1..(n + 1)
  BY <1>1 DEF Writes
<1>4. CASE i = n + 1
  BY <1>2, <1>4
<1>5. CASE i \in 1..n
  <2>1. n + 1 \in (i + 1)..(n + 1) /\ (i + 1)..n \subseteq (i + 1)..(n + 1)
        /\ (i + 1)..n \subseteq 1..n
    BY <1>1, <1>5
  <2>2. id \notin ids
    BY <1>2, <2>1
  <2>3. i \in Writes /\ storageQueue'[i] = storageQueue[i]
    BY <1>1, <1>5 DEF Writes, n
  <2>4. \A j \in (i + 1)..n : id \notin storageQueue[j].changed
    BY <1>1, <2>1
  <2>5. storageQueue[i].value[id] = decided[id] /\ decided'[id] = decided[id]
    BY <2>2, <2>3, <2>4 DEF WritesAgree, n
  <2>6. QED
    BY <2>3, <2>5
<1>6. QED
  BY <1>1, <1>3, <1>4, <1>5

\* Serving a request leaves the other writes as they are.
LEMMA PoppedAgrees ==
  ASSUME SessionsTypeOK, WritesAgree, Pop, storageQueue # <<>>,
         decided' = decided, Safe' \subseteq Safe
  PROVE  WritesAgree'
<1>1. /\ Len(storageQueue) \in Nat /\ Len(storageQueue) > 0
      /\ Len(storageQueue') = Len(storageQueue) - 1
      /\ \A i \in 1..Len(storageQueue') : storageQueue'[i] = storageQueue[i + 1]
  BY PoppedQueue, QueueEntries DEF SessionsTypeOK
<1> SUFFICES ASSUME NEW i \in Writes', NEW id \in Safe',
                    \A j \in (i + 1)..Len(storageQueue') : id \notin storageQueue'[j].changed
             PROVE  storageQueue'[i].value[id] = decided[id]
  BY DEF WritesAgree
<1>2. i \in 1..Len(storageQueue') /\ storageQueue'[i] = storageQueue[i + 1]
      /\ storageQueue'[i].kind = "write"
  BY <1>1 DEF Writes
<1>3. i + 1 \in Writes
  BY <1>1, <1>2 DEF Writes
<1>4. ASSUME NEW j \in ((i + 1) + 1)..Len(storageQueue) PROVE id \notin storageQueue[j].changed
  <2>1. j - 1 \in (i + 1)..Len(storageQueue') /\ j - 1 \in 1..Len(storageQueue')
        /\ (j - 1) + 1 = j
    BY <1>1, <1>2
  <2>2. storageQueue'[j - 1] = storageQueue[j]
    BY <1>1, <2>1
  <2>3. QED
    BY <2>1, <2>2
<1>5. QED
  BY <1>2, <1>3, <1>4 DEF WritesAgree

LEMMA ChangeAgrees ==
  ASSUME SessionsTypeOK, DecidedInv, NEW ids \in SUBSET SessionIds, NEW value \in 0..MaxKeys,
         Change(ids, value), keys' \in 0..MaxKeys
  PROVE  DecidedInv'
<1>1. /\ running /\ running' = running /\ unsaved' = unsaved \cup ids
      /\ exposed' = IF loading = "read" THEN exposed \cup ids ELSE exposed \ ids
      /\ UNCHANGED <<disk, loading, found>>
  BY DEF Change, loadVars
<1>2. /\ AskStorage(Writing(sessions', ids)) /\ Writing(sessions', ids) \in Request
      /\ \A id \in SessionIds :
           /\ sessions'[id] = IF id \in ids THEN value ELSE sessions[id]
           /\ decided'[id] = IF id \in ids THEN value ELSE decided[id]
  BY ChangeTypes
<1>3. \A id \in Safe' \ ids : id \in Safe /\ decided'[id] = decided[id]
  BY <1>1, <1>2 DEF Safe
<1>4. \A id \in Safe' : sessions'[id] = decided'[id]
  BY <1>1, <1>2, <1>3 DEF DecidedInv, MapAgrees, Safe
<1>5. loading = "read" => Safe' \cap ids = {}
  BY <1>1 DEF Safe
<1>6. MapAgrees'
  BY <1>1, <1>4 DEF MapAgrees
<1>7. FoundAgrees'
  BY <1>1, <1>3, <1>5 DEF DecidedInv, FoundAgrees, Known
<1>8. WritesAgree'
  BY <1>2, <1>3, <1>4, AskedAgrees DEF DecidedInv
<1>9. DiskAgrees'
  BY <1>1, <1>3 DEF DecidedInv, DiskAgrees, Known
<1>10. QED
  BY <1>6, <1>7, <1>8, <1>9 DEF DecidedInv

LEMMA MergeAgrees ==
  ASSUME SessionsTypeOK, DecidedInv, Merge
  PROVE  DecidedInv'
<1>1. /\ loading = "read" /\ loading' = "idle" /\ running'
      /\ UNCHANGED <<disk, decided, unsaved, exposed>>
  BY DEF Merge, historyVars
<1>2. /\ sessions' = Migrated
      /\ AskStorage(Writing(sessions', {})) /\ Writing(sessions', {}) \in Request
  BY MergeTypes
<1>3. ASSUME NEW id \in Safe PROVE sessions'[id] = decided[id]
  <2>1. id \in SessionIds
    BY DEF Safe
  <2>2. CASE found[id] # 0
    BY <1>1, <1>2, <2>1, <2>2 DEF DecidedInv, FoundAgrees, Known, Migrated
  <2>3. CASE found[id] = 0
    <3>1. sessions[id] = decided[id]
      BY <1>1, <2>3 DEF DecidedInv, FoundAgrees, MapAgrees
    <3>2. decided[id] # Alien
      BY <2>1, MapTypes DEF SessionsTypeOK
    <3>3. QED
      BY <1>2, <2>1, <2>3, <3>1, <3>2 DEF Migrated
  <2>4. QED
    BY <2>2, <2>3
<1>4. Safe' = Safe
  BY <1>1 DEF Safe
<1>5. MapAgrees' /\ FoundAgrees' /\ DiskAgrees'
  BY <1>1, <1>3, <1>4 DEF DecidedInv, MapAgrees, FoundAgrees, DiskAgrees, Known
<1>6. WritesAgree'
  BY <1>1, <1>2, <1>3, <1>4, AskedAgrees DEF DecidedInv
<1>7. QED
  BY <1>5, <1>6 DEF DecidedInv

LEMMA ServedAgrees ==
  ASSUME SessionsTypeOK, DecidedInv, LoadRead \/ ReadFailed \/ Written \/ WriteFailed
  PROVE  DecidedInv'
<1>1. /\ Pop /\ storageQueue # <<>> /\ UNCHANGED <<sessions, running, decided>>
      /\ exposed \subseteq exposed' \/ ReadFailed
  BY DEF LoadRead, ReadFailed, Written, WriteFailed, FirstIs, historyVars
<1>2. exposed \subseteq exposed' /\ Safe' \subseteq Safe
  BY <1>1 DEF ReadFailed, SessionsTypeOK, Safe
<1>3. MapAgrees'
  BY <1>1, <1>2 DEF DecidedInv, MapAgrees
<1>4. WritesAgree'
  BY <1>1, <1>2, PoppedAgrees DEF DecidedInv
<1>5. CASE LoadRead
  <2>1. /\ found' = disk /\ exposed' = exposed \cup unsaved /\ disk' = disk
        /\ unsaved' = unsaved
    BY <1>5 DEF LoadRead
  <2>2. Safe' = Safe \ unsaved
    BY <2>1 DEF Safe
  <2>3. DiskAgrees'
    BY <1>1, <2>1, <2>2 DEF DecidedInv, DiskAgrees, Known
  <2>4. \A id \in Safe' : Known(disk[id]) = decided[id]
    BY <2>2 DEF DecidedInv, DiskAgrees
  <2>5. Known(0) = 0
    BY SessionAssumption DEF Known, Alien
  <2>6. FoundAgrees'
    BY <1>1, <2>1, <2>4, <2>5 DEF FoundAgrees, Known
  <2>7. QED
    BY <1>3, <1>4, <2>3, <2>6 DEF DecidedInv
<1>6. CASE ReadFailed
  <2>1. /\ found' = None /\ exposed' = (IF running THEN exposed ELSE SessionIds)
        /\ UNCHANGED <<disk, unsaved>>
    BY <1>6 DEF ReadFailed
  <2>2. FoundAgrees'
    BY <1>1, <2>1 DEF FoundAgrees, Safe, None
  <2>3. DiskAgrees'
    BY <1>1, <1>2, <2>1 DEF DecidedInv, DiskAgrees, Known
  <2>4. QED
    BY <1>3, <1>4, <2>2, <2>3 DEF DecidedInv
<1>7. CASE Written
  <2>1. /\ Head(storageQueue).kind = "write" /\ disk' = Head(storageQueue).value
        /\ unsaved' = UNION {storageQueue'[i].changed : i \in DOMAIN storageQueue'}
        /\ UNCHANGED <<loading, found, exposed>>
    BY <1>1, <1>7 DEF Written, FirstIs, Pop, loadVars
  <2>2. /\ Head(storageQueue) = storageQueue[1] /\ Len(storageQueue) \in Nat
        /\ Len(storageQueue) > 0 /\ Len(storageQueue') = Len(storageQueue) - 1
        /\ \A i \in 1..Len(storageQueue') : storageQueue'[i] = storageQueue[i + 1]
        /\ DOMAIN storageQueue' = 1..Len(storageQueue')
    BY <1>1, PoppedQueue, QueueEntries DEF SessionsTypeOK
  <2>3. 1 \in Writes
    BY <2>1, <2>2 DEF Writes
  <2>4. ASSUME NEW id \in Safe \ unsaved' PROVE disk'[id] = decided[id]
    <3>1. ASSUME NEW j \in (1 + 1)..Len(storageQueue) PROVE id \notin storageQueue[j].changed
      <4>1. j - 1 \in 1..Len(storageQueue') /\ (j - 1) + 1 = j
        BY <2>2
      <4>2. storageQueue'[j - 1] = storageQueue[j]
        BY <2>2, <4>1
      <4>3. QED
        BY <2>1, <2>2, <2>4, <4>1, <4>2
    <3>2. storageQueue[1].value[id] = decided[id]
      BY <2>3, <3>1 DEF DecidedInv, WritesAgree
    <3>3. QED
      BY <2>1, <2>2, <3>2
  <2>5. \A id \in SessionIds : decided[id] # Alien
    BY MapTypes DEF SessionsTypeOK
  <2>6. Safe' = Safe
    BY <2>1 DEF Safe
  <2>7. DiskAgrees'
    BY <1>1, <2>4, <2>5, <2>6 DEF DiskAgrees, Known, Safe
  <2>8. FoundAgrees'
    BY <1>1, <2>1, <2>6 DEF DecidedInv, FoundAgrees, Known
  <2>9. QED
    BY <1>3, <1>4, <2>7, <2>8 DEF DecidedInv
<1>8. CASE WriteFailed
  <2>1. UNCHANGED <<disk, loading, found, unsaved, exposed>>
    BY <1>8 DEF WriteFailed, loadVars, historyVars
  <2>2. FoundAgrees' /\ DiskAgrees'
    BY <1>1, <2>1 DEF DecidedInv, FoundAgrees, DiskAgrees, Known, Safe
  <2>3. QED
    BY <1>3, <1>4, <2>2 DEF DecidedInv
<1>9. QED
  BY <1>5, <1>6, <1>7, <1>8

LEMMA DecidedKept ==
  SessionsTypeOK /\ DecidedInv /\ [SessionsNext]_sessionVars => DecidedInv'
<1> SUFFICES ASSUME SessionsTypeOK, DecidedInv, [SessionsNext]_sessionVars PROVE DecidedInv'
  OBVIOUS
<1>1. CASE Load
  <2>1. /\ loading' = "asked"
        /\ UNCHANGED <<sessions, disk, running, decided, unsaved, exposed>>
    BY <1>1 DEF Load, historyVars
  <2>2. /\ Len(storageQueue) \in Nat /\ Len(storageQueue') = Len(storageQueue) + 1
        /\ storageQueue'[Len(storageQueue) + 1] = Reading
        /\ \A i \in 1..Len(storageQueue) : storageQueue'[i] = storageQueue[i]
    BY <1>1, LoadTypes, AskedQueue, QueueEntries DEF SessionsTypeOK
  <2>3. Safe' = Safe /\ Writes' = Writes
    BY <2>1, <2>2 DEF Safe, Writes, Reading
  <2>4. ASSUME NEW i \in Writes, NEW id \in Safe,
               \A j \in (i + 1)..Len(storageQueue') : id \notin storageQueue'[j].changed
        PROVE  storageQueue'[i].value[id] = decided[id]
    <3>1. i \in 1..Len(storageQueue)
      BY DEF Writes
    <3>2. \A j \in (i + 1)..Len(storageQueue) : j \in (i + 1)..Len(storageQueue')
                                               /\ storageQueue'[j] = storageQueue[j]
      BY <2>2, <3>1
    <3>3. QED
      BY <2>2, <2>4, <3>1, <3>2 DEF DecidedInv, WritesAgree
  <2>5. WritesAgree'
    BY <2>1, <2>3, <2>4 DEF WritesAgree
  <2>6. QED
    BY <2>1, <2>3, <2>5 DEF DecidedInv, MapAgrees, FoundAgrees, DiskAgrees, Known
<1>2. CASE RestartKit
  <2>1. /\ exposed' = exposed \cup unsaved /\ unsaved' = {} /\ loading' = "asked"
        /\ running' = FALSE /\ sessions' = None /\ UNCHANGED <<disk, decided>>
        /\ storageQueue' = <<Reading>>
    BY <1>2 DEF RestartKit, Reading
  <2>2. Safe' = Safe \ unsaved
    BY <2>1 DEF Safe
  <2>3. Writes' = {}
    BY <2>1 DEF Writes, Reading
  <2>4. QED
    BY <2>1, <2>2, <2>3
       DEF DecidedInv, MapAgrees, FoundAgrees, WritesAgree, DiskAgrees, Known, Safe, None
<1>3. CASE UNCHANGED sessionVars
  <2>1. UNCHANGED <<sessions, disk, storageQueue, loading, found, running, decided, unsaved,
                    exposed>>
    BY <1>3, StoppedTypes
  <2>2. QED
    BY <2>1
       DEF DecidedInv, MapAgrees, FoundAgrees, WritesAgree, DiskAgrees, Known, Safe, Writes
<1>4. QED
  BY <1>1, <1>2, <1>3, ChangesAre, ChangeAgrees, MergeAgrees, ServedAgrees, SessionSteps

(* A session is what was decided of it, unless it changed while a load was
   under way, the write of the change failed or was lost, or the application
   could not read its sessions when it started. *)
THEOREM SessionsDecided == SessionsSpec => []SessionsAsDecided
<1>1. SessionsInit => DecidedInv
  <2> SUFFICES ASSUME SessionsInit PROVE DecidedInv
    OBVIOUS
  <2>1. /\ sessions = None /\ decided = None /\ running = FALSE /\ loading = "asked"
        /\ storageQueue = <<Reading>> /\ disk \in [SessionIds -> {0, Alien}]
    BY DEF SessionsInit, Reading
  <2>2. Writes = {}
    BY <2>1 DEF Writes, Reading
  <2>3. QED
    BY <2>1, <2>2
       DEF DecidedInv, MapAgrees, FoundAgrees, WritesAgree, DiskAgrees, Known, Safe, None
<1>2. DecidedInv => SessionsAsDecided
  BY DEF DecidedInv, MapAgrees, SessionsAsDecided, Safe
<1>3. QED
  BY <1>1, <1>2, DecidedKept, SessionTypeCorrect, PTL DEF SessionsSpec
-----------------------------------------------------------------------------
(* AgenticSetup: types.                                                    *)

LEMMA StatusSet ==
  "absent" \in Status /\ "pending" \in Status /\ "received" \in Status /\ "expired" \in Status
  BY DEF Status

\* A session written to the file leaves a file.
LEMMA WithType ==
  ASSUME SetupTypeOK, NEW s \in Setups, NEW status \in Status
  PROVE  /\ With(s, status).sessions \in [Setups -> Status]
         /\ With(s, status).sessions = [config.sessions EXCEPT ![s] = status]
         /\ With(s, status).drafts = config.drafts
         /\ With(s, status).wallets = config.wallets
         /\ With(s, status) \in [sessions : [Setups -> Status],
                                 drafts : SUBSET Setups, wallets : SUBSET Setups]
  BY DEF SetupTypeOK, With

\* Of what getSession does the proofs need this much.
LEMMA GetSessionWrites ==
  ASSUME SetupTypeOK, GetSession
  PROVE  /\ setupSessions' = config.sessions
         /\ \/ config' = config
            \/ \E s \in Setups : setupSessions[s] = "pending" /\ config' = With(s, "expired")
  BY DEF SetupTypeOK, GetSession, Resync, Expiring

\* And of the end of a draft: the other setups keep their sessions.
LEMMA DropDraftWrites ==
  ASSUME SetupTypeOK, NEW s \in Setups, NEW wallets \in SUBSET Setups,
         NEW ended \in SUBSET Setups, DropDraft(s, wallets, ended)
  PROVE  /\ config'.sessions \in [Setups -> Status]
         /\ \A t \in Setups \ {s} : config'.sessions[t] = config.sessions[t]
         /\ config'.drafts = config.drafts \ {s}
         /\ config' \in [sessions : [Setups -> Status],
                         drafts : SUBSET Setups, wallets : SUBSET Setups]
         /\ s \in starting' => config'.sessions[s] = "absent"
         /\ setupSessions' = config.sessions
         /\ starting' \subseteq starting /\ posting' \subseteq posting
         /\ completing' \subseteq completing
         /\ UNCHANGED <<overdue, begun, answered>>
<1> DEFINE dropped == [config EXCEPT !.drafts = @ \ {s}, !.wallets = wallets]
           cleared == [dropped EXCEPT !.sessions[s] = "absent"]
<1>1. /\ dropped.sessions = config.sessions
      /\ dropped.drafts = config.drafts \ {s}
      /\ dropped \in [sessions : [Setups -> Status],
                      drafts : SUBSET Setups, wallets : SUBSET Setups]
  BY DEF SetupTypeOK
<1>2. /\ cleared.sessions = [config.sessions EXCEPT ![s] = "absent"]
      /\ cleared.drafts = config.drafts \ {s}
      /\ cleared \in [sessions : [Setups -> Status],
                      drafts : SUBSET Setups, wallets : SUBSET Setups]
  <2> HIDE DEF dropped
  <2>1. QED
    BY <1>1, StatusSet
<1>3. \/ /\ config' = cleared /\ Resync
         /\ completing' = completing \ ended /\ UNCHANGED <<starting, posting>>
      \/ config' = dropped /\ Restarted
  BY DEF DropDraft
<1>4. config' = cleared \/ config' = dropped
  BY <1>3
<1>4a. s \in starting' => config'.sessions[s] = "absent"
  <2>1. config.sessions \in [Setups -> Status]
    BY DEF SetupTypeOK
  <2> HIDE DEF dropped, cleared
  <2>2. QED
    BY <1>2, <1>3, <2>1 DEF Restarted
<1>5. /\ setupSessions' = config.sessions
      /\ starting' \subseteq starting /\ posting' \subseteq posting
      /\ completing' \subseteq completing
  BY <1>3 DEF Restarted, Resync
<1>6. /\ config'.sessions \in [Setups -> Status]
      /\ \A t \in Setups \ {s} : config'.sessions[t] = config.sessions[t]
      /\ config'.drafts = config.drafts \ {s}
      /\ config' \in [sessions : [Setups -> Status],
                      drafts : SUBSET Setups, wallets : SUBSET Setups]
  <2>1. config.sessions \in [Setups -> Status]
    BY DEF SetupTypeOK
  <2> HIDE DEF dropped, cleared
  <2>2. CASE config' = cleared
    BY <1>2, <2>1, <2>2, StatusSet
  <2>3. CASE config' = dropped
    BY <1>1, <2>1, <2>3
  <2>4. QED
    BY <1>4, <2>2, <2>3
<1>7. UNCHANGED <<overdue, begun, answered>>
  BY DEF DropDraft, setupHistory
<1>8. QED
  BY <1>4a, <1>5, <1>6, <1>7

LEMMA SetupTypeKept == SetupTypeOK /\ [SetupNext]_setupVars => SetupTypeOK'
<1> SUFFICES ASSUME SetupTypeOK, [SetupNext]_setupVars PROVE SetupTypeOK'
  OBVIOUS
<1>0. ASSUME GetSession PROVE /\ setupSessions' \in [Setups -> Status]
                               /\ config' \in [sessions : [Setups -> Status],
                                               drafts : SUBSET Setups, wallets : SUBSET Setups]
  <2>1. CASE config' = config
    BY <1>0, <2>1, GetSessionWrites DEF SetupTypeOK
  <2>2. CASE \E s \in Setups : setupSessions[s] = "pending" /\ config' = With(s, "expired")
    <3>1. PICK s \in Setups : config' = With(s, "expired")
      BY <2>2
    <3>2. QED
      BY <1>0, <3>1, WithType, StatusSet, GetSessionWrites DEF SetupTypeOK
  <2>3. QED
    BY <1>0, <2>1, <2>2, GetSessionWrites
<1>1. CASE Look
  BY <1>0, <1>1 DEF Look, SetupTypeOK, setupCalls, setupHistory
<1>2. CASE SetupRestart
  BY <1>2 DEF SetupRestart, Restarted, Resync, SetupTypeOK, setupHistory
<1>3. ASSUME NEW s \in Setups, Draft(s) PROVE SetupTypeOK'
  BY <1>3 DEF Draft, SetupTypeOK
<1>4. ASSUME NEW s \in Setups, CreateSetupSession(s) PROVE SetupTypeOK'
  BY <1>4, WithType, StatusSet DEF CreateSetupSession, Resync, SetupTypeOK, setupHistory
<1>5. ASSUME NEW s \in Setups, Callback(s) PROVE SetupTypeOK'
  BY <1>5 DEF Callback, Resync, SetupTypeOK, setupHistory
<1>6. ASSUME NEW s \in Setups, Body(s) PROVE SetupTypeOK'
  <2>1. CASE UNCHANGED <<config, setupSessions, answered>>
    BY <1>6, <2>1 DEF Body, SetupTypeOK
  <2>2. CASE /\ config' = With(s, "received")
             /\ setupSessions' = [setupSessions EXCEPT ![s] = "received"]
             /\ answered' = answered \cup {s}
    <3>1. config' \in [sessions : [Setups -> Status],
                       drafts : SUBSET Setups, wallets : SUBSET Setups]
      BY <2>2, WithType, StatusSet
    <3>2. setupSessions' \in [Setups -> Status]
      BY <2>2, StatusSet DEF SetupTypeOK
    <3>3. QED
      BY <1>6, <2>2, <3>1, <3>2 DEF Body, SetupTypeOK
  <2>3. QED
    BY <1>6, <2>1, <2>2 DEF Body
<1>7. ASSUME NEW s \in Setups, Complete(s) PROVE SetupTypeOK'
  BY <1>0, <1>7 DEF Complete, SetupTypeOK, setupHistory
<1>8. ASSUME NEW s \in Setups, NEW wallets \in SUBSET Setups, NEW ended \in SUBSET Setups,
             DropDraft(s, wallets, ended)
      PROVE  SetupTypeOK'
  <2>1. setupSessions' \in [Setups -> Status]
    BY <1>8, DropDraftWrites DEF SetupTypeOK
  <2>2. QED
    BY <1>8, <2>1, DropDraftWrites DEF SetupTypeOK
<1>9. ASSUME NEW s \in Setups, Validated(s) PROVE SetupTypeOK'
  <2>1. config.wallets \cup {s} \in SUBSET Setups
    BY DEF SetupTypeOK
  <2>2. CASE DropDraft(s, config.wallets \cup {s}, {s})
    BY <1>8, <2>1, <2>2
  <2>3. CASE completing' = completing \ {s}
             /\ UNCHANGED <<config, setupSessions, overdue, starting, posting, setupHistory>>
    BY <2>3 DEF SetupTypeOK, setupHistory
  <2>4. QED
    BY <1>9, <2>2, <2>3 DEF Validated
<1>10. ASSUME NEW s \in Setups, Cancel(s) PROVE SetupTypeOK'
  <2>1. config.wallets \in SUBSET Setups
    BY DEF SetupTypeOK
  <2>2. QED
    BY <1>8, <1>10, <2>1 DEF Cancel
<1>11. ASSUME NEW s \in Setups, TimePasses(s) PROVE SetupTypeOK'
  BY <1>11 DEF TimePasses, SetupTypeOK, setupCalls, setupHistory
<1>12. CASE UNCHANGED setupVars
  BY <1>12 DEF setupVars, setupCalls, setupHistory, SetupTypeOK
<1>13. QED
  BY <1>1, <1>2, <1>3, <1>4, <1>5, <1>6, <1>7, <1>9, <1>10, <1>11, <1>12 DEF SetupNext

(* The variables keep their types. *)
THEOREM SetupTypeCorrect == SetupSpec => []SetupTypeOK
<1>1. SetupInit => SetupTypeOK
  BY StatusSet DEF SetupInit, Absent, SetupTypeOK
<1>2. QED
  BY <1>1, SetupTypeKept, PTL DEF SetupSpec

-----------------------------------------------------------------------------
(* A setup that waits for its first session has none yet, in the file or in the
   copy, and no callback was let in for it: createSession overwrites nothing. *)
StartsEmpty ==
    \A s \in starting : s \notin posting /\ s \notin answered
                        /\ config.sessions[s] = "absent" /\ setupSessions[s] = "absent"

\* An identifier that was never given out is nowhere.
FreshIsNowhere ==
    \A s \in Setups \ begun : s \notin posting /\ s \notin answered /\ s \notin overdue
                              /\ s \notin starting /\ s \notin config.drafts
                              /\ config.sessions[s] = "absent" /\ setupSessions[s] = "absent"

CallbackInv == StartsEmpty /\ FreshIsNowhere /\ CallbackIsKept

LEMMA CallbackKept == SetupTypeOK /\ CallbackInv /\ [SetupNext]_setupVars => CallbackInv'
<1> SUFFICES ASSUME SetupTypeOK, CallbackInv, [SetupNext]_setupVars PROVE CallbackInv'
  OBVIOUS
<1> USE DEF CallbackInv, StartsEmpty, FreshIsNowhere, CallbackIsKept
\* The marks are of sessions the copy has as pending: of no answered setup.
<1>0. ASSUME GetSession, UNCHANGED <<overdue, starting, posting, begun, answered>>
      PROVE  CallbackInv'
  <2>1. CASE config' = config
    BY <1>0, <2>1, GetSessionWrites DEF SetupTypeOK
  <2>2. CASE \E s \in Setups : setupSessions[s] = "pending" /\ config' = With(s, "expired")
    <3>1. PICK s \in Setups : setupSessions[s] = "pending" /\ config' = With(s, "expired")
      BY <2>2
    <3>2. /\ config'.sessions = [config.sessions EXCEPT ![s] = "expired"]
          /\ config'.drafts = config.drafts
          /\ setupSessions' = config.sessions
      BY <1>0, <3>1, WithType, StatusSet, GetSessionWrites
    <3>3. s \notin starting /\ s \in begun /\ s \notin answered \cap config.drafts
      BY <3>1
    <3>4. QED
      BY <1>0, <3>2, <3>3 DEF SetupTypeOK
  <2>3. QED
    BY <1>0, <2>1, <2>2, GetSessionWrites
<1>1. CASE Look
  BY <1>0, <1>1 DEF Look, setupCalls, setupHistory
<1>2. CASE SetupRestart
  BY <1>2 DEF SetupRestart, Restarted, Resync, SetupTypeOK, setupHistory
<1>3. ASSUME NEW s \in Setups, Draft(s) PROVE CallbackInv'
  BY <1>3 DEF Draft, SetupTypeOK
<1>4. ASSUME NEW s \in Setups, CreateSetupSession(s) PROVE CallbackInv'
  <2>1. /\ config'.sessions = [config.sessions EXCEPT ![s] = "pending"]
        /\ config'.drafts = config.drafts
    BY <1>4, WithType, StatusSet DEF CreateSetupSession
  <2>2. QED
    BY <1>4, <2>1 DEF CreateSetupSession, Resync, SetupTypeOK, setupHistory
<1>5. ASSUME NEW s \in Setups, Callback(s) PROVE CallbackInv'
  BY <1>5 DEF Callback, Resync, SetupTypeOK, setupHistory
<1>6. ASSUME NEW s \in Setups, Body(s) PROVE CallbackInv'
  <2>1. CASE UNCHANGED <<config, setupSessions, answered>>
    BY <1>6, <2>1 DEF Body, SetupTypeOK
  <2>2. CASE /\ config' = With(s, "received")
             /\ setupSessions' = [setupSessions EXCEPT ![s] = "received"]
             /\ answered' = answered \cup {s}
    <3>1. /\ config'.sessions = [config.sessions EXCEPT ![s] = "received"]
          /\ config'.drafts = config.drafts
      BY <2>2, WithType, StatusSet
    <3>2. s \in posting /\ s \notin starting /\ s \in begun
      BY <1>6 DEF Body
    <3>3. QED
      BY <1>6, <2>2, <3>1, <3>2 DEF Body, SetupTypeOK
  <2>3. QED
    BY <1>6, <2>1, <2>2 DEF Body
<1>7. ASSUME NEW s \in Setups, Complete(s) PROVE CallbackInv'
  BY <1>0, <1>7 DEF Complete, setupHistory
<1>8. ASSUME NEW s \in begun, NEW wallets \in SUBSET Setups, NEW ended \in SUBSET Setups,
             DropDraft(s, wallets, ended)
      PROVE  CallbackInv'
  <2>1. s \in Setups
    BY DEF SetupTypeOK
  <2>2. /\ \A t \in Setups \ {s} : config'.sessions[t] = config.sessions[t]
        /\ config'.drafts = config.drafts \ {s}
        /\ s \in starting' => config'.sessions[s] = "absent"
        /\ setupSessions' = config.sessions
        /\ starting' \subseteq starting /\ posting' \subseteq posting
        /\ overdue' = overdue /\ begun' = begun /\ answered' = answered
    BY <1>8, <2>1, DropDraftWrites
  <2>3. StartsEmpty' /\ FreshIsNowhere'
    BY <2>1, <2>2 DEF SetupTypeOK
  <2>4. CallbackIsKept'
    BY <2>1, <2>2 DEF SetupTypeOK
  <2>5. QED
    BY <2>3, <2>4
<1>9. ASSUME NEW s \in Setups, Validated(s) PROVE CallbackInv'
  <2>1. CASE s \in config.drafts /\ DropDraft(s, config.wallets \cup {s}, {s})
    <3>1. s \in begun /\ config.wallets \cup {s} \in SUBSET Setups /\ {s} \in SUBSET Setups
      BY <2>1 DEF SetupTypeOK
    <3>2. QED
      BY <1>8, <2>1, <3>1
  <2>2. CASE completing' = completing \ {s}
             /\ UNCHANGED <<config, setupSessions, overdue, starting, posting, setupHistory>>
    BY <2>2 DEF SetupTypeOK, setupHistory
  <2>3. QED
    BY <1>9, <2>1, <2>2 DEF Validated
<1>10. ASSUME NEW s \in Setups, Cancel(s) PROVE CallbackInv'
  <2>1. s \in begun /\ config.wallets \in SUBSET Setups
    BY <1>10 DEF Cancel, SetupTypeOK
  <2>2. QED
    BY <1>8, <1>10, <2>1 DEF Cancel
<1>11. ASSUME NEW s \in Setups, TimePasses(s) PROVE CallbackInv'
  BY <1>11 DEF TimePasses, SetupTypeOK, setupCalls, setupHistory
<1>12. CASE UNCHANGED setupVars
  BY <1>12 DEF setupVars, setupCalls, setupHistory
<1>13. QED
  BY <1>1, <1>2, <1>3, <1>4, <1>5, <1>6, <1>7, <1>9, <1>10, <1>11, <1>12 DEF SetupNext

(* However many setups share the file, and whenever they expire: a callback that
   was answered with success is in the file and in the copy as long as the
   setup has its draft. *)
THEOREM SetupKeepsCallback == SetupSpec => []CallbackIsKept
<1>1. SetupInit => CallbackInv
  BY DEF SetupInit, Absent, CallbackInv, StartsEmpty, FreshIsNowhere, CallbackIsKept
<1>2. CallbackInv => CallbackIsKept
  BY DEF CallbackInv
<1>3. QED
  BY <1>1, <1>2, CallbackKept, SetupTypeCorrect, PTL DEF SetupSpec

-----------------------------------------------------------------------------
(* The parts side by side. *)

\* A behaviour of the five parts side by side is a behaviour of each of them:
\* what is proved of a part holds of the composition, whatever the others do.
THEOREM KitRunsItsParts ==
  KitSpec => RequestsSpec /\ SessionsSpec /\ StreamingSpec /\ FeedSpec /\ SetupSpec
<1>1. KitInit => RequestsInit /\ SessionsInit /\ StreamingInit /\ FeedInit /\ SetupInit
  BY DEF KitInit
<1>2. [KitNext]_<<part, requestVars, sessionVars, streamingVars, feedVars, setupVars>>
      => /\ [RequestsNext]_requestVars /\ [SessionsNext]_sessionVars
         /\ [StreamingNext]_streamingVars /\ [FeedNext]_feedVars /\ [SetupNext]_setupVars
  BY DEF KitNext
<1>3. QED
  BY <1>1, <1>2, PTL
     DEF KitSpec, RequestsSpec, SessionsSpec, StreamingSpec, FeedSpec, SetupSpec

\* The variables of all five parts keep their types, and the queue and the cache
\* their maximum sizes.
THEOREM KitTypeCorrect == KitSpec => []KitTypeOK
  BY KitRunsItsParts, RequestsTypeCorrect, SessionTypeCorrect, StreamingTypeCorrect,
     FeedTypeCorrect, SetupTypeCorrect, PTL DEF KitTypeOK
=============================================================================
