-------------------------- MODULE EventStoreProofs --------------------------
(***************************************************************************)
(* Proofs about EventStore.  The lemmas are stated for one call, one       *)
(* storage step and one crash, so that EventProcessor's proofs cite them.  *)
(***************************************************************************)
EXTENDS EventStore, TLAPS

LEMMA RecordTypes == Absent \in Record /\ NewEvent \in Record /\ EmptyDoc \in Doc
                     /\ NoOp \in Operation
  BY DEF Absent, NewEvent, EmptyDoc, Doc, Record, Status, NoOp, Remove, Operation, Kinds

\* What an operation leaves for an event is a stored event.
LEMMA ChangedType ==
  ASSUME NEW o \in Operation, NEW r \in Record
  PROVE  Changed(o, r) \in Record
<1>1. CASE o.kind = "save"
  BY <1>1 DEF Changed, Operation
<1>2. CASE o.kind = "acquire"
  BY <1>2 DEF Changed, Record, Status
<1>3. CASE o.kind = "release"
  BY <1>3 DEF Changed, Record, Status
<1>4. CASE o.kind \in {"complete", "requeue"}
  BY <1>4 DEF Changed, Record, Status
<1>5. CASE o.kind = "error"
  BY <1>5 DEF Changed, Record, Status
<1>6. CASE o.kind = "remove"
  BY <1>6, RecordTypes DEF Changed
<1>7. QED
  BY <1>1, <1>2, <1>3, <1>4, <1>5, <1>6 DEF Operation, Kinds

LEMMA ApplyType ==
  ASSUME NEW o \in Operation, NEW d \in Doc
  PROVE  Apply(o, d) \in Doc
  BY ChangedType DEF Apply, Doc
-----------------------------------------------------------------------------
(* Type correctness. *)

\* The variables a settling operation assigns keep their types.
LEMMA SettleType ==
  ASSUME StoreTypeOK, NEW c \in Callers, NEW r \in {"ok", "failed"}, Settle(c, r)
  PROVE  /\ lock' \in Callers \cup {NoCaller}
         /\ phase' \in [Callers -> Phase]
         /\ op' \in [Callers -> Operation]
         /\ snap' \in [Callers -> Doc]
         /\ waitOn' \in [Callers -> Callers \cup {NoCaller}]
         /\ result' \in [Callers -> {"none", "ok", "failed"}]
<1>1. lock' \in Callers \cup {NoCaller}
  BY DEF Settle, NextHolder, Awaiting
<1>2. phase' \in [Callers -> Phase]
  BY DEF Settle, StoreTypeOK, Phase
<1>3. waitOn' \in [Callers -> Callers \cup {NoCaller}]
  BY DEF Settle, StoreTypeOK
<1>4. QED
  BY <1>1, <1>2, <1>3, RecordTypes DEF Settle, StoreTypeOK

LEMMA StartType ==
  ASSUME StoreTypeOK, NEW c \in Callers, NEW o \in Operation, Start(c, o)
  PROVE  StoreTypeOK'
  BY StoreAssumption DEF StoreTypeOK, Start, Enter, Phase

LEMMA ReadAsType ==
  ASSUME StoreTypeOK, NEW c \in Callers, NEW d \in Doc, ReadAs(c, d)
  PROVE  /\ stored' \in Doc
         /\ lock' \in Callers \cup {NoCaller}
         /\ phase' \in [Callers -> Phase]
         /\ op' \in [Callers -> Operation]
         /\ snap' \in [Callers -> Doc]
         /\ waitOn' \in [Callers -> Callers \cup {NoCaller}]
         /\ result' \in [Callers -> {"none", "ok", "failed"}]
         /\ crashes' \in 0..MaxCrashes
<1>1. CASE Accepts(op[c], d)
  BY <1>1 DEF ReadAs, StoreTypeOK, Phase
<1>2. CASE ~Accepts(op[c], d)
  <2>1. Settle(c, "failed")
    BY <1>2 DEF ReadAs
  <2>2. QED
    BY <2>1, SettleType DEF ReadAs, StoreTypeOK
<1>3. QED
  BY <1>1, <1>2

LEMMA StepType ==
  ASSUME StoreTypeOK, NEW c \in Callers, StoreStep(c)
  PROVE  StoreTypeOK'
<1>1. CASE Read(c)
  <2>1. ReadAs(c, stored) /\ stored \in Doc
    BY <1>1 DEF Read, StoreTypeOK
  <2>2. QED
    BY <2>1, <1>1, ReadAsType DEF Read, StoreTypeOK
<1>2. CASE ReadFault(c)
  <2>1. ReadAs(c, EmptyDoc) /\ EmptyDoc \in Doc
    BY <1>2, RecordTypes DEF ReadFault
  <2>2. faults' \in 0..MaxFaults
    BY <1>2, StoreAssumption DEF ReadFault, StoreTypeOK
  <2>3. QED
    BY <2>1, <2>2, ReadAsType DEF StoreTypeOK
<1>3. CASE Write(c)
  <2>1. stored' \in Doc
    BY <1>3, ApplyType DEF Write, StoreTypeOK
  <2>2. Settle(c, "ok")
    BY <1>3 DEF Write
  <2>3. QED
    BY <1>3, <2>1, <2>2, SettleType DEF Write, StoreTypeOK
<1>4. CASE WriteFault(c)
  <2>1. Settle(c, "failed")
    BY <1>4 DEF WriteFault
  <2>2. faults' \in 0..MaxFaults
    BY <1>4, StoreAssumption DEF WriteFault, StoreTypeOK
  <2>3. QED
    BY <1>4, <2>1, <2>2, SettleType DEF WriteFault, StoreTypeOK
<1>5. QED
  BY <1>1, <1>2, <1>3, <1>4 DEF StoreStep

LEMMA CrashType ==
  ASSUME StoreTypeOK, StoreCrash
  PROVE  StoreTypeOK'
  BY RecordTypes, StoreAssumption DEF StoreTypeOK, StoreCrash, Phase

LEMMA InitType == StoreInit => StoreTypeOK
  BY RecordTypes, StoreAssumption DEF StoreInit, StoreTypeOK, Phase

LEMMA InvokeStarts ==
  ASSUME NEW c \in Callers, Invoke(c)
  PROVE  \E o \in Ops : o \in Operation /\ Start(c, o)
  BY StoreAssumption DEF Invoke

\* Every variable of the store keeps its type, for any number of callers and
\* events, faults and crashes included.
THEOREM StoreTypeCorrect == StoreSpec => []StoreTypeOK
<1>1. ASSUME StoreTypeOK, [StoreNext]_storeVars
      PROVE  StoreTypeOK'
  <2>1. CASE \E c \in Callers : Invoke(c)
    BY <1>1, <2>1, InvokeStarts, StartType
  <2>2. CASE \E c \in Callers : StoreStep(c)
    BY <1>1, <2>2, StepType
  <2>3. CASE StoreCrash
    BY <1>1, <2>3, CrashType
  <2>4. CASE UNCHANGED storeVars
    BY <1>1, <2>4 DEF StoreTypeOK, storeVars, callVars
  <2>5. QED
    BY <1>1, <2>1, <2>2, <2>3, <2>4 DEF StoreNext
<1>2. QED
  BY InitType, <1>1, PTL DEF StoreSpec
-----------------------------------------------------------------------------
(* Nobody waits for an operation that has settled. *)

\* NoOrphanedWaiter with the domain spelled out: what is awaited is a caller.
WaitInv ==
    /\ lock # NoCaller => Running(lock)
    /\ \A c \in Callers : phase[c] = "waiting" =>
          waitOn[c] \in Callers /\ Running(waitOn[c])

LEMMA StartWait ==
  ASSUME StoreTypeOK, WaitInv, NEW c \in Callers, NEW o, Start(c, o)
  PROVE  WaitInv'
  BY StoreAssumption DEF WaitInv, Running, Start, Enter, StoreTypeOK, Phase

LEMMA SettleWait ==
  ASSUME StoreTypeOK, WaitInv, NEW c \in Callers, NEW r, Settle(c, r), Running(c)
  PROVE  WaitInv'
<1>1. lock' # NoCaller => Running(lock)'
  BY DEF Settle, NextHolder, Awaiting, Running, StoreTypeOK
<1>2. ASSUME NEW d \in Callers, phase'[d] = "waiting"
      PROVE  waitOn'[d] \in Callers /\ Running(waitOn[d])'
  <2>1. phase[d] = "waiting" /\ waitOn[d] # c /\ waitOn'[d] = waitOn[d]
    BY <1>2 DEF Settle, Awaiting, StoreTypeOK
  <2>2. waitOn[d] \in Callers /\ Running(waitOn[d])
    BY <2>1 DEF WaitInv
  <2>3. QED
    BY <2>1, <2>2 DEF Settle, Running, Awaiting, StoreTypeOK
<1>3. QED
  BY <1>1, <1>2 DEF WaitInv

LEMMA StepWait ==
  ASSUME StoreTypeOK, WaitInv, NEW c \in Callers, StoreStep(c)
  PROVE  WaitInv'
<1>1. Running(c)
  BY DEF StoreStep, Read, ReadFault, ReadAs, Write, WriteFault, Running
<1>2. ASSUME NEW d, ReadAs(c, d)
      PROVE  WaitInv'
  <2>1. CASE Accepts(op[c], d)
    BY <1>2, <2>1 DEF ReadAs, WaitInv, Running, StoreTypeOK
  <2>2. CASE ~Accepts(op[c], d)
    BY <1>1, <1>2, <2>2, SettleWait DEF ReadAs
  <2>3. QED
    BY <2>1, <2>2
<1>3. QED
  BY <1>1, <1>2, SettleWait DEF StoreStep, Read, ReadFault, Write, WriteFault

LEMMA CrashWait ==
  ASSUME StoreCrash
  PROVE  WaitInv'
  BY DEF StoreCrash, WaitInv

\* However many callers there are, and although a settling operation deletes
\* whatever entry operationLock has, an awaited operation is one in flight.
THEOREM WaitersAreServed == StoreSpec => []NoOrphanedWaiter
<1>1. StoreInit => WaitInv
  BY DEF StoreInit, WaitInv
<1>2. ASSUME StoreTypeOK, WaitInv, [StoreNext]_storeVars
      PROVE  WaitInv'
  <2>1. CASE \E c \in Callers : Invoke(c)
    BY <1>2, <2>1, InvokeStarts, StartWait
  <2>2. CASE \E c \in Callers : StoreStep(c)
    BY <1>2, <2>2, StepWait
  <2>3. CASE StoreCrash
    BY <1>2, <2>3, CrashWait
  <2>4. CASE UNCHANGED storeVars
    BY <1>2, <2>4 DEF WaitInv, Running, storeVars, callVars
  <2>5. QED
    BY <1>2, <2>1, <2>2, <2>3, <2>4 DEF StoreNext
<1>3. WaitInv => NoOrphanedWaiter
  BY DEF WaitInv, NoOrphanedWaiter
<1>4. QED
  BY <1>1, <1>2, <1>3, StoreTypeCorrect, PTL DEF StoreSpec
-----------------------------------------------------------------------------
(***************************************************************************)
(* With two callers withLock is a lock.  A caller that finds an operation  *)
(* in flight is then the only one awaiting it, so the entry it overwrites  *)
(* when it resumes is nobody's.  A third caller breaks SavesAreAtomic.     *)
(***************************************************************************)
TwoCallers == \A a, b, c \in Callers : a = b \/ b = c \/ a = c

\* The inductive invariant: the entry of operationLock is the running
\* caller's, and what a caller will write was read from the document as it
\* still is, by an operation whose checks passed.
PairInv ==
    /\ \A c \in Callers : Running(c) => lock = c
    /\ \A c \in Callers : phase[c] = "writing" => Accepts(op[c], snap[c])
    /\ SavesAreAtomic

LEMMA StartPair ==
  ASSUME StoreTypeOK, PairInv, NEW c \in Callers, NEW o \in Operation, Start(c, o)
  PROVE  PairInv'
<1>1. ASSUME NEW d \in Callers, Running(d)'
      PROVE  lock' = d
  BY <1>1, StoreAssumption DEF PairInv, Running, Start, Enter, StoreTypeOK
<1>2. ASSUME NEW d \in Callers, phase'[d] = "writing"
      PROVE  phase[d] = "writing" /\ op'[d] = op[d] /\ snap'[d] = snap[d]
  BY <1>2 DEF Start, Enter, StoreTypeOK
<1>3. QED
  BY <1>1, <1>2 DEF PairInv, SavesAreAtomic, Start

\* When the running caller settles, at most one caller runs afterwards, and
\* it has not read yet.
LEMMA SettlePair ==
  ASSUME TwoCallers, StoreTypeOK, PairInv,
         NEW c \in Callers, NEW r, Running(c), Settle(c, r)
  PROVE  /\ \A d \in Callers : Running(d)' => lock' = d
         /\ \A d \in Callers : phase'[d] # "writing"
<1>1. \A d \in Callers : Running(d) => d = c
  BY DEF PairInv
<1>2. \A d \in Callers : Running(d)' => d \in Awaiting(c) /\ phase'[d] = "reading"
  BY <1>1 DEF Settle, Awaiting, Running, StoreTypeOK
<1>3. c \notin Awaiting(c)
  BY DEF Awaiting, Running
<1>4. \A d \in Callers : Running(d)' => lock' = d
  BY <1>2, <1>3 DEF TwoCallers, Settle, NextHolder, Awaiting
<1>5. QED
  BY <1>2, <1>4 DEF Running

LEMMA StepPair ==
  ASSUME TwoCallers, StoreTypeOK, PairInv, NEW c \in Callers, StoreStep(c)
  PROVE  PairInv'
<1>1. Running(c)
  BY DEF StoreStep, Read, ReadFault, ReadAs, Write, WriteFault, Running
<1>2. \A d \in Callers : Running(d) => d = c
  BY <1>1 DEF PairInv
<1>3. ASSUME NEW r, Settle(c, r)
      PROVE  PairInv'
  BY <1>1, <1>3, SettlePair DEF PairInv, SavesAreAtomic
<1>4. ASSUME NEW d, ReadAs(c, d), Accepts(op[c], d),
             d = stored \/ (faults' > 0 /\ d = EmptyDoc)
      PROVE  PairInv'
  <2>1. /\ phase' = [phase EXCEPT ![c] = "writing"]
        /\ snap' = [snap EXCEPT ![c] = d]
        /\ UNCHANGED <<stored, lock, op>>
    BY <1>4 DEF ReadAs
  <2>2. \A x \in Callers : Running(x)' => x = c
    BY <1>2, <2>1 DEF Running, StoreTypeOK
  <2>3. lock' = c
    BY <1>1, <2>1 DEF PairInv
  <2>4. op'[c] = op[c] /\ snap'[c] = d /\ stored' = stored
    BY <2>1 DEF StoreTypeOK
  <2>5. QED
    BY <1>4, <2>2, <2>3, <2>4 DEF PairInv, SavesAreAtomic, Running
<1>5. CASE Read(c)
  BY <1>3, <1>4, <1>5 DEF Read, ReadAs
<1>6. CASE ReadFault(c)
  <2>1. faults' > 0
    BY <1>6 DEF ReadFault, StoreTypeOK
  <2>2. QED
    BY <1>3, <1>4, <1>6, <2>1 DEF ReadFault, ReadAs
<1>7. CASE Write(c) \/ WriteFault(c)
  BY <1>3, <1>7 DEF Write, WriteFault
<1>8. QED
  BY <1>5, <1>6, <1>7 DEF StoreStep

LEMMA CrashPair ==
  ASSUME StoreCrash
  PROVE  PairInv'
  BY DEF StoreCrash, PairInv, SavesAreAtomic, Running

LEMMA InitPair == StoreInit => PairInv
  BY DEF StoreInit, PairInv, SavesAreAtomic, Running

LEMMA PairCorrect == TwoCallers => (StoreSpec => []PairInv)
<1>1. ASSUME TwoCallers, StoreTypeOK, PairInv, [StoreNext]_storeVars
      PROVE  PairInv'
  <2>1. CASE \E c \in Callers : Invoke(c)
    BY <1>1, <2>1, InvokeStarts, StartPair
  <2>2. CASE \E c \in Callers : StoreStep(c)
    BY <1>1, <2>2, StepPair
  <2>3. CASE StoreCrash
    BY <1>1, <2>3, CrashPair
  <2>4. CASE UNCHANGED storeVars
    BY <1>1, <2>4 DEF PairInv, SavesAreAtomic, Running, storeVars, callVars
  <2>5. QED
    BY <1>1, <2>1, <2>2, <2>3, <2>4 DEF StoreNext
<1>2. SUFFICES ASSUME TwoCallers PROVE StoreSpec => []PairInv
  OBVIOUS
<1>3. StoreTypeOK /\ PairInv /\ [StoreNext]_storeVars => PairInv'
  BY <1>1, <1>2
<1>4. QED
  BY InitPair, <1>3, StoreTypeCorrect, PTL DEF StoreSpec

\* Two callers never overwrite each other's saves, for any document, any mix
\* of calls, crashes and storage faults.
THEOREM TwoCallersSaveAtomically == TwoCallers => (StoreSpec => []SavesAreAtomic)
<1>1. PairInv => SavesAreAtomic
  BY DEF PairInv
<1>2. SUFFICES ASSUME TwoCallers PROVE StoreSpec => []SavesAreAtomic
  OBVIOUS
<1>3. StoreSpec => []PairInv
  BY <1>2, PairCorrect
<1>4. QED
  BY <1>1, <1>3, PTL
-----------------------------------------------------------------------------
(* With two callers the store implements AtomicStore. *)

\* What is in flight is a call the environment made.
OpsInv == \A c \in Callers : phase[c] # "idle" => op[c] \in Ops

LEMMA SettleOps ==
  ASSUME StoreTypeOK, OpsInv, NEW c \in Callers, NEW r, Settle(c, r)
  PROVE  OpsInv'
  BY DEF OpsInv, Settle, Awaiting, StoreTypeOK

LEMMA StepOps ==
  ASSUME StoreTypeOK, OpsInv, NEW c \in Callers, StoreStep(c)
  PROVE  OpsInv'
<1>1. ASSUME NEW d, ReadAs(c, d)
      PROVE  OpsInv'
  <2>1. CASE Accepts(op[c], d)
    BY <1>1, <2>1 DEF ReadAs, OpsInv, StoreTypeOK
  <2>2. CASE ~Accepts(op[c], d)
    BY <1>1, <2>2, SettleOps DEF ReadAs
  <2>3. QED
    BY <2>1, <2>2
<1>2. QED
  BY <1>1, SettleOps DEF StoreStep, Read, ReadFault, Write, WriteFault

\* AtomicStore's instance of EventDoc is this module's.
LEMMA SameOperations ==
  ASSUME NEW o, NEW d
  PROVE  /\ Atomic!EmptyDoc = EmptyDoc
         /\ Atomic!Accepts(o, d) <=> Accepts(o, d)
         /\ Atomic!Apply(o, d) = Apply(o, d)
<1>1. Atomic!EmptyDoc = EmptyDoc
  BY DEF EmptyDoc, Atomic!EmptyDoc, Absent, Atomic!Absent
<1>2. Atomic!Accepts(o, d) <=> Accepts(o, d)
  BY DEF Accepts, Atomic!Accepts
<1>3. ASSUME NEW r
      PROVE  Atomic!Changed(o, r) = Changed(o, r)
  BY DEF Changed, Atomic!Changed, Absent, Atomic!Absent
<1>4. Atomic!Apply(o, d) = Apply(o, d)
  BY <1>3 DEF Apply, Atomic!Apply
<1>5. QED
  BY <1>1, <1>2, <1>4

\* The document changes only when an operation writes, and what an operation
\* writes is what AtomicStore would have made of the document at that moment.
LEMMA StepRefines ==
  ASSUME StoreTypeOK, PairInv, OpsInv, NEW c \in Callers, StoreStep(c)
  PROVE  Atomic!Next \/ UNCHANGED stored
<1>1. CASE Write(c)
  <2>1. /\ op[c] \in Ops
        /\ Accepts(op[c], snap[c])
        /\ stored' = Apply(op[c], snap[c])
        /\ snap[c] = stored \/ (faults > 0 /\ snap[c] = EmptyDoc)
    BY <1>1 DEF Write, OpsInv, PairInv, SavesAreAtomic
  <2>2. CASE snap[c] = stored
    BY <2>1, <2>2, SameOperations DEF Atomic!Next, Atomic!Serve
  <2>3. CASE faults > 0 /\ snap[c] = EmptyDoc
    <3>1. MaxFaults > 0
      BY <2>3, StoreAssumption DEF StoreTypeOK
    <3>2. QED
      BY <2>1, <2>3, <3>1, SameOperations DEF Atomic!Next, Atomic!ServeBlind
  <2>4. QED
    BY <2>1, <2>2, <2>3
<1>2. CASE Read(c) \/ ReadFault(c) \/ WriteFault(c)
  BY <1>2 DEF Read, ReadFault, ReadAs, WriteFault
<1>3. QED
  BY <1>1, <1>2 DEF StoreStep

\* Concurrent operations of two callers have the effect of the same operations
\* one at a time, each at the moment of its storage.set.
THEOREM TwoCallersRefine == TwoCallers => (StoreSpec => ImplementsAtomicStore)
<1>1. StoreInit => OpsInv /\ Atomic!Init
  BY DEF StoreInit, OpsInv, Atomic!Init
<1>2. ASSUME StoreTypeOK, OpsInv, [StoreNext]_storeVars
      PROVE  OpsInv'
  <2>1. CASE \E c \in Callers : Invoke(c)
    BY <1>2, <2>1 DEF Invoke, Start, Enter, OpsInv, StoreTypeOK
  <2>2. CASE \E c \in Callers : StoreStep(c)
    BY <1>2, <2>2, StepOps
  <2>3. CASE StoreCrash
    BY <2>3 DEF StoreCrash, OpsInv
  <2>4. CASE UNCHANGED storeVars
    BY <1>2, <2>4 DEF OpsInv, storeVars, callVars
  <2>5. QED
    BY <1>2, <2>1, <2>2, <2>3, <2>4 DEF StoreNext
<1>3. ASSUME StoreTypeOK, PairInv, OpsInv, [StoreNext]_storeVars
      PROVE  [Atomic!Next]_stored
  <2>1. CASE \E c \in Callers : StoreStep(c)
    BY <1>3, <2>1, StepRefines
  <2>2. CASE (\E c \in Callers : Invoke(c)) \/ StoreCrash \/ UNCHANGED storeVars
    BY <2>2 DEF Invoke, Start, StoreCrash, storeVars
  <2>3. QED
    BY <1>3, <2>1, <2>2 DEF StoreNext
<1>4. SUFFICES ASSUME TwoCallers PROVE StoreSpec => Atomic!Spec
  BY DEF ImplementsAtomicStore
<1>5. StoreSpec => []PairInv
  BY <1>4, PairCorrect
<1>6. QED
  BY <1>1, <1>2, <1>3, <1>5, StoreTypeCorrect, PTL DEF StoreSpec, Atomic!Spec
=============================================================================
