------------------------ MODULE EventProcessorProofs ------------------------
(***************************************************************************)
(* Proofs about EventProcessor, for any number of events and wallets and   *)
(* any number of crashes and of storage faults: first for any set of its   *)
(* four callers, then for the bridge queue and the processing loop alone,  *)
(* where more holds.                                                       *)
(***************************************************************************)
EXTENDS EventProcessor, EventStoreProofs

LEMMA CallTypes ==
  ASSUME NEW e \in Events
  PROVE  /\ \A r \in Record : Save(e, r) \in Operation
         /\ \A kind \in Kinds : On(kind, e) \in Operation
         /\ \A S \in SUBSET Events : Remove(S) \in Operation
  BY RecordTypes DEF Save, On, Remove, Operation, Kinds

-----------------------------------------------------------------------------
(* Type correctness. *)

\* The types of the variables EventProcessor adds to the store's.
LoopTypeOK ==
    /\ arrived \subseteq Events
    /\ enabled \subseteq Sources
    /\ pc \in PC
    /\ todo \subseteq Wallets
    /\ pick \in Events \cup {NoEvent}
    /\ tries \in Nat
    /\ stale \in Doc
    /\ doomed \subseteq Events
    /\ attempts \in [Events -> 0..GhostCap]
    /\ routed \in [Events -> 0..GhostCap]
    /\ pc \notin {"idle", "scan"} => pick # NoEvent

LEMMA TypeSplit == StoreTypeOK /\ LoopTypeOK => TypeOK
  BY DEF TypeOK, LoopTypeOK

LEMMA CountedType ==
  ASSUME NEW n \in 0..GhostCap
  PROVE  Counted(n) \in 0..GhostCap /\ n <= Counted(n)
  BY StoreAssumption DEF Counted, GhostCap

\* The document as one read of the scan sees it.
LEMMA ConsiderType ==
  ASSUME StoreTypeOK, LoopTypeOK, NEW S \in SUBSET Events, Consider(S)
  PROVE  pick' \in Events \cup {NoEvent} /\ tries' \in Nat
  BY DEF Consider, StoreTypeOK, LoopTypeOK, Doc, Record

\* A step that leaves the loop's and the timers' variables alone.
LEMMA StutterType ==
  ASSUME LoopTypeOK, UNCHANGED <<arrived, enabled, loopVars, timerVars, ghostVars>>
  PROVE  LoopTypeOK'
  BY DEF LoopTypeOK, loopVars, timerVars, ghostVars

\* A call of the store by the loop about the event it holds.
LEMMA LoopCallType ==
  ASSUME StoreTypeOK, LoopTypeOK, "loop" \in Callers, pick \in Events,
         NEW kind \in Kinds, NEW p, Call(kind, p)
  PROVE  StoreTypeOK'
<1>1. On(kind, pick) \in Operation
  BY CallTypes
<1>2. QED
  BY <1>1, StartType DEF Call

\* The loop runs only if it is one of the callers.
LoopRuns == pc # "idle" => "loop" \in Callers

LEMMA StoreSame ==
  ASSUME StoreTypeOK, UNCHANGED <<stored, callVars, crashes>>,
         faults' \in 0..MaxFaults
  PROVE  StoreTypeOK'
  BY DEF StoreTypeOK, callVars

LEMMA ScanReadType ==
  ASSUME StoreTypeOK, LoopTypeOK, NEW S \in SUBSET Events, ScanRead(S)
  PROVE  /\ faults' \in 0..MaxFaults
         /\ pick' \in Events \cup {NoEvent}
         /\ tries' \in Nat
  BY ConsiderType, StoreAssumption DEF ScanRead, StoreTypeOK, LoopTypeOK

LEMMA LoopStepType ==
  ASSUME StoreTypeOK, LoopTypeOK, LoopRuns, LoopStep
  PROVE  StoreTypeOK' /\ LoopTypeOK' /\ LoopRuns'
<1> USE DEF LoopTypeOK, loopVars, timerVars, ghostVars, PC, LoopRuns
<1>1. CASE ScanBegin
  BY <1>1 DEF ScanBegin, storeVars, callVars, StoreTypeOK
<1>2. ASSUME NEW w \in Wallets, ScanWallet(w)
      PROVE  StoreTypeOK' /\ LoopTypeOK' /\ LoopRuns'
  <2>1. NewEventsOf(w) \in SUBSET Events /\ ScanRead(NewEventsOf(w))
    BY <1>2 DEF ScanWallet, NewEventsOf
  <2>2. QED
    BY <1>2, <2>1, ScanReadType, StoreSame DEF ScanWallet
<1>3. CASE ScanEnd
  <2>1. PICK S \in SUBSET Events : ScanRead(S)
    BY <1>3 DEF ScanEnd, NewEventsOf
  <2>2. QED
    BY <1>3, <2>1, ScanReadType, StoreSame DEF ScanEnd
<1>4. CASE Acquire
  BY <1>4, LoopCallType DEF Acquire, Call, Kinds
<1>5. CASE NotAcquired \/ Completed \/ Closed
  BY <1>5 DEF NotAcquired, Completed, Closed, Done, storeVars, callVars, StoreTypeOK
<1>6. CASE GiveUp
  BY <1>6, LoopCallType DEF GiveUp, Call, Kinds
<1>7. CASE Route
  <2>1. attempts' \in [Events -> 0..GhostCap]
    BY <1>7, CountedType DEF Route
  <2>2. QED
    BY <1>7, <2>1 DEF Route, storeVars, callVars, StoreTypeOK
<1>8. CASE RouteOk
  <2>1. routed' \in [Events -> 0..GhostCap]
    BY <1>8, CountedType DEF RouteOk
  <2>2. QED
    BY <1>8, <2>1, LoopCallType DEF RouteOk, Call, Kinds
<1>9. CASE RouteThrows \/ NotCompleted
  BY <1>9, LoopCallType DEF RouteThrows, NotCompleted, Call, Kinds
<1>10. QED
  BY <1>1, <1>2, <1>3, <1>4, <1>5, <1>6, <1>7, <1>8, <1>9 DEF LoopStep

\* The timers hold copies only while they are among the callers.
TimersRun == /\ stale # EmptyDoc => "recovery" \in Callers
             /\ doomed # {} => "cleanup" \in Callers

LEMMA TimerStepType ==
  ASSUME StoreTypeOK, LoopTypeOK, TimersRun, TimerStep
  PROVE  StoreTypeOK' /\ LoopTypeOK' /\ TimersRun'
<1> USE DEF LoopTypeOK, loopVars, ghostVars, TimersRun
<1>1. ASSUME NEW S \in SUBSET Events, RecoveryScan(S)
      PROVE  StoreTypeOK' /\ LoopTypeOK' /\ TimersRun'
  <2>1. stale' \in Doc
    BY <1>1, RecordTypes DEF RecoveryScan, StoreTypeOK, Doc
  <2>2. QED
    BY <1>1, <2>1 DEF RecoveryScan, StoreTypeOK
<1>2. ASSUME NEW S \in SUBSET Events, CleanupScan(S)
      PROVE  StoreTypeOK' /\ LoopTypeOK' /\ TimersRun'
  BY <1>2 DEF CleanupScan, storeVars, callVars, StoreTypeOK
<1>3. ASSUME NEW e \in Events, RecoverySave(e)
      PROVE  StoreTypeOK' /\ LoopTypeOK' /\ TimersRun'
  <2>1. "recovery" \in Callers
    BY <1>3 DEF RecoverySave, EmptyDoc
  <2>2. [stale[e] EXCEPT !.started = FALSE] \in Record
    BY DEF Doc, Record
  <2>3. stale' \in Doc
    BY <1>3, RecordTypes DEF RecoverySave, Doc
  <2>4. StoreTypeOK'
    BY <1>3, <2>1, <2>2, CallTypes, StartType DEF RecoverySave
  <2>5. QED
    BY <1>3, <2>1, <2>3, <2>4 DEF RecoverySave
<1>4. CASE RecoveryAbort
  BY <1>4, RecordTypes DEF RecoveryAbort, storeVars, callVars, StoreTypeOK
<1>5. CASE CleanupRemove
  <2>1. Remove(doomed) \in Operation
    BY DEF Remove, Operation, Kinds, Absent, Record, Status
  <2>2. StoreTypeOK'
    BY <1>5, <2>1, StartType DEF CleanupRemove
  <2>3. QED
    BY <1>5, <2>2 DEF CleanupRemove
<1>6. QED
  BY <1>1, <1>2, <1>3, <1>4, <1>5 DEF TimerStep

\* The inductive form of TypeOK.
TypeInv == StoreTypeOK /\ LoopTypeOK /\ LoopRuns /\ TimersRun

LEMMA BridgeStoreType ==
  ASSUME TypeInv, NEW e \in Events, BridgeStore(e)
  PROVE  TypeInv'
<1>1. Save(e, NewEvent) \in Operation
  BY CallTypes, RecordTypes
<1>2. StoreTypeOK'
  BY <1>1, StartType DEF BridgeStore, TypeInv
<1>3. QED
  BY <1>2 DEF BridgeStore, TypeInv, LoopTypeOK, LoopRuns, TimersRun, loopVars,
              timerVars, ghostVars

LEMMA ToggleType ==
  ASSUME TypeInv, NEW s \in Volatile, Toggle(s)
  PROVE  TypeInv'
  BY ProcessorAssumption DEF Toggle, TypeInv, StoreTypeOK, LoopTypeOK, LoopRuns, TimersRun,
              storeVars, callVars, loopVars, timerVars, ghostVars

LEMMA ServeCallType ==
  ASSUME TypeInv, NEW c \in Callers, ServeCall(c)
  PROVE  TypeInv'
  BY StepType, StutterType DEF ServeCall, TypeInv, LoopRuns, TimersRun, loopVars, timerVars

LEMMA ProcessorCrashType ==
  ASSUME TypeInv, Crash
  PROVE  TypeInv'
  BY CrashType, RecordTypes DEF Crash, TypeInv, LoopTypeOK, LoopRuns, TimersRun, PC, ghostVars

LEMMA NextType ==
  ASSUME TypeInv, [Next]_vars
  PROVE  TypeInv'
<1>1. CASE LoopStep
  <2>1. UNCHANGED timerVars
    BY <1>1 DEF LoopStep, ScanBegin, ScanWallet, ScanEnd, Acquire, NotAcquired, GiveUp, Route,
                RouteOk, RouteThrows, Completed, NotCompleted, Closed
  <2>2. QED
    BY <1>1, <2>1, LoopStepType DEF TypeInv, TimersRun, timerVars
<1>2. CASE TimerStep
  <2>1. UNCHANGED loopVars
    BY <1>2 DEF TimerStep, RecoveryScan, CleanupScan, RecoverySave, RecoveryAbort, CleanupRemove
  <2>2. QED
    BY <1>2, <2>1, TimerStepType DEF TypeInv, LoopRuns, loopVars
<1>3. CASE UNCHANGED vars
  BY <1>3 DEF vars, storeVars, callVars, loopVars, timerVars, ghostVars, TypeInv,
              StoreTypeOK, LoopTypeOK, LoopRuns, TimersRun
<1>4. QED
  BY <1>1, <1>2, <1>3, BridgeStoreType, ToggleType, ServeCallType, ProcessorCrashType DEF Next

LEMMA TypeInvariant == Spec => []TypeInv
<1>1. Init => TypeInv
  BY InitType, RecordTypes, StoreAssumption, ProcessorAssumption
     DEF Init, TypeInv, LoopTypeOK, LoopRuns, TimersRun, PC, GhostCap
<1>2. QED
  BY <1>1, NextType, PTL DEF Spec

\* Every variable of the event pipeline keeps its type.
THEOREM TypeCorrect == Spec => []TypeOK
  BY TypeInvariant, TypeSplit, PTL DEF TypeInv

-----------------------------------------------------------------------------
(***************************************************************************)
(* Every copy of an event that may reach the document again - the document *)
(* itself, what a caller has read, what the recovery timer still holds,    *)
(* what a pending save carries - tells the truth about the past.           *)
(***************************************************************************)

\* The event is owed one more retry than the copies of it count: it has been
\* given to the router and not been released yet.
Owed(e) == \/ pc \in {"route", "completing"} /\ pick = e
           \/ \E c \in Callers : op[c].kind = "release" /\ e \in op[c].evs

Earned(e, n) == n <= attempts[e] \/ attempts[e] >= MaxRetries

Honest(e, r) ==
    /\ r.status = "completed" => routed[e] > 0
    /\ r.status = "errored" => attempts[e] >= MaxRetries
    /\ Earned(e, r.retry)
    /\ Owed(e) => Earned(e, r.retry + 1)

\* What a pending operation claims about the events it is about.
OpHonest(o) ==
    \A e \in o.evs :
        /\ o.kind = "save" => Honest(e, o.rec)
        /\ o.kind = "complete" => routed[e] > 0
        /\ o.kind = "error" => attempts[e] >= MaxRetries

\* A release is pending only while the loop is closing the event it holds.
Releases ==
    \A c \in Callers : op[c].kind = "release" => c = "loop" /\ pc = "closing"

TruthInv ==
    /\ \A e \in Events : Honest(e, stored[e])
    /\ \A e \in Events : Honest(e, stale[e])
    /\ \A c \in Callers, e \in Events : Honest(e, snap[c][e])
    /\ \A c \in Callers : OpHonest(op[c])
    /\ Releases
    /\ \A c \in Callers : phase[c] = "idle" => op[c] = NoOp
    /\ pick # NoEvent => Earned(pick, tries)

\* How a step may change what the copies are measured against: the ghosts grow,
\* and an event becomes owed a retry only when it is given to the router.
GhostsGrow ==
    \A e \in Events :
        /\ attempts[e] <= attempts'[e]
        /\ routed[e] <= routed'[e]
        /\ Owed(e)' /\ ~Owed(e) => attempts[e] < attempts'[e] \/ MaxRetries <= attempts'[e]

LEMMA EarnedKept ==
  ASSUME TypeInv, TypeInv', GhostsGrow, NEW e \in Events, NEW n \in Nat, Earned(e, n)
  PROVE  Earned(e, n)'
  BY StoreAssumption DEF Earned, GhostsGrow, TypeInv, LoopTypeOK, GhostCap

\* An honest copy stays honest.
LEMMA HonestKept ==
  ASSUME TypeInv, TypeInv', GhostsGrow, NEW e \in Events, NEW r \in Record, Honest(e, r)
  PROVE  Honest(e, r)'
  BY StoreAssumption DEF Honest, Earned, GhostsGrow, TypeInv, LoopTypeOK, GhostCap, Record

\* An absent event and one just stored are honest copies of any event: where
\* an event is owed a retry, the document shows it was given to the router.
LEMMA BlankHonest ==
  ASSUME TypeInv, TruthInv, NEW e \in Events
  PROVE  Honest(e, Absent) /\ Honest(e, NewEvent) /\ Honest(e, EmptyDoc[e])
<1>1. Honest(e, stored[e]) /\ stored[e] \in Record
  BY DEF TruthInv, TypeInv, StoreTypeOK, Doc
<1>2. Honest(e, Absent) /\ Honest(e, NewEvent)
  BY <1>1, StoreAssumption DEF Honest, Earned, Absent, NewEvent, Record, TypeInv, LoopTypeOK,
                               GhostCap
<1>3. QED
  BY <1>2 DEF EmptyDoc

LEMMA OpHonestKept ==
  ASSUME TypeInv, TypeInv', GhostsGrow, NEW o \in Operation, OpHonest(o)
  PROVE  OpHonest(o)'
  BY HonestKept, StoreAssumption
     DEF OpHonest, GhostsGrow, Operation, TypeInv, LoopTypeOK, GhostCap

LEMMA NoOpHonest == OpHonest(NoOp) /\ NoOp.kind # "release"
  BY DEF OpHonest, NoOp, Remove

\* A step that writes, reads and recovers nothing.
LEMMA CopiesKept ==
  ASSUME TypeInv, TypeInv', TruthInv, GhostsGrow, UNCHANGED <<stored, snap, stale>>
  PROVE  /\ \A e \in Events : Honest(e, stored[e])'
         /\ \A e \in Events : Honest(e, stale[e])'
         /\ \A c \in Callers, e \in Events : Honest(e, snap[c][e])'
<1>1. ASSUME NEW e \in Events
      PROVE  Honest(e, stored[e])'
  BY HonestKept DEF TruthInv, TypeInv, StoreTypeOK, Doc
<1>2. ASSUME NEW e \in Events
      PROVE  Honest(e, stale[e])'
  BY HonestKept DEF TruthInv, TypeInv, LoopTypeOK, Doc
<1>3. ASSUME NEW c \in Callers, NEW e \in Events
      PROVE  Honest(e, snap[c][e])'
  BY HonestKept DEF TruthInv, TypeInv, StoreTypeOK, Doc
<1>4. QED
  BY <1>1, <1>2, <1>3

LEMMA OpsKept ==
  ASSUME TypeInv, TypeInv', TruthInv, GhostsGrow, NEW c \in Callers, op'[c] \in {op[c], NoOp}
  PROVE  OpHonest(op[c])'
<1>1. op[c] \in Operation /\ OpHonest(op[c])
  BY DEF TypeInv, StoreTypeOK, TruthInv
<1>2. CASE op'[c] = op[c]
  BY <1>1, <1>2, OpHonestKept DEF OpHonest, Honest
<1>3. CASE op'[c] = NoOp
  BY <1>3 DEF OpHonest, NoOp, Remove
<1>4. QED
  BY <1>2, <1>3
-----------------------------------------------------------------------------
(* A storage step. *)

LEMMA ServeGhosts ==
  ASSUME TypeInv, TypeInv', NEW c \in Callers, ServeCall(c)
  PROVE  /\ GhostsGrow
         /\ \A d \in Callers : op'[d] \in {op[d], NoOp}
<1>1. UNCHANGED <<pc, pick, attempts, routed>>
  BY DEF ServeCall, loopVars, ghostVars
<1>2. ASSUME NEW d \in Callers
      PROVE  op'[d] \in {op[d], NoOp}
  BY DEF ServeCall, StoreStep, Read, ReadFault, ReadAs, Write, WriteFault, Settle, TypeInv,
         StoreTypeOK
<1>3. \A e \in Events : Owed(e)' => Owed(e)
  BY <1>1, <1>2, NoOpHonest DEF Owed
<1>4. \A e \in Events : attempts[e] <= attempts'[e] /\ routed[e] <= routed'[e]
  BY <1>1, StoreAssumption DEF TypeInv, LoopTypeOK, GhostCap
<1>5. QED
  BY <1>2, <1>3, <1>4 DEF GhostsGrow

\* What an honest operation makes of an honest copy is an honest copy.
LEMMA ChangedHonest ==
  ASSUME TypeInv, TypeInv', GhostsGrow, NEW e \in Events, NEW o \in Operation, NEW r \in Record,
         e \in o.evs, Honest(e, r), OpHonest(o), o.kind = "release" => Owed(e) /\ ~Owed(e)'
  PROVE  Honest(e, Changed(o, r))'
<1>1. Honest(e, r)' /\ OpHonest(o)'
  BY HonestKept, OpHonestKept
<1>2. CASE o.kind = "save"
  BY <1>1, <1>2 DEF Changed, OpHonest
<1>3. CASE o.kind = "remove"
  <2>1. Honest(e, Absent)' <=> (Owed(e)' => Earned(e, 1)')
    BY StoreAssumption DEF Honest, Earned, Absent, TypeInv, LoopTypeOK, GhostCap
  <2>2. Owed(e)' => Earned(e, 1)'
    BY <1>1, StoreAssumption DEF Honest, Earned, Record, TypeInv, LoopTypeOK, GhostCap
  <2>3. QED
    BY <1>3, <2>1, <2>2 DEF Changed
<1>4. CASE o.kind \in {"acquire", "requeue"}
  BY <1>1, <1>4 DEF Changed, Honest, Record
<1>5. CASE o.kind = "release"
  <2>1. Earned(e, r.retry + 1)'
    BY <1>5, EarnedKept DEF Honest, Record
  <2>2. QED
    BY <1>5, <2>1 DEF Changed, Honest
<1>6. CASE o.kind = "complete"
  BY <1>1, <1>6 DEF Changed, Honest, OpHonest, Record
<1>7. CASE o.kind = "error"
  BY <1>1, <1>7 DEF Changed, Honest, OpHonest, Record
<1>8. QED
  BY <1>2, <1>3, <1>4, <1>5, <1>6, <1>7 DEF Operation, Kinds

LEMMA WriteHonest ==
  ASSUME TypeInv, TypeInv', TruthInv, GhostsGrow, NEW c \in Callers, ServeCall(c), Write(c),
         NEW e \in Events
  PROVE  Honest(e, stored[e])'
<1>1. /\ op[c] \in Operation /\ snap[c][e] \in Record
      /\ Honest(e, snap[c][e]) /\ OpHonest(op[c])
  BY DEF TypeInv, StoreTypeOK, Doc, TruthInv
<1>2. stored'[e] = IF e \in op[c].evs THEN Changed(op[c], snap[c][e]) ELSE snap[c][e]
  BY DEF Write, Apply
<1>3. CASE e \notin op[c].evs
  BY <1>1, <1>2, <1>3, HonestKept DEF Honest
<1>4. CASE e \in op[c].evs
  <2>1. ASSUME op[c].kind = "release"
        PROVE  Owed(e) /\ ~Owed(e)'
    <3>1. Owed(e)
      BY <1>4, <2>1 DEF Owed
    <3>2. c = "loop" /\ pc' = "closing"
      BY <2>1 DEF TruthInv, Releases, ServeCall, loopVars
    <3>3. \A d \in Callers : op'[d].kind # "release"
      BY <3>2, NoOpHonest DEF TruthInv, Releases, Write, Settle, TypeInv, StoreTypeOK
    <3>4. QED
      BY <3>1, <3>2, <3>3 DEF Owed
  <2>2. PICK o \in Operation, r \in Record : o = op[c] /\ r = snap[c][e]
    BY <1>1
  <2>3. Honest(e, Changed(o, r))'
    BY <1>1, <1>4, <2>1, <2>2, ChangedHonest
  <2>4. QED
    BY <1>2, <1>4, <2>2, <2>3 DEF Honest
<1>5. QED
  BY <1>3, <1>4

LEMMA ServeTruth ==
  ASSUME TypeInv, TypeInv', TruthInv, NEW c \in Callers, ServeCall(c)
  PROVE  TruthInv'
<1>1. GhostsGrow /\ \A d \in Callers : op'[d] \in {op[d], NoOp}
  BY ServeGhosts
<1>2. StoreStep(c) /\ UNCHANGED <<pc, pick, tries, stale, attempts>>
  BY DEF ServeCall, loopVars, timerVars, ghostVars
<1>3. ASSUME NEW e \in Events
      PROVE  Honest(e, stored[e])'
  <2>1. CASE Write(c)
    BY <1>1, <2>1, WriteHonest
  <2>2. CASE UNCHANGED stored
    BY <1>1, <2>2, HonestKept DEF TruthInv, TypeInv, StoreTypeOK, Doc, Honest
  <2>3. QED
    BY <1>2, <2>1, <2>2 DEF StoreStep, Read, ReadFault, ReadAs, WriteFault
<1>4. ASSUME NEW e \in Events
      PROVE  Honest(e, stale[e])'
  BY <1>1, <1>2, HonestKept DEF TruthInv, TypeInv, LoopTypeOK, Doc, Honest
<1>5. ASSUME NEW d \in Callers, NEW e \in Events
      PROVE  Honest(e, snap[d][e])'
  <2>1. snap'[d][e] \in {snap[d][e], stored[e], EmptyDoc[e]}
    BY <1>2 DEF StoreStep, Read, ReadFault, ReadAs, Write, WriteFault, Settle, TypeInv,
                StoreTypeOK
  <2>2. /\ Honest(e, snap[d][e]) /\ snap[d][e] \in Record
        /\ Honest(e, stored[e]) /\ stored[e] \in Record
        /\ Honest(e, EmptyDoc[e]) /\ EmptyDoc[e] \in Record
    BY BlankHonest, RecordTypes DEF TruthInv, TypeInv, StoreTypeOK, Doc
  <2>3. PICK r \in Record : r = snap'[d][e] /\ Honest(e, r)
    BY <2>1, <2>2
  <2>4. Honest(e, r)'
    BY <1>1, <2>3, HonestKept
  <2>5. QED
    BY <2>3, <2>4 DEF Honest
<1>6. \A d \in Callers : OpHonest(op[d])'
  BY <1>1, OpsKept
<1>7. Releases'
  BY <1>1, <1>2, NoOpHonest DEF TruthInv, Releases
<1>8. \A d \in Callers : phase'[d] = "idle" => op'[d] = NoOp
  BY <1>2 DEF StoreStep, Read, ReadFault, ReadAs, Write, WriteFault, Settle, TypeInv,
              StoreTypeOK, TruthInv
<1>9. (pick # NoEvent => Earned(pick, tries))'
  BY <1>2 DEF TruthInv, Earned
<1>10. QED
  BY <1>3, <1>4, <1>5, <1>6, <1>7, <1>8, <1>9 DEF TruthInv
-----------------------------------------------------------------------------
(* A call of the store. *)

\* After a caller has called the store with an operation that is honest, or that
\* the same step makes honest.
LEMMA StartTruth ==
  ASSUME TypeInv, TypeInv', TruthInv, GhostsGrow, NEW c \in Callers, NEW o \in Operation,
         Start(c, o), OpHonest(o) \/ OpHonest(o)', UNCHANGED stale, Releases',
         (pick # NoEvent => Earned(pick, tries))'
  PROVE  TruthInv'
<1>1. /\ \A e \in Events : Honest(e, stored[e])'
      /\ \A e \in Events : Honest(e, stale[e])'
      /\ \A d \in Callers, e \in Events : Honest(e, snap[d][e])'
  BY CopiesKept DEF Start
<1>2. OpHonest(o)'
  BY OpHonestKept
<1>3. ASSUME NEW d \in Callers
      PROVE  OpHonest(op[d])'
  <2>1. CASE d = c
    BY <1>2, <2>1 DEF Start, TypeInv, StoreTypeOK, OpHonest, Honest
  <2>2. CASE d # c
    BY <2>2, OpsKept DEF Start, TypeInv, StoreTypeOK
  <2>3. QED
    BY <2>1, <2>2
<1>4. \A d \in Callers : phase'[d] = "idle" => op'[d] = NoOp
  BY DEF Start, Enter, TypeInv, StoreTypeOK, TruthInv
<1>5. QED
  BY <1>1, <1>3, <1>4 DEF TruthInv

\* The ghosts and the loop's position stay, and no release is called: nothing
\* becomes owed.
LEMMA QuietGhosts ==
  ASSUME TypeInv, UNCHANGED ghostVars,
         \A e \in Events : Owed(e)' => Owed(e)
  PROVE  GhostsGrow
  BY StoreAssumption DEF GhostsGrow, ghostVars, TypeInv, LoopTypeOK, GhostCap

\* A call by another caller than the loop.
LEMMA OtherCallTruth ==
  ASSUME TypeInv, TypeInv', TruthInv, NEW c \in Callers, NEW o \in Operation,
         Start(c, o), o.kind # "release", OpHonest(o),
         UNCHANGED <<loopVars, ghostVars, stale>>
  PROVE  TruthInv'
<1>1. \A d \in Callers : op'[d] = IF d = c THEN o ELSE op[d]
  BY DEF Start, TypeInv, StoreTypeOK
<1>2. \A e \in Events : Owed(e)' => Owed(e)
  BY <1>1 DEF Owed, loopVars
<1>3. GhostsGrow
  BY <1>2, QuietGhosts
<1>4. Releases'
  BY <1>1 DEF Releases, TruthInv, loopVars
<1>5. (pick # NoEvent => Earned(pick, tries))'
  BY DEF TruthInv, Earned, loopVars, ghostVars
<1>6. QED
  BY <1>3, <1>4, <1>5, StartTruth

\* A call by the loop about the event it holds.
LEMMA LoopCallTruth ==
  ASSUME TypeInv, TypeInv', TruthInv, GhostsGrow, "loop" \in Callers, pick \in Events,
         NEW kind \in Kinds, NEW p, Call(kind, p),
         OpHonest(On(kind, pick)) \/ (kind = "complete" /\ routed'[pick] > 0),
         kind = "release" => p = "closing", UNCHANGED stale
  PROVE  TruthInv'
<1>1. On(kind, pick) \in Operation /\ Start("loop", On(kind, pick))
  BY CallTypes DEF Call
<1>2. Releases'
  BY <1>1 DEF Releases, TruthInv, Start, Call, On, TypeInv, StoreTypeOK
<1>3. (pick # NoEvent => Earned(pick, tries))'
  BY EarnedKept DEF TruthInv, Call, TypeInv, LoopTypeOK, Earned
<1>4. PICK o \in Operation : o = On(kind, pick)
  BY <1>1
<1>5. OpHonest(o) \/ OpHonest(o)'
  BY <1>4 DEF OpHonest, On
<1>6. QED
  BY <1>1, <1>2, <1>3, <1>4, <1>5, StartTruth
-----------------------------------------------------------------------------
(* The loop. *)

\* A step that calls nothing and copies nothing: only Owed has to be looked at.
LEMMA LocalTruth ==
  ASSUME TypeInv, TypeInv', TruthInv, GhostsGrow,
         UNCHANGED <<stored, snap, stale, op, phase>>,
         pc = "closing" => pc' = "closing" \/ phase["loop"] = "idle",
         (pick # NoEvent => Earned(pick, tries))'
  PROVE  TruthInv'
<1>1. \A c \in Callers : OpHonest(op[c])'
  BY OpsKept
<1>2. Releases'
  BY NoOpHonest DEF Releases, TruthInv
<1>3. QED
  BY <1>1, <1>2, CopiesKept DEF TruthInv

\* While the loop scans, it owes nothing to the event it has picked.
LEMMA ScanTruth ==
  ASSUME TypeInv, TypeInv', TruthInv, pc \in {"idle", "scan"}, pc' \in {"scan", "acquire", "idle"},
         UNCHANGED <<stored, callVars, stale, ghostVars>>,
         \/ UNCHANGED <<pick, tries>>
         \/ pick' \in Events /\ tries' = stored[pick'].retry
  PROVE  TruthInv'
<1>1. GhostsGrow
  <2>1. \A e \in Events : Owed(e)' => Owed(e)
    BY DEF Owed, callVars
  <2>2. QED
    BY <2>1, QuietGhosts
<1>2. (pick # NoEvent => Earned(pick, tries))'
  BY DEF TruthInv, Honest, Earned, ghostVars
<1>3. QED
  BY <1>1, <1>2, LocalTruth DEF callVars

LEMMA ScanReadPick ==
  ASSUME NEW S \in SUBSET Events, ScanRead(S)
  PROVE  UNCHANGED <<pick, tries>> \/ (pick' \in Events /\ tries' = stored[pick'].retry)
  BY DEF ScanRead, Consider

\* The loop lets go of its event.
LEMMA DoneTruth ==
  ASSUME TypeInv, TypeInv', TruthInv, Done, phase["loop"] = "idle",
         UNCHANGED <<storeVars, stale, ghostVars>>
  PROVE  TruthInv'
<1>1. \A e \in Events : Owed(e)' => Owed(e)
  BY DEF Owed, Done, storeVars, callVars
<1>2. GhostsGrow
  BY <1>1, QuietGhosts
<1>3. (pick # NoEvent => Earned(pick, tries))'
  BY DEF Done
<1>4. QED
  BY <1>2, <1>3, LocalTruth DEF storeVars, callVars

\* Nothing becomes owed by a call of the loop, unless it releases the event.
LEMMA LoopCallOwes ==
  ASSUME TypeInv, TruthInv, "loop" \in Callers, pick \in Events,
         NEW kind, NEW p, Call(kind, p), NEW e \in Events,
         Owed(e)', p # "route", kind = "release" \/ p = "completing" => pc \in {"route", "completing"}
  PROVE  Owed(e)
<1>1. \A d \in Callers : op'[d] = IF d = "loop" THEN On(kind, pick) ELSE op[d]
  BY DEF Call, Start, TypeInv, StoreTypeOK
<1>2. CASE pc' \in {"route", "completing"} /\ pick' = e /\ p = "completing"
  BY <1>2 DEF Call, Owed
<1>3. CASE \E d \in Callers : op'[d].kind = "release" /\ e \in op'[d].evs
  BY <1>1, <1>3 DEF Owed, On
<1>4. QED
  BY <1>2, <1>3 DEF Owed, Call

LEMMA LoopStepTruth ==
  ASSUME TypeInv, TypeInv', TruthInv, LoopStep
  PROVE  TruthInv'
<1>0. /\ pc # "idle" => "loop" \in Callers
      /\ pc \notin {"idle", "scan"} => pick \in Events
  BY DEF TypeInv, LoopTypeOK, LoopRuns
<1>1. CASE ScanBegin
  BY <1>1, ScanTruth DEF ScanBegin, storeVars, timerVars
<1>2. ASSUME NEW w \in Wallets, ScanWallet(w)
      PROVE  TruthInv'
  <2>1. NewEventsOf(w) \in SUBSET Events /\ ScanRead(NewEventsOf(w))
    BY <1>2 DEF ScanWallet, NewEventsOf
  <2>2. QED
    BY <1>2, <2>1, ScanReadPick, ScanTruth DEF ScanWallet, timerVars
<1>3. CASE ScanEnd
  <2>1. PICK S \in SUBSET Events : ScanRead(S)
    BY <1>3 DEF ScanEnd, NewEventsOf
  <2>2. QED
    BY <1>3, <2>1, ScanReadPick, ScanTruth DEF ScanEnd, timerVars
<1>4. CASE Acquire
  <2>1. Call("acquire", "acquiring") /\ UNCHANGED <<stale, ghostVars>>
    BY <1>4 DEF Acquire, timerVars
  <2>2. GhostsGrow
    BY <1>0, <1>4, <2>1, LoopCallOwes, QuietGhosts DEF Acquire
  <2>3. OpHonest(On("acquire", pick))
    BY DEF OpHonest, On
  <2>4. QED
    BY <1>0, <1>4, <2>1, <2>2, <2>3, LoopCallTruth DEF Acquire, Kinds
<1>5. CASE NotAcquired \/ Completed \/ Closed
  BY <1>5, DoneTruth DEF NotAcquired, Completed, Closed, Returned, timerVars
<1>6. CASE GiveUp
  <2>1. Call("error", "closing") /\ UNCHANGED <<stale, ghostVars>> /\ tries >= MaxRetries
    BY <1>6 DEF GiveUp, timerVars
  <2>2. GhostsGrow
    BY <1>0, <1>6, <2>1, LoopCallOwes, QuietGhosts DEF GiveUp
  <2>3. Earned(pick, tries) /\ attempts[pick] \in Nat /\ tries \in Nat
    BY <1>0, <1>6, ProcessorAssumption, StoreAssumption
       DEF GiveUp, TruthInv, TypeInv, LoopTypeOK, GhostCap
  <2>4. OpHonest(On("error", pick))
    BY <2>1, <2>3, StoreAssumption DEF OpHonest, On, Earned
  <2>5. QED
    BY <1>0, <1>6, <2>1, <2>2, <2>4, LoopCallTruth DEF GiveUp, Kinds
<1>7. CASE Route
  <2>1. attempts' = [attempts EXCEPT ![pick] = Counted(@)] /\ UNCHANGED routed /\ pick \in Events
    BY <1>0, <1>7 DEF Route
  <2>2. \A e \in Events : e # pick => (Owed(e)' => Owed(e))
    BY <1>7 DEF Route, Owed, storeVars, callVars
  <2>3. attempts[pick] < attempts'[pick] \/ MaxRetries <= attempts'[pick]
    BY <2>1, StoreAssumption DEF Counted, GhostCap, TypeInv, LoopTypeOK
  <2>4. \A e \in Events : attempts[e] <= attempts'[e] /\ routed[e] <= routed'[e]
    BY <2>1, StoreAssumption DEF Counted, GhostCap, TypeInv, LoopTypeOK
  <2>5. GhostsGrow
    BY <2>2, <2>3, <2>4 DEF GhostsGrow
  <2>6. (pick # NoEvent => Earned(pick, tries))'
    BY <1>0, <1>7, <2>5, EarnedKept, ProcessorAssumption
       DEF Route, TruthInv, TypeInv, LoopTypeOK, Earned
  <2>7. QED
    BY <1>7, <2>5, <2>6, LocalTruth DEF Route, storeVars, callVars, timerVars
<1>8. CASE RouteOk
  <2>1. /\ Call("complete", "completing") /\ UNCHANGED <<stale, attempts>>
        /\ routed' = [routed EXCEPT ![pick] = Counted(@)] /\ pick \in Events /\ pc = "route"
    BY <1>0, <1>8 DEF RouteOk, timerVars
  <2>2. \A e \in Events : Owed(e)' => Owed(e)
    BY <1>0, <2>1, LoopCallOwes
  <2>3. \A e \in Events : attempts[e] <= attempts'[e] /\ routed[e] <= routed'[e]
    BY <2>1, StoreAssumption DEF Counted, GhostCap, TypeInv, LoopTypeOK
  <2>4. GhostsGrow
    BY <2>2, <2>3 DEF GhostsGrow
  <2>5. routed'[pick] > 0
    BY <2>1, StoreAssumption DEF Counted, GhostCap, TypeInv, LoopTypeOK
  <2>6. Start("loop", On("complete", pick))
    BY <2>1 DEF Call
  <2>7. QED
    BY <1>0, <2>1, <2>4, <2>5, <2>6, LoopCallTruth DEF Kinds
<1>9. CASE RouteThrows \/ NotCompleted
  <2>1. PICK kind \in {"release", "requeue"} :
          /\ Call(kind, "closing") /\ UNCHANGED <<stale, ghostVars>>
          /\ pc \in {"route", "completing"}
    BY <1>9 DEF RouteThrows, NotCompleted, timerVars
  <2>2. GhostsGrow
    BY <1>0, <2>1, LoopCallOwes, QuietGhosts
  <2>3. OpHonest(On(kind, pick))
    BY DEF OpHonest, On
  <2>4. QED
    BY <1>0, <2>1, <2>2, <2>3, LoopCallTruth DEF Kinds
<1>10. QED
  BY <1>1, <1>2, <1>3, <1>4, <1>5, <1>6, <1>7, <1>8, <1>9 DEF LoopStep
-----------------------------------------------------------------------------
(* The timers, the bridge queue and a crash. *)

LEMMA TimerStepTruth ==
  ASSUME TypeInv, TypeInv', TruthInv, TimerStep
  PROVE  TruthInv'
<1>1. ASSUME NEW S \in SUBSET Events, RecoveryScan(S)
      PROVE  TruthInv'
  <2>1. /\ UNCHANGED <<stored, snap, op, phase, loopVars, ghostVars>>
        /\ \A e \in Events : stale'[e] \in {stored[e], Absent}
    BY <1>1 DEF RecoveryScan
  <2>2. \A e \in Events : Owed(e)' <=> Owed(e)
    BY <2>1 DEF Owed, loopVars
  <2>3. \A e \in Events, r \in Record : Honest(e, r) => Honest(e, r)'
    BY <2>1, <2>2 DEF Honest, Earned, ghostVars
  <2>4. ASSUME NEW e \in Events
        PROVE  Honest(e, stored[e])' /\ Honest(e, stale[e])'
    <3>1. PICK r \in Record : r = stale'[e] /\ Honest(e, r)
      BY <2>1, BlankHonest, RecordTypes DEF TruthInv, TypeInv, StoreTypeOK, Doc
    <3>2. PICK q \in Record : q = stored'[e] /\ Honest(e, q)
      BY <2>1 DEF TruthInv, TypeInv, StoreTypeOK, Doc
    <3>3. Honest(e, r)' /\ Honest(e, q)'
      BY <2>3, <3>1, <3>2
    <3>4. QED
      BY <3>1, <3>2, <3>3 DEF Honest
  <2>5. ASSUME NEW c \in Callers, NEW e \in Events
        PROVE  Honest(e, snap[c][e])'
    <3>1. PICK r \in Record : r = snap[c][e] /\ Honest(e, r)
      BY DEF TruthInv, TypeInv, StoreTypeOK, Doc
    <3>2. QED
      BY <2>1, <2>3, <3>1 DEF Honest
  <2>6. \A c \in Callers : OpHonest(op[c])'
    <3>1. GhostsGrow
      BY <2>1, <2>2, QuietGhosts
    <3>2. QED
      BY <2>1, <3>1, OpsKept
  <2>7. Releases' /\ (pick # NoEvent => Earned(pick, tries))'
    BY <2>1 DEF TruthInv, Releases, Earned, loopVars, ghostVars
  <2>8. QED
    BY <2>1, <2>4, <2>5, <2>6, <2>7 DEF TruthInv
<1>2. ASSUME NEW S \in SUBSET Events, CleanupScan(S)
      PROVE  TruthInv'
  <2>1. UNCHANGED <<storeVars, loopVars, stale, ghostVars>>
    BY <1>2 DEF CleanupScan
  <2>2. GhostsGrow
    BY <2>1, QuietGhosts DEF Owed, storeVars, callVars, loopVars
  <2>3. QED
    BY <2>1, <2>2, LocalTruth
       DEF storeVars, callVars, loopVars, ghostVars, TruthInv, Earned
<1>3. ASSUME NEW e \in Events, RecoverySave(e)
      PROVE  TruthInv'
  <2> DEFINE r == [stale[e] EXCEPT !.started = FALSE]
  <2>1. /\ Start("recovery", Save(e, r)) /\ "recovery" \in Callers
        /\ stale' = [stale EXCEPT ![e] = Absent]
        /\ UNCHANGED <<loopVars, ghostVars>>
    BY <1>3 DEF RecoverySave, TypeInv, TimersRun, EmptyDoc
  <2>2. r \in Record /\ Honest(e, r)
    BY DEF TruthInv, TypeInv, LoopTypeOK, Doc, Record, Honest
  <2>3. Save(e, r) \in Operation /\ Save(e, r).kind = "save" /\ OpHonest(Save(e, r))
    BY <2>2, CallTypes DEF OpHonest, Save
  <2>4. \A d \in Callers : op'[d] = IF d = "recovery" THEN Save(e, r) ELSE op[d]
    BY <2>1 DEF Start, TypeInv, StoreTypeOK
  <2>5. GhostsGrow
    BY <2>1, <2>3, <2>4, QuietGhosts DEF Owed, loopVars
  <2>6. ASSUME NEW x \in Events
        PROVE  Honest(x, stored[x])' /\ Honest(x, stale[x])'
    <3>1. PICK y \in Record : y = stale'[x] /\ Honest(x, y)
      BY <2>1, BlankHonest, RecordTypes DEF TruthInv, TypeInv, LoopTypeOK, Doc
    <3>2. PICK z \in Record : z = stored'[x] /\ Honest(x, z)
      BY <2>1 DEF TruthInv, TypeInv, StoreTypeOK, Doc, Start
    <3>3. Honest(x, y)' /\ Honest(x, z)'
      BY <2>5, <3>1, <3>2, HonestKept
    <3>4. QED
      BY <3>1, <3>2, <3>3 DEF Honest
  <2>7. ASSUME NEW d \in Callers, NEW x \in Events
        PROVE  Honest(x, snap[d][x])'
    <3>1. PICK y \in Record : y = snap[d][x] /\ Honest(x, y)
      BY DEF TruthInv, TypeInv, StoreTypeOK, Doc
    <3>2. Honest(x, y)' /\ snap' = snap
      BY <2>1, <2>5, <3>1, HonestKept DEF Start
    <3>3. QED
      BY <3>1, <3>2 DEF Honest
  <2>8. ASSUME NEW d \in Callers
        PROVE  OpHonest(op[d])'
    <3>1. PICK o \in Operation : o = op'[d] /\ OpHonest(o)
      BY <2>3, <2>4 DEF TruthInv, TypeInv, StoreTypeOK
    <3>2. OpHonest(o)'
      BY <2>5, <3>1, OpHonestKept
    <3>3. QED
      BY <3>1, <3>2 DEF OpHonest, Honest
  <2>9. /\ Releases'
        /\ (pick # NoEvent => Earned(pick, tries))'
        /\ \A d \in Callers : phase'[d] = "idle" => op'[d] = NoOp
    BY <2>1, <2>3, <2>4
       DEF TruthInv, Releases, Earned, loopVars, ghostVars, Start, Enter, TypeInv, StoreTypeOK
  <2>10. QED
    BY <2>6, <2>7, <2>8, <2>9 DEF TruthInv
<1>4. CASE RecoveryAbort
  <2>1. UNCHANGED <<storeVars, loopVars, ghostVars>> /\ stale' = EmptyDoc
    BY <1>4 DEF RecoveryAbort
  <2>2. GhostsGrow
    BY <2>1, QuietGhosts DEF Owed, storeVars, callVars, loopVars
  <2>3. ASSUME NEW e \in Events
        PROVE  Honest(e, stale[e])'
    <3>1. PICK r \in Record : r = EmptyDoc[e] /\ Honest(e, r)
      BY BlankHonest, RecordTypes DEF Doc
    <3>2. Honest(e, r)'
      BY <2>2, <3>1, HonestKept
    <3>3. QED
      BY <2>1, <3>1, <3>2 DEF Honest
  <2>4. QED
    BY <2>1, <2>3 DEF TruthInv, storeVars, callVars, loopVars, ghostVars, Honest, Earned, Owed,
                      OpHonest, Releases
<1>5. CASE CleanupRemove
  <2>1. /\ Start("cleanup", Remove(doomed)) /\ "cleanup" \in Callers
        /\ UNCHANGED <<loopVars, ghostVars, stale>>
    BY <1>5 DEF CleanupRemove, TypeInv, TimersRun
  <2>2. Remove(doomed) \in Operation
    BY RecordTypes DEF Remove, Operation, Kinds, TypeInv, LoopTypeOK
  <2>3. OpHonest(Remove(doomed)) /\ Remove(doomed).kind # "release"
    BY DEF OpHonest, Remove
  <2>4. QED
    BY <2>1, <2>2, <2>3, OtherCallTruth
<1>6. QED
  BY <1>1, <1>2, <1>3, <1>4, <1>5 DEF TimerStep

LEMMA BridgeStoreTruth ==
  ASSUME TypeInv, TypeInv', TruthInv, NEW e \in Events, BridgeStore(e)
  PROVE  TruthInv'
<1>1. Save(e, NewEvent) \in Operation /\ Save(e, NewEvent).kind # "release"
  BY CallTypes, RecordTypes DEF Save
<1>2. OpHonest(Save(e, NewEvent))
  BY BlankHonest DEF OpHonest, Save
<1>3. QED
  BY <1>1, <1>2, OtherCallTruth DEF BridgeStore, timerVars

\* A crash forgets every copy but the document.
LEMMA CrashTruth ==
  ASSUME TypeInv, TypeInv', TruthInv, Crash
  PROVE  TruthInv'
<1>1. /\ UNCHANGED <<stored, ghostVars>>
      /\ stale' = EmptyDoc /\ pick' = NoEvent /\ pc' = "idle"
      /\ op' = [c \in Callers |-> NoOp] /\ snap' = [c \in Callers |-> EmptyDoc]
  BY DEF Crash, StoreCrash
<1>2. \A e \in Events : ~Owed(e)'
  BY <1>1, NoOpHonest DEF Owed
<1>3. GhostsGrow
  BY <1>1, <1>2, QuietGhosts
<1>4. ASSUME NEW e \in Events
      PROVE  Honest(e, stored[e])' /\ Honest(e, stale[e])'
             /\ \A c \in Callers : Honest(e, snap[c][e])'
  <2>1. PICK r \in Record : r = EmptyDoc[e] /\ Honest(e, r)
    BY BlankHonest, RecordTypes DEF Doc
  <2>2. PICK q \in Record : q = stored[e] /\ Honest(e, q)
    BY DEF TruthInv, TypeInv, StoreTypeOK, Doc
  <2>3. Honest(e, r)' /\ Honest(e, q)'
    BY <1>3, <2>1, <2>2, HonestKept
  <2>4. QED
    BY <1>1, <2>1, <2>2, <2>3 DEF Honest
<1>5. \A c \in Callers : OpHonest(op[c])'
  BY <1>1 DEF OpHonest, NoOp, Remove
<1>6. QED
  BY <1>1, <1>4, <1>5, NoOpHonest DEF TruthInv, Releases
-----------------------------------------------------------------------------
(* The theorems. *)

LEMMA NextTruth ==
  ASSUME TypeInv, TypeInv', TruthInv, [Next]_vars
  PROVE  TruthInv'
<1>1. ASSUME NEW s \in Volatile, Toggle(s)
      PROVE  TruthInv'
  <2>1. UNCHANGED <<storeVars, loopVars, timerVars, ghostVars>>
    BY <1>1 DEF Toggle
  <2>2. QED
    BY <2>1 DEF TruthInv, storeVars, callVars, loopVars, timerVars, ghostVars, Honest, Earned,
                Owed, OpHonest, Releases
<1>2. CASE UNCHANGED vars
  BY <1>2 DEF TruthInv, vars, storeVars, callVars, loopVars, timerVars, ghostVars, Honest,
              Earned, Owed, OpHonest, Releases
<1>3. QED
  BY <1>1, <1>2, BridgeStoreTruth, ServeTruth, LoopStepTruth, TimerStepTruth, CrashTruth DEF Next

LEMMA TruthInvariant == Spec => []TruthInv
<1>1. Init => TruthInv
  <2> SUFFICES ASSUME Init PROVE TruthInv
    OBVIOUS
  <2>1. \A e \in Events : ~Owed(e)
    BY NoOpHonest DEF Init, StoreInit, Owed
  <2>2. ASSUME NEW e \in Events
        PROVE  Honest(e, Absent) /\ Honest(e, NewEvent) /\ Honest(e, EmptyDoc[e])
    <3>1. Earned(e, 0)
      BY DEF Init, Earned
    <3>2. Absent.retry = 0 /\ Absent.status = "absent" /\ EmptyDoc[e] = Absent
      BY DEF Absent, EmptyDoc
    <3>3. NewEvent.retry = 0 /\ NewEvent.status = "new"
      BY DEF NewEvent
    <3>4. QED
      BY <2>1, <3>1, <3>2, <3>3 DEF Honest
  <2>3. \A e \in Events : Honest(e, stored[e])
    BY <2>2, ProcessorAssumption DEF Init, StoreInit
  <2>4. QED
    BY <2>2, <2>3, NoOpHonest DEF Init, StoreInit, TruthInv, Releases
<1>2. TypeInv /\ TypeInv' /\ TruthInv /\ [Next]_vars => TruthInv'
  BY NextTruth
<1>3. QED
  BY <1>1, <1>2, TypeInvariant, PTL DEF Spec

\* A completed event was accepted by the router, whatever writes were lost.
THEOREM CompletedWereRouted == Spec => []CompletedWasRouted
<1>1. TruthInv => CompletedWasRouted
  BY DEF TruthInv, Honest, CompletedWasRouted
<1>2. QED
  BY <1>1, TruthInvariant, PTL

\* An errored event was given to the router config.maxRetries times at least.
THEOREM ErroredWereRetried == Spec => []ErroredWasRetried
<1>1. TruthInv => ErroredWasRetried
  BY DEF TruthInv, Honest, ErroredWasRetried
<1>2. QED
  BY <1>1, TruthInvariant, PTL
-----------------------------------------------------------------------------
(***************************************************************************)
(* The bridge queue and the processing loop alone, over a storage that may *)
(* fail.  By PairInv (EventStoreProofs) what an operation of the loop      *)
(* writes is computed from the document as it is; a save of the bridge may *)
(* be computed from an empty one, and then every other event is lost.  The *)
(* invariants below say whose event each pending call is about and what    *)
(* the document holds for it, if it was not lost.                          *)
(***************************************************************************)
BridgeAndLoop == Callers = {"bridge", "loop"}

\* The events the bridge has still to bring into the document.
Expected == {e \in Events : \/ e \notin arrived
                            \/ phase["bridge"] # "idle" /\ op["bridge"] = Save(e, NewEvent)}

Gone(e) == stored[e].status = "absent"

\* The loop has picked an event and not let go of it.
Held == pick # NoEvent /\ ~(pc = "closing" /\ phase["loop"] = "idle")

\* It has taken the event as well, and the store has not settled it.
Taken == \/ pc = "acquiring" /\ Returned("ok")
         \/ pc = "route"
         \/ pc = "completing" /\ ~Returned("ok")
         \/ pc = "closing" /\ phase["loop"] # "idle"

LoopCall ==
    \/ pc = "acquiring" /\ op["loop"] = On("acquire", pick)
    \/ pc = "completing" /\ op["loop"] = On("complete", pick)
    \/ pc = "closing" /\ \E kind \in {"release", "requeue", "error"} : op["loop"] = On(kind, pick)

\* What the loop believes of its event is what the document says.
HoldInv ==
    /\ phase["loop"] # "idle" => LoopCall
    /\ pc = "idle" => pick = NoEvent
    /\ Held => Gone(pick) \/ stored[pick].retry = tries
    /\ Taken => Gone(pick) \/ stored[pick].status = "processing"

\* The bridge saves an event that is neither in the document nor held.
BridgeInv ==
    /\ phase["bridge"] # "idle" => \E e \in arrived : op["bridge"] = Save(e, NewEvent)
    /\ \A e \in Expected : Gone(e) /\ pick # e

PipeInv == TypeInv /\ TruthInv /\ PairInv /\ HoldInv /\ BridgeInv

LEMMA LoopInCallers ==
  ASSUME BridgeAndLoop
  PROVE  "loop" \in Callers /\ "bridge" \in Callers
  BY DEF BridgeAndLoop

LEMMA RecordsOf ==
  ASSUME TypeInv, NEW e \in Events
  PROVE  stored[e] \in Record /\ stored[e].retry \in Nat
  BY DEF TypeInv, StoreTypeOK, Doc, Record

LEMMA FaultsAre ==
  ASSUME TypeInv
  PROVE  faults \in Nat /\ MaxFaults \in Nat /\ faults <= MaxFaults
  BY StoreAssumption DEF TypeInv, StoreTypeOK

\* While the loop calls nothing, it has no operation in the store.
LEMMA LoopIdle ==
  ASSUME BridgeAndLoop, PipeInv, phase["loop"] = "idle" \/ pc \in {"idle", "scan", "acquire", "route"}
  PROVE  phase["loop"] = "idle" /\ op["loop"] = NoOp /\ op["loop"].kind = "remove"
<1>1. phase["loop"] = "idle"
  BY DEF PipeInv, HoldInv, LoopCall
<1>2. op["loop"] = NoOp
  BY <1>1, LoopInCallers DEF PipeInv, TruthInv
<1>3. QED
  BY <1>1, <1>2 DEF NoOp, Remove

LEMMA HeldEvent ==
  ASSUME TypeInv, Held \/ Taken
  PROVE  pick \in Events
  BY DEF TypeInv, LoopTypeOK, Held, Taken

-----------------------------------------------------------------------------
(* What a storage step does. *)

\* It settles nothing.
Quiet ==
    /\ UNCHANGED <<stored, op, result>>
    /\ \A d \in Callers : phase'[d] = "idle" <=> phase[d] = "idle"

\* It settles c's operation.
Ends(c, r) ==
    /\ phase[c] # "idle" /\ phase'[c] = "idle" /\ result'[c] = r /\ op'[c] = NoOp
    /\ \A d \in Callers \ {c} :
          /\ phase'[d] = "idle" <=> phase[d] = "idle"
          /\ op'[d] = op[d] /\ result'[d] = result[d]

\* It stores the bridge's event e, and loses others only if the storage failed.
Stores(e) ==
    /\ op["bridge"] = Save(e, NewEvent)
    /\ Ends("bridge", "ok")
    /\ stored'[e] = NewEvent
    /\ \A x \in Events \ {e} : stored'[x] = stored[x] \/ (faults > 0 /\ stored'[x] = Absent)

\* It does what the loop called for its event.
LoopWrites ==
    /\ Ends("loop", "ok")
    /\ LoopCall
    /\ pick \in Events
    /\ Accepts(op["loop"], stored)
    /\ stored' = [stored EXCEPT ![pick] = Changed(op["loop"], stored[pick])]

\* The loop's call fails, because the storage did or its event is not there.
LoopFails ==
    /\ Ends("loop", "failed")
    /\ LoopCall
    /\ UNCHANGED stored
    /\ faults < faults' \/ ~Accepts(op["loop"], stored)

Effect ==
    \/ Quiet
    \/ UNCHANGED stored /\ Ends("bridge", "failed")
    \/ \E e \in arrived : Stores(e)
    \/ LoopWrites
    \/ LoopFails

LEMMA SettleEnds ==
  ASSUME TypeInv, NEW c \in Callers, NEW r \in {"ok", "failed"}, phase[c] # "idle", Settle(c, r)
  PROVE  Ends(c, r)
<1>1. StoreTypeOK
  BY DEF TypeInv
<1>2. phase'[c] = "idle" /\ result'[c] = r /\ op'[c] = NoOp
  BY <1>1 DEF Settle, StoreTypeOK
<1>3. ASSUME NEW d \in Callers \ {c}
      PROVE  /\ phase'[d] = "idle" <=> phase[d] = "idle"
             /\ op'[d] = op[d] /\ result'[d] = result[d]
  BY <1>1 DEF Settle, Awaiting, StoreTypeOK
<1>4. QED
  BY <1>2, <1>3 DEF Ends

\* What an operation of the loop checks.
LEMMA LoopAccepts ==
  ASSUME LoopCall, NEW d
  PROVE  /\ op["loop"].evs = {pick}
         /\ op["loop"].kind \in {"acquire", "release", "requeue", "complete", "error"}
         /\ Accepts(op["loop"], d) <=>
              d[pick].status = IF op["loop"].kind = "acquire" THEN "new" ELSE "processing"
<1>1. /\ op["loop"].evs = {pick}
      /\ op["loop"].kind \in {"acquire", "release", "requeue", "complete", "error"}
  BY DEF LoopCall, On
<1>2. QED
  BY <1>1 DEF Accepts

\* A read is refused only if it is the loop's.
LEMMA ReadEffect ==
  ASSUME BridgeAndLoop, PipeInv, NEW c \in Callers, NEW d, ReadAs(c, d),
         d = stored \/ faults < faults'
  PROVE  Effect
<1>1. phase[c] = "reading" /\ UNCHANGED stored
  BY DEF ReadAs
<1>2. CASE phase' = [phase EXCEPT ![c] = "writing"] /\ UNCHANGED <<op, result>>
  BY <1>1, <1>2 DEF Effect, Quiet, PipeInv, TypeInv, StoreTypeOK
<1>3. CASE ~Accepts(op[c], d) /\ Settle(c, "failed")
  <2>1. c # "bridge"
    <3>1. SUFFICES ASSUME c = "bridge" PROVE FALSE
      OBVIOUS
    <3>2. PICK e \in arrived : op["bridge"] = Save(e, NewEvent)
      BY <1>1, <3>1 DEF PipeInv, BridgeInv
    <3>3. op[c].kind = "save"
      BY <3>1, <3>2 DEF Save
    <3>4. QED
      BY <1>3, <3>3 DEF Accepts
  <2>2. c = "loop" /\ LoopCall
    BY <1>1, <2>1 DEF BridgeAndLoop, PipeInv, HoldInv
  <2>3. Ends("loop", "failed")
    BY <1>1, <1>3, <2>2, SettleEnds DEF PipeInv
  <2>4. faults < faults' \/ ~Accepts(op["loop"], stored)
    BY <1>3, <2>2
  <2>5. QED
    BY <1>1, <2>2, <2>3, <2>4 DEF Effect, LoopFails
<1>4. QED
  BY <1>2, <1>3 DEF ReadAs

LEMMA WriteEffect ==
  ASSUME BridgeAndLoop, PipeInv, NEW c \in Callers, Write(c)
  PROVE  Effect
<1>1. /\ phase[c] = "writing" /\ stored' = Apply(op[c], snap[c]) /\ Ends(c, "ok")
      /\ stored \in [Events -> Record]
  BY SettleEnds DEF Write, PipeInv, TypeInv, StoreTypeOK, Doc
<1>2. Accepts(op[c], snap[c]) /\ (snap[c] = stored \/ (faults > 0 /\ snap[c] = EmptyDoc))
  BY <1>1 DEF PipeInv, PairInv, SavesAreAtomic
<1>3. CASE c = "bridge"
  <2>1. PICK e \in arrived : op["bridge"] = Save(e, NewEvent)
    BY <1>1, <1>3 DEF PipeInv, BridgeInv
  <2>2. e \in Events /\ op["bridge"].kind = "save" /\ op["bridge"].evs = {e}
        /\ op["bridge"].rec = NewEvent
    BY <2>1 DEF PipeInv, TypeInv, LoopTypeOK, Save
  <2>3. stored'[e] = NewEvent
    BY <1>1, <1>3, <2>2 DEF Apply, Changed
  <2>4. ASSUME NEW x \in Events \ {e}
        PROVE  stored'[x] = stored[x] \/ (faults > 0 /\ stored'[x] = Absent)
    <3>1. stored'[x] = snap[c][x]
      BY <1>1, <1>3, <2>2, <2>4 DEF Apply
    <3>2. QED
      BY <1>2, <3>1 DEF EmptyDoc
  <2>5. QED
    BY <1>1, <1>3, <2>1, <2>3, <2>4 DEF Effect, Stores
<1>4. CASE c = "loop"
  <2>1. LoopCall
    BY <1>1, <1>4 DEF PipeInv, HoldInv
  <2>2. pick \in Events
    BY <2>1 DEF LoopCall, PipeInv, TypeInv, LoopTypeOK
  <2>3. snap[c] # EmptyDoc
    <3>1. EmptyDoc[pick].status = "absent"
      BY <2>2 DEF EmptyDoc, Absent
    <3>2. QED
      BY <1>2, <1>4, <2>1, <3>1, LoopAccepts
  <2>4. snap[c] = stored
    BY <1>2, <2>3
  <2>5. stored' = [x \in Events |-> IF x = pick THEN Changed(op["loop"], stored[x]) ELSE stored[x]]
    <3>1. \A x \in Events : x \in op["loop"].evs <=> x = pick
      BY <2>1, LoopAccepts
    <3>2. QED
      BY <1>1, <1>4, <2>4, <3>1 DEF Apply
  <2>6. stored' = [stored EXCEPT ![pick] = Changed(op["loop"], stored[pick])]
    BY <1>1, <2>5
  <2>7. QED
    BY <1>1, <1>2, <1>4, <2>1, <2>2, <2>4, <2>6 DEF Effect, LoopWrites
<1>5. QED
  BY <1>3, <1>4 DEF BridgeAndLoop

LEMMA ServeEffect ==
  ASSUME BridgeAndLoop, PipeInv, NEW c \in Callers, ServeCall(c)
  PROVE  /\ Effect
         /\ faults <= faults'
         /\ UNCHANGED <<arrived, pc, pick, tries, attempts, routed>>
<1>1. faults \in Nat
  BY FaultsAre DEF PipeInv
<1>2. UNCHANGED <<arrived, pc, pick, tries, attempts, routed>>
  BY DEF ServeCall, loopVars, ghostVars
<1>3. ASSUME Read(c)
      PROVE  Effect /\ faults <= faults'
  <2>1. ReadAs(c, stored) /\ faults' = faults
    BY <1>3 DEF Read
  <2>2. QED
    BY <1>1, <2>1, ReadEffect
<1>4. ASSUME ReadFault(c)
      PROVE  Effect /\ faults <= faults'
  <2>1. ReadAs(c, EmptyDoc) /\ faults' = faults + 1
    BY <1>4 DEF ReadFault
  <2>2. QED
    BY <1>1, <2>1, ReadEffect
<1>5. ASSUME Write(c)
      PROVE  Effect /\ faults <= faults'
  BY <1>1, <1>5, WriteEffect DEF Write
<1>6. ASSUME WriteFault(c)
      PROVE  Effect /\ faults <= faults'
  <2>1. /\ faults' = faults + 1 /\ UNCHANGED stored /\ phase[c] # "idle"
        /\ Settle(c, "failed")
    BY <1>6 DEF WriteFault
  <2>2. Ends(c, "failed")
    BY <2>1, SettleEnds DEF PipeInv
  <2>3. c = "loop" => LoopCall
    BY <2>1 DEF PipeInv, HoldInv
  <2>4. QED
    BY <1>1, <2>1, <2>2, <2>3 DEF Effect, LoopFails, BridgeAndLoop
<1>7. QED
  BY <1>2, <1>3, <1>4, <1>5, <1>6 DEF ServeCall, StoreStep
-----------------------------------------------------------------------------
(* The invariants that say whose event each pending call is about. *)

\* A step that leaves the loop and its call alone, and at most loses its event.
LEMMA HoldKept ==
  ASSUME TypeInv, HoldInv, UNCHANGED <<pc, pick, tries>>,
         pick \in Events => stored'[pick] = stored[pick] \/ stored'[pick] = Absent,
         phase'["loop"] = "idle" <=> phase["loop"] = "idle",
         op'["loop"] = op["loop"], result'["loop"] = result["loop"]
  PROVE  HoldInv'
<1>1. (Held' <=> Held) /\ (Taken' <=> Taken) /\ (LoopCall' <=> LoopCall)
  BY DEF Held, Taken, Returned, LoopCall, On
<1>2. pick \in Events => \/ (stored'[pick]).status = "absent"
                         \/ stored'[pick] = stored[pick]
  BY DEF Absent
<1>3. Held \/ Taken => pick \in Events
  BY HeldEvent
<1>4. Held => Gone(pick)' \/ (stored'[pick]).retry = tries'
  BY <1>2, <1>3 DEF HoldInv, Gone
<1>5. Taken => Gone(pick)' \/ (stored'[pick]).status = "processing"
  BY <1>2, <1>3 DEF HoldInv, Gone
<1>6. QED
  BY <1>1, <1>4, <1>5 DEF HoldInv

LEMMA ServeHold ==
  ASSUME BridgeAndLoop, PipeInv, NEW c \in Callers, ServeCall(c)
  PROVE  HoldInv'
<1>1. UNCHANGED <<pc, pick, tries>> /\ Effect
  BY ServeEffect
<1>2. CASE Quiet \/ (UNCHANGED stored /\ Ends("bridge", "failed"))
  BY <1>1, <1>2, LoopInCallers, HoldKept DEF Quiet, Ends, PipeInv
<1>3. ASSUME NEW e \in arrived, Stores(e)
      PROVE  HoldInv'
  <2>1. /\ phase'["loop"] = "idle" <=> phase["loop"] = "idle"
        /\ op'["loop"] = op["loop"] /\ result'["loop"] = result["loop"]
    BY <1>3, LoopInCallers DEF Stores, Ends
  <2>2. e \in Expected
    BY <1>3 DEF Stores, Ends, Expected, PipeInv, TypeInv, LoopTypeOK
  <2>3. pick \in Events => stored'[pick] = stored[pick] \/ stored'[pick] = Absent
    BY <1>3, <2>2 DEF Stores, PipeInv, BridgeInv
  <2>4. QED
    BY <1>1, <2>1, <2>3, HoldKept DEF PipeInv
<1>4. CASE LoopWrites
  <2>1. /\ phase["loop"] # "idle" /\ phase'["loop"] = "idle" /\ result'["loop"] = "ok"
        /\ pc \in {"acquiring", "completing", "closing"} /\ pick \in Events
    BY <1>4 DEF LoopWrites, Ends, LoopCall
  <2>2. stored[pick] \in Record /\ stored'[pick] = Changed(op["loop"], stored[pick])
    BY <1>4, <2>1, RecordsOf DEF LoopWrites, PipeInv, TypeInv, StoreTypeOK, Doc
  <2>3. ~(Gone(pick)) /\ stored[pick].retry = tries
    <3>1. stored[pick].status \in {"new", "processing"}
      BY <1>4, LoopAccepts DEF LoopWrites
    <3>2. Held
      BY <2>1, ProcessorAssumption DEF Held
    <3>3. QED
      BY <3>1, <3>2 DEF PipeInv, HoldInv, Gone
  <2>4. CASE pc = "acquiring"
    <3>1. op["loop"].kind = "acquire"
      BY <1>4, <2>4 DEF LoopWrites, LoopCall, On
    <3>2. (stored'[pick]).status = "processing" /\ (stored'[pick]).retry = tries
      BY <2>2, <2>3, <3>1 DEF Changed, Record
    <3>3. QED
      BY <1>1, <2>1, <2>4, <3>2 DEF HoldInv
  <2>5. CASE pc = "completing"
    <3>1. op["loop"].kind = "complete"
      BY <1>4, <2>5 DEF LoopWrites, LoopCall, On
    <3>2. (stored'[pick]).retry = tries
      BY <2>2, <2>3, <3>1 DEF Changed, Record
    <3>3. ~Taken'
      BY <1>1, <2>1, <2>5 DEF Taken, Returned
    <3>4. QED
      BY <1>1, <2>1, <2>5, <3>2, <3>3 DEF HoldInv
  <2>6. CASE pc = "closing"
    BY <1>1, <2>1, <2>6 DEF HoldInv, Held, Taken
  <2>7. QED
    BY <2>1, <2>4, <2>5, <2>6
<1>5. CASE LoopFails
  <2>1. /\ phase["loop"] # "idle" /\ phase'["loop"] = "idle" /\ result'["loop"] = "failed"
        /\ pc \in {"acquiring", "completing", "closing"} /\ UNCHANGED stored
    BY <1>5 DEF LoopFails, Ends, LoopCall
  <2>2. (Held' => Held) /\ (Taken' => Taken)
    BY <1>1, <2>1 DEF Held, Taken, Returned
  <2>3. QED
    BY <1>1, <2>1, <2>2 DEF PipeInv, HoldInv, Gone
<1>6. QED
  BY <1>1, <1>2, <1>3, <1>4, <1>5 DEF Effect

\* The loop calls the store about an event it has picked or taken.
LEMMA LoopCallHold ==
  ASSUME BridgeAndLoop, PipeInv, NEW kind, NEW p, Call(kind, p),
         \/ kind = "acquire" /\ p = "acquiring" /\ Held
         \/ kind = "complete" /\ p = "completing" /\ Taken
         \/ kind \in {"release", "requeue", "error"} /\ p = "closing" /\ Taken
  PROVE  HoldInv'
<1>1. /\ phase["loop"] = "idle" /\ phase'["loop"] # "idle" /\ op'["loop"] = On(kind, pick)
      /\ UNCHANGED <<stored, pick, tries>> /\ pc' = p
  BY LoopInCallers DEF Call, Start, Enter, PipeInv, TypeInv, StoreTypeOK
<1>2. LoopCall'
  BY <1>1 DEF LoopCall, On
<1>3. Held
  BY <1>1 DEF Held, Taken, Returned, PipeInv, TypeInv, LoopTypeOK
<1>4. Taken' => Taken
  BY <1>1 DEF Taken, Returned
<1>5. QED
  BY <1>1, <1>2, <1>3, <1>4 DEF HoldInv, PipeInv, Gone

\* What the scan picks is new in the document, with the retries it has there.
LEMMA ScanPick ==
  ASSUME NEW s, ScanRead(NewEventsOf(s)) \/ ScanRead({})
  PROVE  \/ UNCHANGED <<pick, tries>>
         \/ /\ pick' \in Events /\ stored[pick'].status = "new" /\ Source[pick'] = s
            /\ tries' = stored[pick'].retry
            /\ \A f \in NewEventsOf(s) : pick' <= f
  BY DEF ScanRead, Consider, NewEventsOf

LEMMA ScanHold ==
  ASSUME BridgeAndLoop, PipeInv, NEW s, ScanRead(NewEventsOf(s)) \/ ScanRead({}), pc = "scan",
         pc' \in {"scan", "acquire"} \/ (pc' = "idle" /\ pick' = NoEvent),
         UNCHANGED <<stored, phase, op, result>>
  PROVE  HoldInv'
<1>1. phase["loop"] = "idle"
  BY LoopIdle
<1>2. ~Taken' /\ (Held' => pick' # NoEvent)
  BY <1>1 DEF Held, Taken
<1>3. pick # NoEvent => Gone(pick) \/ stored[pick].retry = tries
  BY DEF PipeInv, HoldInv, Held
<1>4. pick' # NoEvent => stored[pick'].status = "absent" \/ stored[pick'].retry = tries'
  BY <1>3, ScanPick DEF Gone
<1>5. QED
  BY <1>1, <1>2, <1>4 DEF HoldInv, Gone

\* The loop lets go of its event.
LEMMA DoneHold ==
  ASSUME Done, phase["loop"] = "idle", UNCHANGED storeVars
  PROVE  HoldInv'
  BY DEF Done, HoldInv, Held, Taken, storeVars, callVars

LEMMA LoopStepHold ==
  ASSUME BridgeAndLoop, PipeInv, LoopStep
  PROVE  HoldInv'
<1>1. CASE ScanBegin
  <2>1. pick = NoEvent /\ phase["loop"] = "idle"
    BY <1>1, LoopIdle DEF ScanBegin, PipeInv, HoldInv
  <2>2. QED
    BY <1>1, <2>1 DEF ScanBegin, HoldInv, Held, Taken, storeVars, callVars
<1>2. ASSUME NEW w \in Wallets, ScanWallet(w)
      PROVE  HoldInv'
  BY <1>2, ScanHold DEF ScanWallet, callVars
<1>3. CASE ScanEnd
  BY <1>3, ScanHold DEF ScanEnd, callVars
<1>4. CASE Acquire
  BY <1>4, LoopCallHold DEF Acquire, Held, PipeInv, TypeInv, LoopTypeOK
<1>5. CASE NotAcquired \/ Completed \/ Closed
  BY <1>5, DoneHold DEF NotAcquired, Completed, Closed, Returned
<1>6. CASE GiveUp
  BY <1>6, LoopCallHold DEF GiveUp, Taken
<1>7. CASE Route
  <2>1. Taken /\ Held
    BY <1>7 DEF Route, Taken, Held, PipeInv, TypeInv, LoopTypeOK
  <2>2. phase'["loop"] = "idle" /\ UNCHANGED <<stored, pick, tries>> /\ pc' = "route"
    BY <1>7 DEF Route, Returned, storeVars, callVars
  <2>3. QED
    BY <2>1, <2>2 DEF PipeInv, HoldInv, Gone
<1>8. CASE RouteOk
  BY <1>8, LoopCallHold DEF RouteOk, Taken
<1>9. CASE RouteThrows
  BY <1>9, LoopCallHold DEF RouteThrows, Taken
<1>10. CASE NotCompleted
  <2>1. Taken
    BY <1>10 DEF NotCompleted, Taken, Returned
  <2>2. QED
    BY <1>10, <2>1, LoopCallHold DEF NotCompleted
<1>11. QED
  BY <1>1, <1>2, <1>3, <1>4, <1>5, <1>6, <1>7, <1>8, <1>9, <1>10 DEF LoopStep

\* Without the timers among the callers, no timer does anything.
LEMMA NoTimers ==
  ASSUME BridgeAndLoop, TypeInv
  PROVE  ~TimerStep
<1>1. stale = EmptyDoc /\ doomed = {}
  BY DEF BridgeAndLoop, TypeInv, TimersRun
<1>2. \A S : ~RecoveryScan(S) /\ ~CleanupScan(S)
  BY DEF BridgeAndLoop, RecoveryScan, CleanupScan
<1>3. \A e \in Events : ~RecoverySave(e)
  BY <1>1 DEF RecoverySave, EmptyDoc
<1>4. ~RecoveryAbort /\ ~CleanupRemove
  BY <1>1 DEF RecoveryAbort, CleanupRemove
<1>5. QED
  BY <1>2, <1>3, <1>4 DEF TimerStep

\* A call of the bridge, a change of a session and a stutter leave alone what
\* the loop and its call are about.
LEMMA OthersQuiet ==
  ASSUME BridgeAndLoop, PipeInv,
         (\E e \in Events : BridgeStore(e)) \/ (\E s \in Volatile : Toggle(s)) \/ UNCHANGED vars
  PROVE  /\ UNCHANGED <<stored, pc, pick, tries, attempts, routed, faults>>
         /\ phase'["loop"] = phase["loop"] /\ op'["loop"] = op["loop"]
         /\ result'["loop"] = result["loop"]
<1>1. CASE \E e \in Events : BridgeStore(e)
  BY <1>1, LoopInCallers DEF BridgeStore, Start, Enter, PipeInv, TypeInv, StoreTypeOK, loopVars,
                             ghostVars
<1>2. CASE (\E s \in Volatile : Toggle(s)) \/ UNCHANGED vars
  BY <1>2 DEF Toggle, vars, storeVars, callVars, loopVars, ghostVars
<1>3. QED
  BY <1>1, <1>2

LEMMA CrashHold ==
  ASSUME BridgeAndLoop, Crash
  PROVE  HoldInv'
  BY LoopInCallers DEF Crash, StoreCrash, HoldInv, Held, Taken, NoOp

LEMMA NextHold ==
  ASSUME BridgeAndLoop, PipeInv, [Next]_vars
  PROVE  HoldInv'
<1>1. CASE (\E e \in Events : BridgeStore(e)) \/ (\E s \in Volatile : Toggle(s)) \/ UNCHANGED vars
  BY <1>1, OthersQuiet, HoldKept DEF PipeInv
<1>2. ~TimerStep
  BY NoTimers DEF PipeInv
<1>3. QED
  BY <1>1, <1>2, ServeHold, LoopStepHold, CrashHold DEF Next

\* A storage step brings no event back among the expected ones, and one that
\* stores an event takes it from them.
LEMMA ServeExpected ==
  ASSUME BridgeAndLoop, PipeInv, NEW c \in Callers, ServeCall(c)
  PROVE  /\ Expected' \subseteq Expected
         /\ \A e \in arrived : Stores(e) => e \in Expected \ Expected'
<1>1. UNCHANGED arrived /\ Effect /\ arrived \subseteq Events
  BY ServeEffect DEF PipeInv, TypeInv, LoopTypeOK
<1>2. \/ phase'["bridge"] = "idle"
      \/ phase["bridge"] # "idle" /\ op'["bridge"] = op["bridge"]
  BY <1>1, LoopInCallers DEF Effect, Quiet, Ends, Stores, LoopWrites, LoopFails
<1>3. Expected' \subseteq Expected
  BY <1>1, <1>2 DEF Expected, Save
<1>4. ASSUME NEW e \in arrived, Stores(e)
      PROVE  e \in Expected \ Expected'
  BY <1>1, <1>4 DEF Stores, Ends, Expected
<1>5. QED
  BY <1>3, <1>4

LEMMA ServeBridge ==
  ASSUME BridgeAndLoop, PipeInv, NEW c \in Callers, ServeCall(c)
  PROVE  BridgeInv'
<1>1. UNCHANGED <<arrived, pick>> /\ Effect /\ Expected' \subseteq Expected
  BY ServeEffect, ServeExpected
<1>2. (phase["bridge"] # "idle" => \E e \in arrived : op["bridge"] = Save(e, NewEvent))'
  BY <1>1, LoopInCallers
     DEF Effect, Quiet, Ends, Stores, LoopWrites, LoopFails, PipeInv, BridgeInv, Save
<1>3. ASSUME NEW e \in Expected'
      PROVE  Gone(e)' /\ pick' # e
  <2>1. e \in Expected /\ e \in Events /\ Gone(e) /\ pick # e
    BY <1>1, <1>3 DEF PipeInv, BridgeInv, Expected
  <2>2. stored'[e] = stored[e] \/ stored'[e] = Absent
    <3>1. \A x \in arrived : Stores(x) => x # e
      BY <1>3, ServeExpected
    <3>2. stored \in [Events -> Record]
      BY DEF PipeInv, TypeInv, StoreTypeOK, Doc
    <3>3. QED
      BY <1>1, <2>1, <3>1, <3>2 DEF Effect, Quiet, Stores, LoopWrites, LoopFails
  <2>3. QED
    BY <1>1, <2>1, <2>2 DEF Gone, Absent
<1>4. QED
  BY <1>2, <1>3 DEF BridgeInv

LEMMA BridgeCallBridge ==
  ASSUME BridgeAndLoop, PipeInv, NEW e \in Events, BridgeStore(e)
  PROVE  BridgeInv' /\ Expected' \subseteq Expected
<1>1. /\ op'["bridge"] = Save(e, NewEvent) /\ arrived' = arrived \cup {e}
      /\ UNCHANGED <<stored, pick>> /\ e \notin arrived
  BY LoopInCallers DEF BridgeStore, Start, PipeInv, TypeInv, StoreTypeOK, loopVars
<1>2. \A x : Save(x, NewEvent) = Save(e, NewEvent) => x = e
  BY DEF Save
<1>3. Expected' \subseteq Expected
  BY <1>1, <1>2 DEF Expected, Save
<1>4. (\E x \in arrived : op["bridge"] = Save(x, NewEvent))'
  BY <1>1 DEF Save
<1>5. QED
  BY <1>1, <1>3, <1>4 DEF PipeInv, BridgeInv, Gone

\* The steps of the loop leave the document and the bridge alone.
LEMMA LoopStepQuiet ==
  ASSUME BridgeAndLoop, PipeInv, LoopStep
  PROVE  /\ UNCHANGED <<stored, arrived, crashes>>
         /\ phase'["bridge"] = phase["bridge"] /\ op'["bridge"] = op["bridge"]
         /\ Expected' = Expected
         /\ faults <= faults'
<1>1. UNCHANGED <<stored, arrived, crashes>>
  BY DEF LoopStep, ScanBegin, ScanWallet, ScanEnd, Acquire, NotAcquired, GiveUp, Route, RouteOk,
         RouteThrows, Completed, NotCompleted, Closed, Call, Start, storeVars
<1>2. phase'["bridge"] = phase["bridge"] /\ op'["bridge"] = op["bridge"]
  <2>1. CASE \E kind, p : Call(kind, p)
    BY <2>1, LoopInCallers DEF Call, Start, Enter, PipeInv, TypeInv, StoreTypeOK
  <2>2. CASE UNCHANGED callVars
    BY <2>2 DEF callVars
  <2>3. QED
    BY <2>1, <2>2 DEF LoopStep, ScanBegin, ScanWallet, ScanEnd, Acquire, NotAcquired, GiveUp,
         Route, RouteOk, RouteThrows, Completed, NotCompleted, Closed, storeVars
<1>3. faults' = faults \/ faults' = faults + 1
  BY DEF LoopStep, ScanBegin, ScanWallet, ScanEnd, Acquire, NotAcquired, GiveUp, Route, RouteOk,
         RouteThrows, Completed, NotCompleted, Closed, Call, Start, storeVars, ScanRead
<1>4. faults <= faults'
  BY <1>3, FaultsAre DEF PipeInv
<1>5. QED
  BY <1>1, <1>2, <1>4 DEF Expected, Save

\* The loop keeps its event, lets go of it, or picks one that waits.
LEMMA LoopStepPick ==
  ASSUME BridgeAndLoop, PipeInv, LoopStep
  PROVE  \/ UNCHANGED pick
         \/ pick' = NoEvent
         \/ pick' \in Events /\ stored[pick'].status = "new"
<1>1. ASSUME NEW w \in Wallets, ScanWallet(w)
      PROVE  UNCHANGED pick \/ (pick' \in Events /\ stored[pick'].status = "new")
  BY <1>1, ScanPick DEF ScanWallet
<1>2. ASSUME ScanEnd
      PROVE  UNCHANGED pick \/ (pick' \in Events /\ stored[pick'].status = "new")
  BY <1>2, ScanPick DEF ScanEnd
<1>3. QED
  BY <1>1, <1>2 DEF LoopStep, ScanBegin, Acquire, NotAcquired, GiveUp, Route, RouteOk,
         RouteThrows, Completed, NotCompleted, Closed, Call, Done

LEMMA LoopStepBridge ==
  ASSUME BridgeAndLoop, PipeInv, LoopStep
  PROVE  BridgeInv'
<1>1. /\ UNCHANGED <<stored, arrived>> /\ phase'["bridge"] = phase["bridge"]
      /\ op'["bridge"] = op["bridge"] /\ Expected' = Expected
  BY LoopStepQuiet
<1>2. \A e \in Expected : Gone(e) /\ pick # e /\ NoEvent # e
  BY ProcessorAssumption DEF PipeInv, BridgeInv, Expected
<1>3. \A e \in Expected : pick' # e
  BY <1>2, LoopStepPick DEF Gone
<1>4. QED
  BY <1>1, <1>2, <1>3 DEF PipeInv, BridgeInv, Gone, Save

LEMMA CrashBridge ==
  ASSUME BridgeAndLoop, PipeInv, Crash
  PROVE  BridgeInv' /\ Expected' \subseteq Expected
<1>1. /\ phase'["bridge"] = "idle" /\ UNCHANGED <<stored, arrived>> /\ pick' = NoEvent
  BY LoopInCallers DEF Crash, StoreCrash
<1>2. Expected' \subseteq Expected /\ NoEvent \notin Events
  BY <1>1, ProcessorAssumption DEF Expected
<1>3. QED
  BY <1>1, <1>2 DEF PipeInv, BridgeInv, Gone, Expected

LEMMA NextBridge ==
  ASSUME BridgeAndLoop, PipeInv, [Next]_vars
  PROVE  BridgeInv' /\ Expected' \subseteq Expected
<1>1. ASSUME (\E s \in Volatile : Toggle(s)) \/ UNCHANGED vars
      PROVE  BridgeInv' /\ Expected' \subseteq Expected
  <2>1. UNCHANGED <<stored, arrived, pick, phase, op>>
    BY <1>1 DEF Toggle, vars, storeVars, callVars, loopVars
  <2>2. QED
    BY <2>1 DEF PipeInv, BridgeInv, Expected, Gone, Save
<1>2. ~TimerStep
  BY NoTimers DEF PipeInv
<1>3. ASSUME NEW c \in Callers, ServeCall(c)
      PROVE  BridgeInv' /\ Expected' \subseteq Expected
  BY <1>3, ServeBridge, ServeExpected
<1>4. ASSUME LoopStep
      PROVE  BridgeInv' /\ Expected' \subseteq Expected
  BY <1>4, LoopStepBridge, LoopStepQuiet
<1>5. QED
  BY <1>1, <1>2, <1>3, <1>4, BridgeCallBridge, CrashBridge DEF Next

LEMMA NextPair ==
  ASSUME BridgeAndLoop, PipeInv, [Next]_vars
  PROVE  PairInv'
<1>1. TwoCallers /\ StoreTypeOK /\ PairInv
  BY DEF BridgeAndLoop, TwoCallers, PipeInv, TypeInv
<1>2. ASSUME NEW e \in Events, BridgeStore(e)
      PROVE  PairInv'
  BY <1>1, <1>2, StartPair, CallTypes, RecordTypes DEF BridgeStore
<1>3. ASSUME NEW c \in Callers, ServeCall(c)
      PROVE  PairInv'
  BY <1>1, <1>3, StepPair DEF ServeCall
<1>4. CASE LoopStep
  <2>1. CASE \E kind \in Kinds : \E p : Call(kind, p) /\ pick \in Events
    BY <1>1, <2>1, StartPair, CallTypes, LoopInCallers DEF Call
  <2>2. CASE UNCHANGED <<stored, callVars>>
    <3>1. faults > 0 => faults' > 0
      BY <1>4, LoopStepQuiet, FaultsAre DEF LoopStep, ScanBegin, ScanWallet, ScanEnd, Acquire,
           NotAcquired, GiveUp, Route, RouteOk, RouteThrows, Completed, NotCompleted, Closed,
           storeVars, ScanRead, Call, Start, PipeInv
    <3>2. QED
      BY <1>1, <2>2, <3>1 DEF PairInv, SavesAreAtomic, Running, callVars
  <2>3. pc \notin {"idle", "scan"} => pick \in Events
    BY DEF PipeInv, TypeInv, LoopTypeOK
  <2>4. QED
    BY <1>4, <2>1, <2>2, <2>3 DEF LoopStep, ScanBegin, ScanWallet, ScanEnd, Acquire, NotAcquired,
         GiveUp, Route, RouteOk, RouteThrows, Completed, NotCompleted, Closed, storeVars, Kinds
<1>5. ~TimerStep
  BY NoTimers DEF PipeInv
<1>6. CASE Crash
  BY <1>6, CrashPair DEF Crash
<1>7. CASE (\E s \in Volatile : Toggle(s)) \/ UNCHANGED vars
  BY <1>1, <1>7 DEF Toggle, vars, storeVars, callVars, PairInv, SavesAreAtomic, Running
<1>8. QED
  BY <1>2, <1>3, <1>4, <1>5, <1>6, <1>7 DEF Next

LEMMA PipeInvariant == BridgeAndLoop => (Spec => []PipeInv)
<1>1. SUFFICES ASSUME BridgeAndLoop PROVE Spec => []PipeInv
  OBVIOUS
<1>2. Init => PairInv /\ HoldInv /\ BridgeInv
  <2>1. Init => PairInv
    BY InitPair DEF Init
  <2>2. Init => HoldInv
    BY <1>1, LoopInCallers DEF Init, StoreInit, HoldInv, Held, Taken
  <2>3. Init => BridgeInv
    BY <1>1, LoopInCallers, ProcessorAssumption
       DEF Init, StoreInit, BridgeInv, Expected, Gone, Absent, NewEvent
  <2>4. QED
    BY <2>1, <2>2, <2>3
<1>3. ASSUME TypeInv, TruthInv, PairInv, HoldInv, BridgeInv, [Next]_vars
      PROVE  PairInv' /\ HoldInv' /\ BridgeInv'
  BY <1>1, <1>3, NextPair, NextHold, NextBridge DEF PipeInv
<1>4. QED
  BY <1>2, <1>3, TypeInvariant, TruthInvariant, PTL DEF Spec, PipeInv
-----------------------------------------------------------------------------
(* The router accepts an event again only if the storage failed. *)

\* The loop has picked an event and not given it to the router yet.
Untried == pc \in {"scan", "acquire", "acquiring"} /\ pick # NoEvent

\* The loop puts an event back, or is about to.
PutsBack == \/ op["loop"].kind \in {"release", "requeue"}
            \/ pc = "completing" /\ Returned("failed")

\* An event that waits was accepted at most as often as the storage failed, and
\* so was one the loop may still give to the router or put back.
OnceInv ==
    /\ \A e \in Events : routed[e] <= 1 + faults
    /\ \A e \in Events : stored[e].status = "new" => routed[e] <= faults
    /\ \A e \in Expected : routed[e] = 0
    /\ Untried \/ pc = "route" => routed[pick] <= faults
    /\ PutsBack => Gone(pick) \/ routed[pick] <= faults

\* The bound rises with the faults.
LEMMA OnceRises ==
  ASSUME TypeInv, TypeInv', faults <= faults', NEW e \in Events
  PROVE  /\ routed[e] <= faults => routed[e] <= faults'
         /\ routed[e] <= 1 + faults => routed[e] <= 1 + faults'
         /\ routed[e] <= 1 + faults /\ faults < faults' => routed[e] <= faults'
<1>1. faults \in Nat /\ faults' \in Nat /\ routed[e] \in Nat
  BY StoreAssumption DEF TypeInv, StoreTypeOK, LoopTypeOK, GhostCap
<1>2. QED
  BY <1>1

\* A step that counts nothing and makes no accepted event wait.
LEMMA OnceKept ==
  ASSUME TypeInv, TypeInv', OnceInv, UNCHANGED routed, Expected' \subseteq Expected,
         faults <= faults',
         \A e \in Events : (stored'[e]).status = "new"
                               => stored'[e] = stored[e] \/ routed[e] <= faults,
         (Untried \/ pc = "route")' => pick' \in Events /\ routed[pick'] <= faults,
         PutsBack' => pick' \in Events /\ (Gone(pick)' \/ routed[pick'] <= faults')
  PROVE  OnceInv'
<1>1. \A e \in Events : routed'[e] <= 1 + faults'
  BY OnceRises DEF OnceInv
<1>2. \A e \in Events : (stored'[e]).status = "new" => routed'[e] <= faults'
  BY OnceRises DEF OnceInv
<1>3. (Untried \/ pc = "route")' => routed'[pick'] <= faults'
  BY OnceRises
<1>4. \A e \in Expected' : routed'[e] = 0
  BY DEF OnceInv
<1>5. QED
  BY <1>1, <1>2, <1>3, <1>4 DEF OnceInv

LEMMA UntriedEvent ==
  ASSUME TypeInv
  PROVE  /\ Untried \/ pc \notin {"idle", "scan"} => pick \in Events
         /\ Held \/ Taken => pick \in Events
  BY DEF TypeInv, LoopTypeOK, Untried, Held, Taken

LEMMA PutsBackEvent ==
  ASSUME BridgeAndLoop, PipeInv, PutsBack
  PROVE  pick \in Events /\ pc \in {"completing", "closing"}
<1>1. CASE op["loop"].kind \in {"release", "requeue"}
  <2>1. LoopCall
    BY <1>1, LoopIdle DEF PipeInv, HoldInv
  <2>2. pc \in {"completing", "closing"}
    BY <1>1, <2>1 DEF LoopCall, On
  <2>3. QED
    BY <2>2, UntriedEvent DEF PipeInv
<1>2. CASE pc = "completing"
  BY <1>2, UntriedEvent DEF PipeInv
<1>3. QED
  BY <1>1, <1>2 DEF PutsBack

LEMMA ServeOnce ==
  ASSUME BridgeAndLoop, PipeInv, TypeInv', OnceInv, NEW c \in Callers, ServeCall(c)
  PROVE  OnceInv'
<1>0. PICK o : o = op["loop"]
  OBVIOUS
<1>1. /\ UNCHANGED <<pc, pick, routed>> /\ Effect /\ faults <= faults'
      /\ Expected' \subseteq Expected /\ TypeInv
      /\ stored \in [Events -> Record]
  BY ServeEffect, ServeExpected DEF PipeInv, TypeInv, StoreTypeOK, Doc
<1>2. (Untried \/ pc = "route")' => pick' \in Events /\ routed[pick'] <= faults
  BY <1>1, UntriedEvent DEF Untried, OnceInv
<1>3. CASE Quiet \/ (UNCHANGED stored /\ Ends("bridge", "failed"))
  <2>1. PutsBack' => PutsBack
    BY <1>1, <1>3, LoopInCallers DEF Quiet, Ends, PutsBack, Returned
  <2>2. UNCHANGED stored
    BY <1>3 DEF Quiet
  <2>3. PutsBack' => pick' \in Events /\ (Gone(pick)' \/ routed[pick'] <= faults')
    BY <1>1, <2>1, <2>2, PutsBackEvent, OnceRises DEF OnceInv, Gone
  <2>4. QED
    BY <1>1, <1>2, <2>2, <2>3, OnceKept
<1>4. ASSUME NEW e \in arrived, Stores(e)
      PROVE  OnceInv'
  <2>1. PutsBack' => PutsBack
    BY <1>1, <1>4, LoopInCallers DEF Stores, Ends, PutsBack, Returned
  <2>2. /\ e \in Expected /\ e \in Events /\ pick # e
        /\ \A x \in Events : x # e => stored'[x] = stored[x] \/ stored'[x] = Absent
    BY <1>4, ServeExpected DEF Stores, PipeInv, BridgeInv, Expected
  <2>3. PutsBack' => pick' \in Events /\ (Gone(pick)' \/ routed[pick'] <= faults')
    BY <1>1, <2>1, <2>2, PutsBackEvent, OnceRises DEF OnceInv, Gone, Absent
  <2>4. ASSUME NEW x \in Events, (stored'[x]).status = "new"
        PROVE  stored'[x] = stored[x] \/ routed[x] <= faults
    BY <1>1, <2>2, <2>4, FaultsAre DEF OnceInv, Absent
  <2>5. QED
    BY <1>1, <1>2, <2>3, <2>4, OnceKept
<1>5. CASE LoopWrites
  <2>1. /\ pick \in Events /\ phase["loop"] # "idle" /\ ~PutsBack'
        /\ stored'[pick] = Changed(op["loop"], stored[pick]) /\ stored[pick] \in Record
        /\ \A x \in Events : x # pick => stored'[x] = stored[x]
    BY <1>1, <1>5 DEF LoopWrites, Ends, PutsBack, Returned, NoOp, Remove
  <2>2. op["loop"].kind \in {"release", "requeue"} => routed[pick] <= faults
    BY <1>5, LoopAccepts DEF LoopWrites, OnceInv, PutsBack, Gone
  <2>3. op["loop"].kind \in {"acquire", "complete", "error"} => (stored'[pick]).status # "new"
    BY <2>1 DEF Changed, Record
  <2>4. ASSUME NEW x \in Events, (stored'[x]).status = "new"
        PROVE  stored'[x] = stored[x] \/ routed[x] <= faults
    BY <1>5, <2>1, <2>2, <2>3, <2>4, LoopAccepts DEF LoopWrites
  <2>5. QED
    BY <1>1, <1>2, <2>1, <2>4, OnceKept
<1>6. CASE LoopFails
  <2>1. /\ UNCHANGED stored /\ phase["loop"] # "idle" /\ LoopCall
        /\ PutsBack' => pc = "completing"
    BY <1>1, <1>6 DEF LoopFails, Ends, PutsBack, NoOp, Remove
  <2>2. ASSUME PutsBack'
        PROVE  pick \in Events /\ (Gone(pick) \/ routed[pick] <= faults')
    <3>1. pick \in Events /\ pc = "completing" /\ op["loop"].kind = "complete"
      BY <1>1, <2>1, <2>2, UntriedEvent DEF LoopCall, On
    <3>2. CASE faults < faults'
      BY <1>1, <3>1, <3>2, OnceRises DEF OnceInv
    <3>3. CASE ~Accepts(op["loop"], stored)
      <4>1. stored[pick].status # "processing"
        BY <2>1, <3>1, <3>3, LoopAccepts
      <4>2. Taken
        BY <2>1, <3>1 DEF Taken, Returned
      <4>3. QED
        BY <3>1, <4>1, <4>2 DEF PipeInv, HoldInv
    <3>4. QED
      BY <1>6, <3>2, <3>3 DEF LoopFails
  <2>3. PutsBack' => pick' \in Events /\ (Gone(pick)' \/ routed[pick'] <= faults')
    BY <1>1, <2>1, <2>2 DEF Gone
  <2>4. QED
    BY <1>1, <1>2, <2>1, <2>3, OnceKept
<1>7. QED
  BY <1>1, <1>3, <1>4, <1>5, <1>6 DEF Effect

LEMMA LoopStepOnce ==
  ASSUME BridgeAndLoop, PipeInv, TypeInv', OnceInv, LoopStep
  PROVE  OnceInv'
<1>0. /\ op \in [Callers -> Operation] /\ "loop" \in Callers /\ TypeInv
      /\ stored' = stored /\ Expected' \subseteq Expected /\ faults <= faults'
  BY LoopInCallers, LoopStepQuiet DEF PipeInv, TypeInv, StoreTypeOK
<1>1. ASSUME ScanBegin \/ (\E w \in Wallets : ScanWallet(w)) \/ ScanEnd
      PROVE  OnceInv'
  <2>1. /\ op'["loop"].kind = "remove" /\ pc' \in {"scan", "acquire", "idle"} /\ routed' = routed
        /\ Untried => routed[pick] <= faults
    BY <1>1, LoopIdle
       DEF ScanBegin, ScanWallet, ScanEnd, storeVars, callVars, ghostVars, OnceInv
  <2>2. pick' # NoEvent => pick' \in Events /\ routed[pick'] <= faults
    <3>1. CASE ScanBegin
      BY <3>1 DEF ScanBegin, PipeInv, HoldInv
    <3>2. CASE (\E w \in Wallets : ScanWallet(w)) \/ ScanEnd
      <4>1. pick # NoEvent => Untried /\ pick \in Events
        BY <1>0, <3>2, UntriedEvent DEF ScanWallet, ScanEnd, Untried
      <4>2. \/ pick' = pick
            \/ pick' \in Events /\ stored[pick'].status = "new"
        BY <3>2, ScanPick DEF ScanWallet, ScanEnd
      <4>3. QED
        BY <2>1, <4>1, <4>2 DEF OnceInv
    <3>3. QED
      BY <1>1, <3>1, <3>2
  <2>3. ~PutsBack' /\ ((Untried \/ pc = "route")' => pick' # NoEvent)
    BY <2>1 DEF PutsBack, Untried
  <2>4. QED
    BY <1>0, <2>1, <2>2, <2>3, OnceKept
<1>2. ASSUME NEW kind, NEW p, Call(kind, p), UNCHANGED routed,
             \/ kind = "acquire" /\ pc = "acquire" /\ p = "acquiring"
             \/ kind = "error" /\ p = "closing"
             \/ kind \in {"release", "requeue"} /\ p = "closing" /\ (pc = "route" \/ PutsBack)
             \/ kind = "complete" /\ p = "completing"
      PROVE  OnceInv'
  <2>1. /\ phase'["loop"] # "idle" /\ op'["loop"].kind = kind /\ pc' = p /\ pick' = pick
    BY <1>0, <1>2 DEF Call, Start, Enter, On, TypeInv, StoreTypeOK
  <2>2. (Untried \/ pc = "route")' => (Untried \/ pc = "acquire") /\ pick \in Events
    BY <1>0, <1>2, <2>1, UntriedEvent DEF Untried
  <2>3. (Untried \/ pc = "route")' => pick' \in Events /\ routed[pick'] <= faults
    BY <1>0, <2>1, <2>2, ProcessorAssumption DEF OnceInv, Untried
  <2>4. PutsBack' => pc = "route" \/ PutsBack
    BY <1>2, <2>1 DEF PutsBack, Returned
  <2>5. PutsBack' => pick \in Events /\ (Gone(pick) \/ routed[pick] <= faults)
    BY <1>0, <2>4, PutsBackEvent, UntriedEvent DEF OnceInv
  <2>6. PutsBack' => pick' \in Events /\ (Gone(pick)' \/ routed[pick'] <= faults')
    BY <1>0, <2>1, <2>5, OnceRises DEF Gone
  <2>7. QED
    BY <1>0, <1>2, <2>3, <2>6, OnceKept
<1>3. CASE Acquire
  BY <1>2, <1>3 DEF Acquire, ghostVars
<1>4. CASE NotAcquired \/ Completed \/ Closed
  <2>1. /\ op'["loop"].kind = "remove" /\ pc' = "idle" /\ routed' = routed
    BY <1>4, LoopIdle
       DEF NotAcquired, Completed, Closed, Returned, Done, storeVars, callVars, ghostVars
  <2>2. ~PutsBack' /\ ~(Untried \/ pc = "route")'
    BY <2>1 DEF PutsBack, Untried
  <2>3. QED
    BY <1>0, <2>1, <2>2, OnceKept
<1>5. CASE GiveUp
  BY <1>2, <1>5 DEF GiveUp, ghostVars
<1>6. CASE Route
  <2>1. /\ op'["loop"].kind = "remove" /\ pc' = "route" /\ routed' = routed /\ pick' = pick
        /\ pick \in Events /\ Untried
    BY <1>0, <1>6, LoopIdle, UntriedEvent
       DEF Route, Returned, storeVars, callVars, Untried, TypeInv, LoopTypeOK
  <2>2. ~PutsBack' /\ pick' \in Events /\ routed[pick'] <= faults
    BY <2>1 DEF PutsBack, OnceInv
  <2>3. QED
    BY <1>0, <2>1, <2>2, OnceKept
<1>7. CASE RouteOk
  <2>1. /\ pick \in Events /\ routed[pick] <= faults
        /\ routed \in [Events -> 0..GhostCap] /\ faults \in Nat
    BY <1>0, <1>7, UntriedEvent, FaultsAre DEF RouteOk, OnceInv, TypeInv, LoopTypeOK
  <2>2. routed' = [routed EXCEPT ![pick] = Counted(routed[pick])] /\ UNCHANGED <<stored, faults>>
    BY <1>7, <2>1 DEF RouteOk, Call, Start
  <2>3. Counted(routed[pick]) <= 1 + faults
    BY <2>1, StoreAssumption DEF Counted, GhostCap
  <2>4. /\ op'["loop"].kind = "complete" /\ pc' = "completing" /\ phase'["loop"] # "idle"
    BY <1>0, <1>7 DEF RouteOk, Call, Start, Enter, On, TypeInv, StoreTypeOK
  <2>5. \A e \in Events : routed'[e] <= 1 + faults'
    BY <2>1, <2>2, <2>3 DEF OnceInv
  <2>6. pick \notin Expected /\ stored[pick].status # "new"
    BY <1>7 DEF PipeInv, BridgeInv, HoldInv, Taken, RouteOk, Gone
  <2>7. /\ \A e \in Events : (stored'[e]).status = "new" => routed'[e] <= faults'
        /\ \A e \in Expected' : routed'[e] = 0
    BY <1>0, <2>1, <2>2, <2>6 DEF OnceInv, Expected
  <2>8. ~PutsBack' /\ ~(Untried \/ pc = "route")'
    BY <2>4 DEF PutsBack, Returned, Untried
  <2>9. QED
    BY <2>5, <2>7, <2>8 DEF OnceInv
<1>8. CASE RouteThrows
  BY <1>2, <1>8 DEF RouteThrows, ghostVars
<1>9. CASE NotCompleted
  BY <1>2, <1>9 DEF NotCompleted, PutsBack, ghostVars
<1>10. QED
  BY <1>1, <1>3, <1>4, <1>5, <1>6, <1>7, <1>8, <1>9 DEF LoopStep

LEMMA NextOnce ==
  ASSUME BridgeAndLoop, PipeInv, OnceInv, [Next]_vars
  PROVE  OnceInv'
<1>0. TypeInv /\ TypeInv' /\ Expected' \subseteq Expected
  BY NextType, NextBridge DEF PipeInv
<1>1. CASE (\E e \in Events : BridgeStore(e)) \/ (\E s \in Volatile : Toggle(s)) \/ UNCHANGED vars
  <2>1. /\ UNCHANGED <<stored, pc, pick, routed, faults>>
        /\ phase'["loop"] = phase["loop"] /\ op'["loop"] = op["loop"]
        /\ result'["loop"] = result["loop"]
    BY <1>1, OthersQuiet
  <2>2. (PutsBack' <=> PutsBack) /\ (Untried' <=> Untried)
    BY <2>1 DEF PutsBack, Untried, Returned
  <2>3. QED
    BY <1>0, <2>1, <2>2 DEF OnceInv, Gone
<1>2. CASE Crash
  <2>1. /\ UNCHANGED <<stored, routed, faults>> /\ pc' = "idle" /\ op'["loop"] = NoOp
    BY <1>2, LoopInCallers DEF Crash, StoreCrash, ghostVars
  <2>2. ~PutsBack' /\ ~Untried'
    BY <2>1 DEF PutsBack, Untried, NoOp, Remove
  <2>3. QED
    BY <1>0, <2>1, <2>2 DEF OnceInv
<1>3. ~TimerStep
  BY NoTimers DEF PipeInv
<1>4. QED
  BY <1>0, <1>1, <1>2, <1>3, ServeOnce, LoopStepOnce DEF Next

LEMMA OnceInvariant == BridgeAndLoop => (Spec => []OnceInv)
<1>1. SUFFICES ASSUME BridgeAndLoop PROVE Spec => []OnceInv
  OBVIOUS
<1>2. Init => OnceInv
  <2> SUFFICES ASSUME Init PROVE OnceInv
    OBVIOUS
  <2>1. /\ pc = "idle" /\ op["loop"] = NoOp /\ faults = 0
        /\ \A e \in Events : routed[e] = 0
    BY <1>1, LoopInCallers DEF Init, StoreInit
  <2>2. ~PutsBack /\ ~Untried
    BY <2>1 DEF PutsBack, Untried, NoOp, Remove
  <2>3. QED
    BY <2>1, <2>2 DEF OnceInv, Expected
<1>3. PipeInv /\ OnceInv /\ [Next]_vars => OnceInv'
  BY <1>1, NextOnce
<1>4. Spec => []PipeInv
  BY <1>1, PipeInvariant
<1>5. QED
  BY <1>2, <1>3, <1>4, PTL DEF Spec

\* Each time the router accepts an event again, the storage has failed once: a
\* dApp's request is shown to the user once more for each fault at worst, across
\* retries, sessions coming and going and any number of restarts.
RepeatsAreFaults == \A e \in Events : routed[e] <= 1 + faults

THEOREM RepeatsCostFaults == BridgeAndLoop => (Spec => []RepeatsAreFaults)
<1>1. OnceInv => RepeatsAreFaults
  BY DEF OnceInv, RepeatsAreFaults
<1>2. QED
  BY <1>1, OnceInvariant, PTL

\* So while the storage does not fail and no timer of the store writes, a dApp's
\* request is shown to the user once.
THEOREM AcceptedAtMostOnce == BridgeAndLoop /\ MaxFaults = 0 => (Spec => []AtMostOnce)
<1>1. ASSUME MaxFaults = 0, TypeInv, RepeatsAreFaults
      PROVE  AtMostOnce
  <2>1. faults = 0
    BY <1>1, FaultsAre
  <2>2. ASSUME NEW e \in Events
        PROVE  routed[e] <= 1
    <3>1. routed[e] <= 1 + faults /\ routed[e] \in Nat
      BY <1>1, StoreAssumption DEF TypeInv, LoopTypeOK, GhostCap, RepeatsAreFaults
    <3>2. QED
      BY <2>1, <3>1
  <2>3. QED
    BY <2>2 DEF AtMostOnce
<1>2. MaxFaults = 0 => (TypeInv /\ RepeatsAreFaults => AtMostOnce)
  BY <1>1
<1>3. SUFFICES ASSUME BridgeAndLoop, MaxFaults = 0 PROVE Spec => []AtMostOnce
  OBVIOUS
<1>4. TypeInv /\ RepeatsAreFaults => AtMostOnce
  BY <1>2, <1>3
<1>5. Spec => []RepeatsAreFaults
  BY <1>3, RepeatsCostFaults
<1>6. QED
  BY <1>4, <1>5, TypeInvariant, PTL
-----------------------------------------------------------------------------
(* An event is given to the router at most maxRetries times. *)

Worded == Events \ Wordless

\* The loop has given its event to the router, or puts it back after that.
Given == pc \in {"route", "completing"} \/ op["loop"].kind = "release"

\* An event that waits has had no more attempts than the document counts
\* retries, and the one the loop has given to the router at most one more.
BudgetInv ==
    /\ \A e \in Worded : attempts[e] <= MaxRetries
    /\ \A e \in Worded : stored[e].status = "new" => attempts[e] <= stored[e].retry
    /\ \A e \in Expected : attempts[e] = 0
    /\ pick \in Worded => /\ Untried => attempts[pick] <= tries
                          /\ Given => attempts[pick] <= tries + 1
                          /\ op["loop"].kind # "requeue"

\* A step that gives nothing to the router.
LEMMA BudgetKept ==
  ASSUME BudgetInv, UNCHANGED attempts, Expected' \subseteq Expected,
         \A e \in Worded : (stored'[e]).status = "new"
                               => stored'[e] = stored[e] \/ attempts[e] <= (stored'[e]).retry,
         pick' \in Worded => /\ Untried' => attempts[pick'] <= tries'
                             /\ Given' => attempts[pick'] <= tries' + 1
                             /\ op'["loop"].kind # "requeue"
  PROVE  BudgetInv'
  BY DEF BudgetInv, Worded

LEMMA WordedEvents == Worded \subseteq Events /\ NoEvent \notin Worded
  BY ProcessorAssumption DEF Worded

LEMMA ServeBudget ==
  ASSUME BridgeAndLoop, PipeInv, BudgetInv, NEW c \in Callers, ServeCall(c)
  PROVE  BudgetInv'
<1>1. /\ UNCHANGED <<pc, pick, tries, attempts>> /\ Effect /\ Expected' \subseteq Expected
      /\ stored \in [Events -> Record]
  BY ServeEffect, ServeExpected DEF PipeInv, TypeInv, StoreTypeOK, Doc
<1>2. op'["loop"] = op["loop"] \/ op'["loop"].kind = "remove"
  BY <1>1, LoopInCallers
     DEF Effect, Quiet, Ends, Stores, LoopWrites, LoopFails, NoOp, Remove
<1>3. pick' \in Worded => /\ Untried' => attempts[pick'] <= tries'
                          /\ Given' => attempts[pick'] <= tries' + 1
                          /\ op'["loop"].kind # "requeue"
  BY <1>1, <1>2 DEF BudgetInv, Untried, Given
<1>4. CASE UNCHANGED stored
  BY <1>1, <1>3, <1>4, BudgetKept
<1>5. ASSUME NEW e \in arrived, Stores(e)
      PROVE  BudgetInv'
  <2>1. e \in Expected /\ e \in Events
    BY <1>5, ServeExpected DEF Expected
  <2>2. stored'[e] = NewEvent /\ attempts[e] = 0 /\ NewEvent.retry = 0
    BY <1>5, <2>1 DEF Stores, BudgetInv, NewEvent
  <2>3. ASSUME NEW x \in Worded, (stored'[x]).status = "new"
        PROVE  stored'[x] = stored[x] \/ attempts[x] <= (stored'[x]).retry
    <3>1. CASE x = e
      BY <2>2, <3>1
    <3>2. CASE x # e
      BY <1>5, <2>3, <3>2, WordedEvents DEF Stores, Absent
    <3>3. QED
      BY <3>1, <3>2
  <2>4. QED
    BY <1>1, <1>3, <2>3, BudgetKept
<1>6. CASE LoopWrites
  <2>1. /\ pick \in Events /\ phase["loop"] # "idle" /\ LoopCall
        /\ stored'[pick] = Changed(op["loop"], stored[pick]) /\ stored[pick] \in Record
        /\ \A x \in Events : x # pick => stored'[x] = stored[x]
    BY <1>1, <1>6 DEF LoopWrites, Ends
  <2>2. op["loop"].kind \in {"acquire", "complete", "error"} => (stored'[pick]).status # "new"
    BY <2>1 DEF Changed, Record
  <2>3. CASE op["loop"].kind = "release" /\ pick \in Worded
    <3>1. stored[pick].status = "processing"
      BY <1>6, <2>3, LoopAccepts DEF LoopWrites
    <3>2. Held
      BY <2>1, ProcessorAssumption DEF Held
    <3>3. stored[pick].retry = tries
      BY <3>1, <3>2 DEF PipeInv, HoldInv, Gone
    <3>4. attempts[pick] <= tries + 1
      BY <2>3 DEF BudgetInv, Given
    <3>5. (stored'[pick]).retry = tries + 1
      BY <2>1, <2>3, <3>3 DEF Changed
    <3>6. ASSUME NEW x \in Worded, (stored'[x]).status = "new"
          PROVE  stored'[x] = stored[x] \/ attempts[x] <= (stored'[x]).retry
      BY <2>1, <3>4, <3>5, WordedEvents
    <3>7. QED
      BY <1>1, <1>3, <3>6, BudgetKept
  <2>4. CASE ~(op["loop"].kind = "release" /\ pick \in Worded)
    <3>1. pick \in Worded => (stored'[pick]).status # "new"
      BY <2>1, <2>2, <2>4, LoopAccepts DEF BudgetInv
    <3>2. ASSUME NEW x \in Worded, (stored'[x]).status = "new"
          PROVE  stored'[x] = stored[x]
      BY <2>1, <3>1, <3>2, WordedEvents
    <3>3. QED
      BY <1>1, <1>3, <3>2, BudgetKept
  <2>5. QED
    BY <2>3, <2>4
<1>7. QED
  BY <1>1, <1>4, <1>5, <1>6 DEF Effect, Quiet, LoopFails

LEMMA LoopStepBudget ==
  ASSUME BridgeAndLoop, PipeInv, BudgetInv, LoopStep
  PROVE  BudgetInv'
<1>0. /\ op \in [Callers -> Operation] /\ "loop" \in Callers
      /\ stored' = stored /\ Expected' \subseteq Expected
  BY LoopInCallers, LoopStepQuiet DEF PipeInv, TypeInv, StoreTypeOK
<1>1. ASSUME ScanBegin \/ (\E w \in Wallets : ScanWallet(w)) \/ ScanEnd
      PROVE  BudgetInv'
  <2>1. /\ op'["loop"].kind = "remove" /\ pc' \in {"scan", "acquire", "idle"}
        /\ attempts' = attempts
    BY <1>1, LoopIdle DEF ScanBegin, ScanWallet, ScanEnd, storeVars, callVars, ghostVars
  <2>2. pick' \in Worded => attempts[pick'] <= tries'
    <3>1. CASE ScanBegin
      BY <3>1, WordedEvents DEF ScanBegin, PipeInv, HoldInv
    <3>2. CASE (\E w \in Wallets : ScanWallet(w)) \/ ScanEnd
      <4>1. pick \in Worded => attempts[pick] <= tries
        BY <3>2, WordedEvents DEF ScanWallet, ScanEnd, Untried, BudgetInv
      <4>2. \/ pick' = pick /\ tries' = tries
            \/ stored[pick'].status = "new" /\ tries' = stored[pick'].retry
        BY <3>2, ScanPick DEF ScanWallet, ScanEnd
      <4>3. QED
        BY <4>1, <4>2 DEF BudgetInv
    <3>3. QED
      BY <1>1, <3>1, <3>2
  <2>3. ~Given'
    BY <2>1 DEF Given
  <2>4. QED
    BY <1>0, <2>1, <2>2, <2>3, BudgetKept
<1>2. ASSUME NEW kind, NEW p, Call(kind, p), UNCHANGED attempts,
             \/ kind = "acquire" /\ pc = "acquire" /\ p = "acquiring"
             \/ kind = "error" /\ p = "closing"
             \/ kind = "release" /\ p = "closing" /\ Given
             \/ kind = "requeue" /\ p = "closing" /\ pick \in Wordless
             \/ kind = "complete" /\ p = "completing" /\ Given
      PROVE  BudgetInv'
  <2>1. op'["loop"].kind = kind /\ pc' = p /\ pick' = pick /\ tries' = tries
    BY <1>0, <1>2 DEF Call, Start, On
  <2>2. (Untried' => Untried) /\ (Given' => Given) /\ (pick \in Worded => kind # "requeue")
    BY <1>2, <2>1 DEF Untried, Given, Worded
  <2>3. QED
    BY <1>0, <1>2, <2>1, <2>2, BudgetKept DEF BudgetInv
<1>3. CASE Acquire
  BY <1>2, <1>3 DEF Acquire, ghostVars
<1>4. CASE NotAcquired \/ Completed \/ Closed
  <2>1. pick' = NoEvent /\ attempts' = attempts
    BY <1>4 DEF NotAcquired, Completed, Closed, Done, ghostVars
  <2>2. QED
    BY <1>0, <2>1, BudgetKept, WordedEvents
<1>5. CASE GiveUp
  BY <1>2, <1>5 DEF GiveUp, ghostVars
<1>6. CASE Route
  <2>1. /\ pick \in Events /\ tries \in Nat /\ tries < MaxRetries
        /\ attempts \in [Events -> 0..GhostCap] /\ attempts[pick] \in Nat
    BY <1>6, StoreAssumption DEF Route, PipeInv, TypeInv, LoopTypeOK, GhostCap
  <2>2. /\ attempts' = [attempts EXCEPT ![pick] = Counted(attempts[pick])]
        /\ UNCHANGED <<op, pick, tries>> /\ pc' = "route" /\ op'["loop"].kind = "remove"
    BY <1>6, <2>1, LoopIdle DEF Route, Returned, storeVars, callVars
  <2>3. pick \in Worded => attempts[pick] <= tries
    BY <1>6, <2>1, ProcessorAssumption DEF Route, BudgetInv, Untried
  <2>4. pick \in Worded => attempts'[pick] <= tries + 1 /\ attempts'[pick] <= MaxRetries
    BY <2>1, <2>2, <2>3, StoreAssumption DEF Counted, GhostCap
  <2>5. ~Gone(pick) => stored[pick].status = "processing"
    BY <1>6 DEF Route, Taken, PipeInv, HoldInv
  <2>6. pick \notin Expected /\ stored[pick].status # "new" /\ ~Untried'
    BY <2>2, <2>5 DEF PipeInv, BridgeInv, Gone, Untried
  <2>7. \A e \in Events : e # pick => attempts'[e] = attempts[e]
    BY <2>1, <2>2
  <2>8. \A e \in Worded : attempts'[e] <= MaxRetries
    BY <2>4, <2>7, WordedEvents DEF BudgetInv
  <2>9. \A e \in Worded : (stored'[e]).status = "new" => attempts'[e] <= (stored'[e]).retry
    BY <1>0, <2>6, <2>7, WordedEvents DEF BudgetInv
  <2>10. \A e \in Expected' : attempts'[e] = 0
    BY <1>0, <2>6, <2>7 DEF BudgetInv, Expected
  <2>11. QED
    BY <2>2, <2>4, <2>6, <2>8, <2>9, <2>10 DEF BudgetInv, Worded
<1>7. CASE RouteOk
  BY <1>2, <1>7 DEF RouteOk, Given
<1>8. CASE RouteThrows
  BY <1>2, <1>8 DEF RouteThrows, Given, ghostVars
<1>9. CASE NotCompleted
  BY <1>2, <1>9 DEF NotCompleted, Given, ghostVars
<1>10. QED
  BY <1>1, <1>3, <1>4, <1>5, <1>6, <1>7, <1>8, <1>9 DEF LoopStep

LEMMA NextBudget ==
  ASSUME BridgeAndLoop, PipeInv, BudgetInv, [Next]_vars
  PROVE  BudgetInv'
<1>0. Expected' \subseteq Expected
  BY NextBridge
<1>1. CASE (\E e \in Events : BridgeStore(e)) \/ (\E s \in Volatile : Toggle(s)) \/ UNCHANGED vars
  <2>1. UNCHANGED <<stored, pc, pick, tries, attempts>> /\ op'["loop"] = op["loop"]
    BY <1>1, OthersQuiet
  <2>2. (Untried' <=> Untried) /\ (Given' <=> Given)
    BY <2>1 DEF Untried, Given
  <2>3. QED
    BY <1>0, <2>1, <2>2, BudgetKept DEF BudgetInv
<1>2. CASE Crash
  BY <1>0, <1>2, BudgetKept, WordedEvents DEF Crash, StoreCrash, ghostVars
<1>3. ~TimerStep
  BY NoTimers DEF PipeInv
<1>4. QED
  BY <1>1, <1>2, <1>3, ServeBudget, LoopStepBudget DEF Next

\* config.maxRetries bounds the attempts of every event whose handler throws
\* exceptions with messages, whatever the storage loses and restarts forget.
WordedBounded == \A e \in Worded : attempts[e] <= MaxRetries

THEOREM WordedAreBounded == BridgeAndLoop => (Spec => []WordedBounded)
<1>1. SUFFICES ASSUME BridgeAndLoop PROVE Spec => []WordedBounded
  OBVIOUS
<1>2. Init => BudgetInv
  <2> SUFFICES ASSUME Init PROVE BudgetInv
    OBVIOUS
  <2>1. /\ pick = NoEvent /\ stored = InitialDoc /\ MaxRetries \in Nat
        /\ \A e \in Events : attempts[e] = 0 /\ stored[e].retry \in Nat
    BY StoreAssumption DEF Init, StoreInit, Doc, Record
  <2>2. QED
    BY <2>1, WordedEvents DEF BudgetInv, Expected
<1>3. PipeInv /\ BudgetInv /\ [Next]_vars => BudgetInv'
  BY <1>1, NextBudget
<1>4. BudgetInv => WordedBounded
  BY DEF BudgetInv, WordedBounded
<1>5. Spec => []PipeInv
  BY <1>1, PipeInvariant
<1>6. QED
  BY <1>2, <1>3, <1>4, <1>5, PTL DEF Spec

\* Hence of every event, if all exceptions have messages (the run
\* `wordless_errors` shows what happens else).
THEOREM AttemptsAreBounded == BridgeAndLoop /\ Wordless = {} => (Spec => []AttemptsBounded)
<1>1. SUFFICES ASSUME BridgeAndLoop, Wordless = {} PROVE Spec => []AttemptsBounded
  OBVIOUS
<1>2. WordedBounded => AttemptsBounded
  BY <1>1 DEF WordedBounded, Worded, AttemptsBounded
<1>3. Spec => []WordedBounded
  BY <1>1, WordedAreBounded
<1>4. QED
  BY <1>2, <1>3, PTL
-----------------------------------------------------------------------------
(* An older event of the same source goes first. *)

\* The events an earlier run left are older than those still to come.
OldestStored ==
    \A e, f \in Events : InitialDoc[e] # Absent /\ InitialDoc[f] = Absent => e < f

\* Of the source of the event the loop holds none that is older waits.
OldestHeld ==
    pick # NoEvent => /\ pick \in arrived
                      /\ \A f \in Events : Source[f] = Source[pick] /\ f < pick
                             => stored[f].status # "new"

\* Events are stored in the order of their age.
OrderInv ==
    /\ \A e \in arrived, f \in Events \ arrived : e < f
    /\ phase["bridge"] # "idle" => \A e \in arrived :
          op["bridge"] = Save(e, NewEvent) => \A f \in arrived : f <= e
    /\ \A e \in Events : stored[e].status = "new" => e \in arrived
    /\ OldestHeld

\* A step that leaves the bridge and the arrivals alone.
LEMMA OrderKept ==
  ASSUME OrderInv, UNCHANGED arrived,
         phase'["bridge"] = "idle" <=> phase["bridge"] = "idle", op'["bridge"] = op["bridge"],
         \A e \in Events : (stored'[e]).status = "new" => e \in arrived,
         OldestHeld'
  PROVE  OrderInv'
  BY DEF OrderInv, Save

LEMMA ServeOrder ==
  ASSUME BridgeAndLoop, PipeInv, OrderInv, NEW c \in Callers, ServeCall(c)
  PROVE  OrderInv'
<1>1. /\ UNCHANGED <<arrived, pick>> /\ Effect /\ arrived \subseteq Events
      /\ stored \in [Events -> Record]
  BY ServeEffect DEF PipeInv, TypeInv, StoreTypeOK, LoopTypeOK, Doc
<1>2. \A e \in Events : pick # NoEvent /\ e < pick => e # pick
  BY <1>1, ProcessorAssumption DEF OrderInv, OldestHeld
<1>3. CASE Quiet \/ LoopFails
  <2>1. /\ phase'["bridge"] = "idle" <=> phase["bridge"] = "idle"
        /\ op'["bridge"] = op["bridge"] /\ UNCHANGED stored
    BY <1>3, LoopInCallers DEF Quiet, LoopFails, Ends
  <2>2. QED
    BY <1>1, <2>1, OrderKept DEF OrderInv, OldestHeld
<1>4. CASE UNCHANGED stored /\ Ends("bridge", "failed")
  BY <1>1, <1>4 DEF OrderInv, OldestHeld, Ends
<1>5. ASSUME NEW e \in arrived, Stores(e)
      PROVE  OrderInv'
  <2>1. /\ phase["bridge"] # "idle" /\ phase'["bridge"] = "idle"
        /\ \A x \in Events : x # e => ((stored'[x]).status = "new" => stored[x].status = "new")
    BY <1>1, <1>5 DEF Stores, Ends, Absent
  <2>2. pick # NoEvent => pick <= e
    BY <1>5, <2>1 DEF Stores, OrderInv, OldestHeld
  <2>3. ASSUME NEW f \in Events, pick # NoEvent, f < pick
        PROVE  f # e
    <3>1. pick \in Nat /\ f \in Nat
      BY <1>1, <2>3, ProcessorAssumption DEF OrderInv, OldestHeld
    <3>2. QED
      BY <2>2, <2>3, <3>1
  <2>4. OldestHeld'
    BY <1>1, <2>1, <2>3 DEF OrderInv, OldestHeld
  <2>5. \A x \in Events : (stored'[x]).status = "new" => x \in arrived'
    BY <1>1, <1>5, <2>1 DEF OrderInv
  <2>6. QED
    BY <1>1, <2>1, <2>4, <2>5 DEF OrderInv
<1>6. CASE LoopWrites
  <2>1. /\ phase'["bridge"] = "idle" <=> phase["bridge"] = "idle"
        /\ op'["bridge"] = op["bridge"] /\ pick \in Events
        /\ \A f \in Events : f # pick => stored'[f] = stored[f]
    BY <1>1, <1>6, LoopInCallers DEF LoopWrites, Ends
  <2>2. OldestHeld'
    BY <1>1, <1>2, <2>1 DEF OrderInv, OldestHeld
  <2>3. pick \in arrived
    BY <2>1, ProcessorAssumption DEF OrderInv, OldestHeld
  <2>4. QED
    BY <1>1, <2>1, <2>2, <2>3, OrderKept DEF OrderInv
<1>7. QED
  BY <1>1, <1>3, <1>4, <1>5, <1>6 DEF Effect

\* The scan keeps the oldest waiting event of a source.
LEMMA ScanOrder ==
  ASSUME PipeInv, OrderInv, NEW s, ScanRead(NewEventsOf(s)) \/ ScanRead({}),
         UNCHANGED <<arrived, stored, phase, op>>
  PROVE  OrderInv'
<1>1. CASE UNCHANGED pick
  BY <1>1, OrderKept DEF OrderInv, OldestHeld
<1>2. CASE /\ pick' \in Events /\ stored[pick'].status = "new" /\ Source[pick'] = s
           /\ \A f \in NewEventsOf(s) : pick' <= f
  <2>1. pick' \in arrived
    BY <1>2 DEF OrderInv
  <2>2. \A f \in Events : f < pick' => ~(pick' <= f)
    BY <1>2, ProcessorAssumption
  <2>3. \A f \in Events : Source[f] = s /\ f < pick' => stored[f].status # "new"
    BY <1>2, <2>2 DEF NewEventsOf
  <2>4. OldestHeld'
    BY <1>2, <2>1, <2>3 DEF OldestHeld
  <2>5. QED
    BY <2>4, OrderKept DEF OrderInv
<1>3. QED
  BY <1>1, <1>2, ScanPick

LEMMA LoopStepOrder ==
  ASSUME BridgeAndLoop, PipeInv, OrderInv, LoopStep
  PROVE  OrderInv'
<1>1. /\ UNCHANGED <<stored, arrived>> /\ phase'["bridge"] = phase["bridge"]
      /\ op'["bridge"] = op["bridge"]
  BY LoopStepQuiet
<1>2. CASE (\E w \in Wallets : ScanWallet(w)) \/ ScanEnd
  BY <1>1, <1>2, ScanOrder DEF ScanWallet, ScanEnd, callVars
<1>3. CASE pick' = NoEvent \/ UNCHANGED pick
  BY <1>1, <1>3, OrderKept DEF OrderInv, OldestHeld
<1>4. QED
  BY <1>2, <1>3 DEF LoopStep, ScanBegin, Acquire, NotAcquired, GiveUp,
         Route, RouteOk, RouteThrows, Completed, NotCompleted, Closed, Done, Call

LEMMA BridgeCallOrder ==
  ASSUME BridgeAndLoop, PipeInv, OrderInv, NEW e \in Events, BridgeStore(e)
  PROVE  OrderInv'
<1>1. /\ op'["bridge"] = Save(e, NewEvent) /\ arrived' = arrived \cup {e}
      /\ UNCHANGED <<stored, pick>> /\ e \notin arrived /\ arrived \subseteq Events
      /\ \A f \in Events \ arrived : e <= f
  BY LoopInCallers DEF BridgeStore, Start, loopVars, PipeInv, TypeInv, StoreTypeOK, LoopTypeOK
<1>2. \A f \in arrived' : f <= e
  <2>1. \A f \in arrived : f < e
    BY <1>1 DEF OrderInv
  <2>2. e \in Nat /\ arrived \subseteq Nat
    BY <1>1, ProcessorAssumption
  <2>3. QED
    BY <1>1, <2>1, <2>2
<1>3. ASSUME NEW f \in arrived', NEW g \in Events \ arrived'
      PROVE  f < g
  <2>1. g \in Events \ arrived /\ g # e /\ e \in Nat /\ g \in Nat
    BY <1>1, ProcessorAssumption
  <2>2. CASE f \in arrived
    BY <2>1, <2>2 DEF OrderInv
  <2>3. CASE f = e
    <3>1. e <= g
      BY <1>1, <2>1
    <3>2. QED
      BY <2>1, <2>3, <3>1
  <2>4. QED
    BY <1>1, <2>2, <2>3
<1>4. \A x \in arrived' : Save(x, NewEvent) = Save(e, NewEvent) => x = e
  BY DEF Save
<1>5. OldestHeld'
  BY <1>1 DEF OrderInv, OldestHeld
<1>6. QED
  BY <1>1, <1>2, <1>3, <1>4, <1>5 DEF OrderInv, Save

LEMMA NextOrder ==
  ASSUME BridgeAndLoop, PipeInv, OrderInv, [Next]_vars
  PROVE  OrderInv'
<1>1. CASE (\E s \in Volatile : Toggle(s)) \/ UNCHANGED vars
  BY <1>1, OrderKept DEF Toggle, vars, storeVars, callVars, loopVars, OrderInv, OldestHeld
<1>2. CASE Crash
  BY <1>2, LoopInCallers DEF Crash, StoreCrash, OrderInv, OldestHeld
<1>3. ~TimerStep
  BY NoTimers DEF PipeInv
<1>4. QED
  BY <1>1, <1>2, <1>3, BridgeCallOrder, ServeOrder, LoopStepOrder DEF Next

\* When the router is given an event, no older event of its source waits:
\* neither retries nor events stored during a scan nor storage faults let one
\* overtake.
THEOREM NothingOvertakes == BridgeAndLoop /\ OldestStored => (Spec => []NoOvertaking)
<1>1. SUFFICES ASSUME BridgeAndLoop, OldestStored PROVE Spec => []NoOvertaking
  OBVIOUS
<1>2. Init => OrderInv
  BY <1>1, LoopInCallers DEF Init, StoreInit, OrderInv, OldestHeld, OldestStored, Absent
<1>3. PipeInv /\ OrderInv /\ [Next]_vars => OrderInv'
  BY <1>1, NextOrder
<1>4. PipeInv /\ OrderInv => NoOvertaking
  BY DEF PipeInv, TypeInv, LoopTypeOK, OrderInv, OldestHeld, NoOvertaking
<1>5. Spec => []PipeInv
  BY <1>1, PipeInvariant
<1>6. QED
  BY <1>2, <1>3, <1>4, <1>5, PTL DEF Spec
-----------------------------------------------------------------------------
(* The document goes through the life the types declare. *)

Stage == [e \in Events |-> stored[e].status]

\* Where the record of one event changes along a transition, so does its stage.
LEMMA AdvanceStage ==
  ASSUME TypeInv, NEW e \in Events, NEW r, stored' = [stored EXCEPT ![e] = r],
         <<stored[e].status, r.status>> \in Life!Transitions
  PROVE  Life!Next
<1>1. stored \in [Events -> Record]
  BY DEF TypeInv, StoreTypeOK, Doc
<1>2. [x \in Events |-> stored'[x].status]
        = [[x \in Events |-> stored[x].status] EXCEPT ![e] = r.status]
  BY <1>1
<1>3. Life!Advance(e)
  <2> DEFINE t == <<stored[e].status, r.status>>
  <2>1. t \in Life!Transitions /\ t[1] = stored[e].status /\ t[2] = r.status
    OBVIOUS
  <2>2. [x \in Events |-> stored[x].status][e] = t[1]
    BY <2>1
  <2>3. QED
    BY <1>2, <2>1, <2>2 DEF Life!Advance
<1>4. QED
  BY <1>3 DEF Life!Next

LEMMA ServeLife ==
  ASSUME BridgeAndLoop, MaxFaults = 0, PipeInv, StoreTypeOK', NEW c \in Callers, ServeCall(c)
  PROVE  Life!Next \/ UNCHANGED stored
<1>1. Effect /\ faults = 0 /\ stored \in [Events -> Record] /\ arrived \subseteq Events
  BY ServeEffect, FaultsAre DEF PipeInv, TypeInv, StoreTypeOK, LoopTypeOK, Doc
<1>2. ASSUME NEW e \in arrived, Stores(e)
      PROVE  Life!Next
  <2>1. /\ e \in Events /\ stored'[e] = NewEvent
        /\ \A x \in Events \ {e} : stored'[x] = stored[x]
    BY <1>1, <1>2 DEF Stores
  <2>2. stored' = [stored EXCEPT ![e] = NewEvent]
    <3>1. stored' \in [Events -> Record]
      BY DEF StoreTypeOK, Doc
    <3>2. QED
      BY <1>1, <2>1, <3>1
  <2>3. stored[e].status = "absent"
    BY <1>2, ServeExpected DEF PipeInv, BridgeInv, Gone
  <2>4. <<stored[e].status, NewEvent.status>> \in Life!Transitions
    BY <2>3 DEF NewEvent, Life!Transitions
  <2>5. QED
    BY <2>1, <2>2, <2>4, AdvanceStage DEF PipeInv
<1>3. CASE LoopWrites
  <2>1. PICK kind \in {"acquire", "complete", "error", "release", "requeue"} :
          /\ op["loop"].kind = kind
          /\ stored[pick].status = IF kind = "acquire" THEN "new" ELSE "processing"
    BY <1>3, LoopAccepts DEF LoopWrites
  <2>2. pick \in Events /\ stored[pick] \in Record
        /\ stored' = [stored EXCEPT ![pick] = Changed(op["loop"], stored[pick])]
    BY <1>1, <1>3 DEF LoopWrites
  <2>3. Changed(op["loop"], stored[pick]).status =
          CASE kind = "acquire" -> "processing" [] kind = "complete" -> "completed"
            [] kind = "error" -> "errored" [] OTHER -> "new"
    BY <2>1, <2>2 DEF Changed, Record
  <2>4. <<stored[pick].status, Changed(op["loop"], stored[pick]).status>> \in Life!Transitions
    BY <2>1, <2>3 DEF Life!Transitions
  <2>5. QED
    BY <2>2, <2>4, AdvanceStage DEF PipeInv
<1>4. QED
  BY <1>1, <1>2, <1>3 DEF Effect, Quiet, LoopFails

\* While the storage does not fail, the statuses in the document change only
\* along the transitions declared for them, an event being stored, taken, put
\* back, completed or errored at once.
THEOREM EventsLiveAsDeclared == BridgeAndLoop /\ MaxFaults = 0 => (Spec => ImplementsLifecycle)
<1>1. SUFFICES ASSUME BridgeAndLoop, MaxFaults = 0 PROVE Spec => Life!Spec
  BY DEF ImplementsLifecycle
<1>2. Init => Life!Init
  BY DEF Init, StoreInit, Life!Init
<1>3. ASSUME PipeInv, [Next]_vars
      PROVE  [Life!Next]_Stage
  <2>1. Life!Next \/ UNCHANGED stored
    <3>1. LoopStep => UNCHANGED stored
      BY <1>1, <1>3, LoopStepQuiet
    <3>2. ~TimerStep
      BY <1>1, <1>3, NoTimers DEF PipeInv
    <3>3. StoreTypeOK'
      BY <1>3, NextType DEF PipeInv, TypeInv
    <3>4. \A c \in Callers : ServeCall(c) => Life!Next \/ UNCHANGED stored
      BY <1>1, <1>3, <3>3, ServeLife
    <3>5. QED
      BY <1>3, <3>1, <3>2, <3>4 DEF Next, BridgeStore, Start, Toggle, Crash, StoreCrash, vars,
                                    storeVars
  <2>2. QED
    BY <2>1 DEF Stage
<1>4. Spec => []PipeInv
  BY <1>1, PipeInvariant
<1>5. QED
  BY <1>2, <1>3, <1>4, PTL DEF Spec, Life!Spec, Stage
=============================================================================
