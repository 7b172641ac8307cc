--------------------------- MODULE EventProcessor ---------------------------
(***************************************************************************)
(* StorageEventProcessor over StorageEventStore: the processing loop, the  *)
(* recovery and cleanup timers and the bridge queue that stores events, as *)
(* concurrent callers of the store.                                        *)
(*                                                                         *)
(* Events are numbered in the order of createdAt.  The source of an event  *)
(* is the wallet whose session sent it, or NoWallet for a connect request; *)
(* a source is enabled while its session exists, its wallet is registered  *)
(* and a handler of its event type is set.                                 *)
(***************************************************************************)
EXTENDS EventStore

CONSTANTS Wallets,          \* registered wallets with sessions
          NoWallet,         \* the source of events that need no session
          NoEvent,          \* stands for the absence of an event
          Source,           \* the source of each event
          Wordless,         \* the events whose handler throws empty messages
          Volatile          \* bound: the sources whose session or handlers change

Sources == Wallets \cup {NoWallet}

ASSUME ProcessorAssumption ==
    /\ Events \subseteq Nat
    /\ NoEvent \notin Events
    /\ NoWallet \notin Wallets
    /\ Source \in [Events -> Sources]
    /\ Wordless \subseteq Events
    /\ Volatile \subseteq Sources
    /\ Callers \subseteq {"bridge", "loop", "recovery", "cleanup"}
    /\ \A e \in Events : InitialDoc[e] \in {Absent, NewEvent}

VARIABLES
    arrived,    \* the events the bridge has asked the store to save
    enabled,    \* the sources whose events may be processed
    pc,         \* where the processing loop is
    todo,       \* wallets the current scan has not read yet
    pick,       \* oldest event the scan has seen, then the one processed
    tries,      \* retryCount of pick as the scan read it
    stale,      \* copies of stale events the recovery timer still has to save
    doomed,     \* events the cleanup timer is about to remove
    attempts,   \* ghost: times each event was given to the router
    routed      \* ghost: times the router accepted each event

loopVars == <<pc, todo, pick, tries>>
timerVars == <<stale, doomed>>
ghostVars == <<attempts, routed>>
vars == <<storeVars, arrived, enabled, loopVars, timerVars, ghostVars>>

PC == {"idle", "scan", "acquire", "acquiring", "route", "completing", "closing"}

\* The ghosts stop counting here, above every value a property compares with.
GhostCap == MaxRetries + 1

Counted(n) == IF n < GhostCap THEN n + 1 ELSE n

TypeOK ==
    /\ StoreTypeOK
    /\ arrived \subseteq Events
    /\ enabled \subseteq Sources
    /\ pc \in PC
    /\ todo \subseteq Wallets
    /\ pick \in Events \cup {NoEvent}
    /\ tries \in Nat
    /\ stale \in Doc
    /\ doomed \subseteq Events
    /\ attempts \in [Events -> 0..GhostCap]
    /\ routed \in [Events -> 0..GhostCap]

\* An earlier run may have stored events it never came to process.
Init ==
    /\ StoreInit
    /\ arrived = {e \in Events : InitialDoc[e] # Absent}
    /\ enabled = Sources
    /\ pc = "idle"
    /\ todo = {}
    /\ pick = NoEvent
    /\ tries = 0
    /\ stale = EmptyDoc
    /\ doomed = {}
    /\ attempts = [e \in Events |-> 0]
    /\ routed = [e \in Events |-> 0]
-----------------------------------------------------------------------------
(* The bridge queue: BridgeManager stores one event at a time. *)

BridgeStore(e) ==
    /\ "bridge" \in Callers
    /\ e \notin arrived
    /\ \A f \in Events \ arrived : e <= f
    /\ Start("bridge", Save(e, NewEvent))
    /\ arrived' = arrived \cup {e}
    /\ UNCHANGED <<enabled, loopVars, timerVars, ghostVars>>

\* Sessions and handlers come and go.
Toggle(s) ==
    /\ enabled' = IF s \in enabled THEN enabled \ {s} ELSE enabled \cup {s}
    /\ UNCHANGED <<storeVars, arrived, loopVars, timerVars, ghostVars>>
-----------------------------------------------------------------------------
(* The processing loop: processNextAvailableEvent and processEvent. *)

NewEventsOf(s) == {e \in Events : stored[e].status = "new" /\ Source[e] = s}

\* Mutant of Consider: the scan keeps the newest event (a sort reversed).
ConsiderNewest(S) ==
    \/ /\ \A e \in S : pick # NoEvent /\ e < pick
       /\ UNCHANGED <<pick, tries>>
    \/ \E e \in S :
          /\ \A f \in S : f <= e
          /\ pick = NoEvent \/ pick < e
          /\ pick' = e
          /\ tries' = stored[e].retry

\* The scan keeps the oldest of the events it has read, as it read it.
Consider(S) ==
    \/ /\ \A e \in S : pick # NoEvent /\ pick < e
       /\ UNCHANGED <<pick, tries>>
    \/ \E e \in S :
          /\ \A f \in S : e <= f
          /\ pick = NoEvent \/ e < pick
          /\ pick' = e
          /\ tries' = stored[e].retry

\* One getAllEvents of the scan: it sees the document as it is at that
\* moment, or nothing when the storage fails.
ScanRead(S) ==
    \/ Consider(S) /\ UNCHANGED faults
    \/ faults < MaxFaults /\ faults' = faults + 1 /\ UNCHANGED <<pick, tries>>

ScanBegin ==
    /\ "loop" \in Callers
    /\ pc = "idle"
    /\ pc' = "scan"
    /\ todo' = enabled \cap Wallets
    /\ UNCHANGED <<storeVars, arrived, enabled, pick, tries, timerVars, ghostVars>>

ScanWallet(w) ==
    /\ pc = "scan"
    /\ w \in todo
    /\ todo' = todo \ {w}
    /\ ScanRead(NewEventsOf(w))
    /\ UNCHANGED <<stored, callVars, crashes, arrived, enabled, pc, timerVars, ghostVars>>

ScanEnd ==
    /\ pc = "scan"
    /\ todo = {}
    /\ ScanRead(IF NoWallet \in enabled THEN NewEventsOf(NoWallet) ELSE {})
    /\ pc' = IF pick' = NoEvent THEN "idle" ELSE "acquire"
    /\ UNCHANGED <<stored, callVars, crashes, arrived, enabled, todo, timerVars, ghostVars>>

\* The loop goes back to the top, with or without its 500 ms wait.
Done == pc' = "idle" /\ pick' = NoEvent /\ tries' = 0 /\ UNCHANGED todo

\* The loop calls the store about the event it holds and goes to pc p.
Call(kind, p) ==
    /\ Start("loop", On(kind, pick))
    /\ pc' = p
    /\ UNCHANGED <<todo, pick, tries>>

\* The loop's call of the store has ended.
Returned(r) == phase["loop"] = "idle" /\ result["loop"] = r

Acquire ==
    /\ pc = "acquire"
    /\ Call("acquire", "acquiring")
    /\ UNCHANGED <<arrived, enabled, timerVars, ghostVars>>

\* Mutants of the actions below: giving up one attempt early, giving up
\* without telling the store, an attempt beyond the last, and a handler's
\* exception that is swallowed.
GiveUpEarly ==
    /\ pc = "acquiring"
    /\ Returned("ok")
    /\ tries + 1 >= MaxRetries
    /\ Call("error", "closing")
    /\ UNCHANGED <<arrived, enabled, timerVars, ghostVars>>
GiveUpSilently ==
    /\ pc = "acquiring"
    /\ Returned("ok")
    /\ tries >= MaxRetries
    /\ Done
    /\ UNCHANGED <<storeVars, arrived, enabled, timerVars, ghostVars>>
RouteOnceMore ==
    /\ pc = "acquiring"
    /\ Returned("ok")
    /\ tries <= MaxRetries
    /\ pc' = "route"
    /\ attempts' = [attempts EXCEPT ![pick] = Counted(@)]
    /\ UNCHANGED <<storeVars, arrived, enabled, todo, pick, tries, timerVars, routed>>
RouteSwallows ==
    /\ pc = "route"
    /\ Call("complete", "completing")
    /\ UNCHANGED <<arrived, enabled, timerVars, ghostVars>>

\* acquireLock found the event gone or taken, or threw.
NotAcquired ==
    /\ pc = "acquiring"
    /\ Returned("failed")
    /\ Done
    /\ UNCHANGED <<storeVars, arrived, enabled, timerVars, ghostVars>>

\* The copy read before the lock had used up its retries: errored.
GiveUp ==
    /\ pc = "acquiring"
    /\ Returned("ok")
    /\ tries >= MaxRetries
    /\ Call("error", "closing")
    /\ UNCHANGED <<arrived, enabled, timerVars, ghostVars>>

\* The event is given to EventRouter.routeEvent.
Route ==
    /\ pc = "acquiring"
    /\ Returned("ok")
    /\ tries < MaxRetries
    /\ pc' = "route"
    /\ attempts' = [attempts EXCEPT ![pick] = Counted(@)]
    /\ UNCHANGED <<storeVars, arrived, enabled, todo, pick, tries, timerVars, routed>>

RouteOk ==
    /\ pc = "route"
    /\ routed' = [routed EXCEPT ![pick] = Counted(@)]
    /\ Call("complete", "completing")
    /\ UNCHANGED <<arrived, enabled, timerVars, attempts>>

\* The handler or the application's callback threw.
RouteThrows ==
    /\ pc = "route"
    /\ \/ pick \notin Wordless /\ Call("release", "closing")
       \/ pick \in Wordless /\ Call("requeue", "closing")
    /\ UNCHANGED <<arrived, enabled, timerVars, ghostVars>>

Completed ==
    /\ pc = "completing"
    /\ Returned("ok")
    /\ Done
    /\ UNCHANGED <<storeVars, arrived, enabled, timerVars, ghostVars>>

\* updateEventStatus threw: the catch of processEvent releases the event,
\* although the router has accepted it.
NotCompleted ==
    /\ pc = "completing"
    /\ Returned("failed")
    /\ Call("release", "closing")
    /\ UNCHANGED <<arrived, enabled, timerVars, ghostVars>>

\* The last call for this event ended; its failure is only logged.
Closed ==
    /\ pc = "closing"
    /\ phase["loop"] = "idle"
    /\ Done
    /\ UNCHANGED <<storeVars, arrived, enabled, timerVars, ghostVars>>

LoopStep == \/ ScanBegin \/ (\E w \in Wallets : ScanWallet(w)) \/ ScanEnd
            \/ Acquire \/ NotAcquired \/ GiveUp \/ Route \/ RouteOk
            \/ RouteThrows \/ Completed \/ NotCompleted \/ Closed
-----------------------------------------------------------------------------
(* The recovery timer: recoverStaleEvents. *)

\* An unlocked read collects the events processing for too long; which of
\* them are, is left to the clock.
RecoveryScan(S) ==
    /\ "recovery" \in Callers
    /\ phase["recovery"] = "idle"
    /\ stale = EmptyDoc
    /\ \A e \in S : stored[e].status = "processing" /\ stored[e].started
    /\ stale' = [e \in Events |-> IF e \in S THEN stored[e] ELSE Absent]
    /\ result' = [result EXCEPT !["recovery"] = "none"]
    /\ UNCHANGED <<stored, lock, phase, op, snap, waitOn, faults, crashes,
                   arrived, enabled, loopVars, doomed, ghostVars>>

\* The copy is saved with processingStartedAt and lockedBy cleared.
RecoverySave(e) ==
    /\ stale[e] # Absent
    /\ result["recovery"] # "failed"
    /\ Start("recovery", Save(e, [stale[e] EXCEPT !.started = FALSE]))
    /\ stale' = [stale EXCEPT ![e] = Absent]
    /\ UNCHANGED <<arrived, enabled, loopVars, doomed, ghostVars>>

\* A save threw: the remaining copies are dropped.
RecoveryAbort ==
    /\ stale # EmptyDoc
    /\ phase["recovery"] = "idle"
    /\ result["recovery"] = "failed"
    /\ stale' = EmptyDoc
    /\ UNCHANGED <<storeVars, arrived, enabled, loopVars, doomed, ghostVars>>

(* The cleanup timer: cleanupOldEvents. *)

\* An unlocked read collects the finished events older than the retention.
CleanupScan(S) ==
    /\ "cleanup" \in Callers
    /\ phase["cleanup"] = "idle"
    /\ doomed = {}
    /\ \A e \in S : stored[e].status \in {"completed", "errored"}
    /\ doomed' = S
    /\ UNCHANGED <<storeVars, arrived, enabled, loopVars, stale, ghostVars>>

CleanupRemove ==
    /\ doomed # {}
    /\ Start("cleanup", Remove(doomed))
    /\ doomed' = {}
    /\ UNCHANGED <<arrived, enabled, loopVars, stale, ghostVars>>

TimerStep == \/ (\E S \in SUBSET Events \ {{}} : RecoveryScan(S) \/ CleanupScan(S))
             \/ (\E e \in Events : RecoverySave(e))
             \/ RecoveryAbort \/ CleanupRemove
-----------------------------------------------------------------------------
\* A storage call of any caller settles.
ServeCall(c) ==
    /\ StoreStep(c)
    /\ UNCHANGED <<arrived, enabled, loopVars, timerVars, ghostVars>>

\* The program is killed and restarted: storage, sessions and handlers come
\* back, everything in flight is gone.
Crash ==
    /\ StoreCrash
    /\ pc' = "idle" /\ todo' = {} /\ pick' = NoEvent /\ tries' = 0
    /\ stale' = EmptyDoc /\ doomed' = {}
    /\ UNCHANGED <<arrived, enabled, ghostVars>>

Next == \/ \E e \in Events : BridgeStore(e)
        \/ \E s \in Volatile : Toggle(s)
        \/ \E c \in Callers : ServeCall(c)
        \/ LoopStep \/ TimerStep \/ Crash

Spec == Init /\ [][Next]_vars

\* Storage calls settle, handlers return, and the loop never waits for more
\* than its 500 ms: waitForWakeUpOrTimeout resolves without a wake-up too.
\* The timers fire, but what they find stale or old is left to the clock.
Fairness ==
    /\ \A c \in Callers : WF_vars(ServeCall(c))
    /\ WF_vars(LoopStep)
    /\ WF_vars(\E e \in Events : RecoverySave(e))

FairSpec == Spec /\ Fairness
-----------------------------------------------------------------------------
(* Properties. *)

\* The router accepts an event at most once, across retries, sessions coming
\* and going and restarts: a dApp's request is shown to the user once.  It
\* rests on acquireLock refusing an event that is not new and on no write
\* of another caller bringing a taken event back to new.
AtMostOnce == \A e \in Events : routed[e] <= 1

\* An event is given to the router at most config.maxRetries times ("Maximum
\* number of retry attempts before marking event as errored"), although
\* processEvent compares a retryCount it read before it took the lock.
AttemptsBounded == \A e \in Events : attempts[e] <= MaxRetries

\* When the router is given an event, no older event of the same source is
\* still waiting: a failed event is retried before its successors, and the
\* events stored during a scan do not overtake.
NoOvertaking ==
    pc = "route" => \A f \in Events :
        Source[f] = Source[pick] /\ f < pick => stored[f].status # "new"

\* The stored statuses go through the life the types declare.
Life == INSTANCE Lifecycle WITH
            stage <- [e \in Events |-> stored[e].status],
            InitialStage <- [e \in Events |-> InitialDoc[e].status]

ImplementsLifecycle == Life!Spec

\* Whatever the storage loses and however writes of the four callers
\* overwrite each other, a completed event was accepted by the router, in
\* the document and in every copy of it that may be written back.
CompletedWasRouted == \A e \in Events :
    /\ stored[e].status = "completed" => routed[e] > 0
    /\ \A c \in Callers : snap[c][e].status = "completed" => routed[e] > 0

\* Likewise an errored event has used up its attempts: stale retry counts and
\* lost updates can only grant an event more attempts than maxRetries.
ErroredWasRetried == \A e \in Events :
    stored[e].status = "errored" => attempts[e] >= MaxRetries

Settled(e) == stored[e].status \in {"completed", "errored", "absent"}

\* While the program keeps running and the source of an event stays enabled,
\* a new event is eventually completed or errored, even if its handler always
\* throws: no event is starved by retries of others, by new arrivals or by
\* the wake-up signals that arrive while the loop is busy.
EventuallySettled == \A e \in Events :
    [](crashes = 0) /\ <>[](Source[e] \in enabled) =>
        (stored[e].status = "new" ~> Settled(e))

\* What recoverStaleEvents promises ("Reset to processing status (keep retry
\* count) so it can be retried") and its test repeats ("Event should be
\* available for processing again"): a recovered event, processing with its
\* start time cleared, eventually leaves the status it was stuck in.
RecoveredIsRetried == \A e \in Events :
    <>[](Source[e] \in enabled) =>
        ((stored[e].status = "processing" /\ ~stored[e].started)
            ~> (stored[e].status # "processing"))
=============================================================================
