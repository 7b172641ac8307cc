---------------------------- MODULE BridgeManager ----------------------------
(***************************************************************************)
(* BridgeManager on its way from the bridge server to the durable store:   *)
(* the connection and its reconnect timer, the in-memory queue, the loop   *)
(* that stores one event after another, and lastEventId, from which the    *)
(* server delivers again.                                                  *)
(*                                                                         *)
(* A message is its number on the server, which is also its lastEventId.   *)
(* An event of the injected bridge (JsEvent) comes from no server and has  *)
(* none.  EventProcessor sees this component as its bridge caller.         *)
(***************************************************************************)
EXTENDS Naturals, Sequences

CONSTANTS NumMessages,      \* bound: messages the dApps send
          JsEvent,          \* an event of the injected bridge
          Loops,            \* runs of processBridgeEvents at one time
          MaxAttempts,      \* config.maxReconnectAttempts, where 0 stands for 5
          CloseWhen,        \* bound: the states of the connection in which the kit is closed
          MaxJsEvents,      \* bound: events of the injected bridge
          MaxUpdates,       \* bound: times a session is created or removed
          MaxFaults,        \* bound: storage calls that fail
          MaxCrashes        \* bound: times the program is killed and restarted

Messages == 1..NumMessages
Items == Messages \cup {JsEvent}
Links == {"off", "connecting", "waiting", "connected", "updating", "gaveUp"}

ASSUME BridgeAssumption ==
    /\ MaxAttempts \in Nat \ {0}
    /\ NumMessages \in Nat /\ MaxJsEvents \in Nat /\ MaxUpdates \in Nat /\ MaxFaults \in Nat /\ MaxCrashes \in Nat
    /\ JsEvent \notin Nat
    /\ CloseWhen \subseteq Links

VARIABLES
    sent,           \* messages the server has
    link,           \* the connection: isConnected, the reconnect timer, calls in flight
    resume,         \* the lastEventId the call in flight connects with
    cursor,         \* last message the open connection delivered
    streaming,      \* whether the provider holds an open connection
    attempts,       \* reconnectAttempts
    eventQueue,     \* eventQueue
    isProcessing,   \* isProcessing
    step,           \* what each run of processBridgeEvents awaits
    item,           \* the event it handles
    lastEventId,    \* lastEventId in memory; 0 is undefined
    savedId,        \* lastEventId in storage
    inbox,          \* ghost: times the store has stored each message
    failed,         \* ghost: messages the store once failed to store
    closed,         \* close() was called
    jsEvents, updates, faults, crashes      \* counted by the bounds

linkVars == <<sent, link, resume, cursor, streaming, attempts, closed>>
loopVars == <<eventQueue, isProcessing, step, item>>
idVars == <<lastEventId, savedId>>
ghostVars == <<inbox, failed>>
boundVars == <<jsEvents, updates, faults, crashes>>
vars == <<linkVars, loopVars, idVars, ghostVars, boundVars>>

Ids == 0..NumMessages

TypeOK ==
    /\ sent \in Ids /\ resume \in Ids /\ cursor \in Ids
    /\ lastEventId \in Ids /\ savedId \in Ids
    /\ link \in Links
    /\ streaming \in BOOLEAN /\ isProcessing \in BOOLEAN /\ closed \in BOOLEAN
    /\ attempts \in 0..MaxAttempts
    /\ eventQueue \in Seq(Items)
    /\ step \in [Loops -> {"idle", "storing", "saving"}]
    /\ item \in [Loops -> Items]
    /\ inbox \in [Messages -> Nat]
    /\ failed \subseteq Messages
    /\ jsEvents \in 0..MaxJsEvents
    /\ updates \in 0..MaxUpdates
    /\ faults \in 0..MaxFaults
    /\ crashes \in 0..MaxCrashes

Init ==
    /\ sent = 0 /\ link = "off" /\ resume = 0 /\ cursor = 0 /\ streaming = FALSE
    /\ attempts = 0 /\ closed = FALSE
    /\ eventQueue = <<>> /\ isProcessing = FALSE
    /\ step = [l \in Loops |-> "idle"] /\ item = [l \in Loops |-> JsEvent]
    /\ lastEventId = 0 /\ savedId = 0
    /\ inbox = [m \in Messages |-> 0] /\ failed = {}
    /\ jsEvents = 0 /\ updates = 0 /\ faults = 0 /\ crashes = 0

Fault == faults < MaxFaults /\ faults' = faults + 1 /\ UNCHANGED <<jsEvents, updates, crashes>>
-----------------------------------------------------------------------------
(* The connection. *)

\* A dApp sends a message; the server keeps it for delivery.
Send ==
    /\ sent < NumMessages
    /\ sent' = sent + 1
    /\ UNCHANGED <<link, resume, cursor, streaming, attempts, closed,
                   loopVars, idVars, ghostVars, boundVars>>

\* restoreConnection is called with the lastEventId of this moment.
Connect(id, l) == link' = l /\ resume' = id /\ UNCHANGED <<sent, cursor, streaming>>

\* Mutant of Load: start() does not read the saved id.
LoadNothing == lastEventId' = 0 /\ UNCHANGED <<savedId, boundVars>>

\* loadLastEventId: a failed read leaves lastEventId undefined.
Load ==
    /\ \/ lastEventId' = savedId /\ UNCHANGED boundVars
       \/ lastEventId' = 0 /\ Fault
    /\ UNCHANGED savedId

Start ==
    /\ link = "off"
    /\ ~closed
    /\ Load
    /\ Connect(lastEventId', "connecting")
    /\ UNCHANGED <<attempts, closed, loopVars, ghostVars>>

\* The provider is connected and goes on after the id it was given.
Opened ==
    /\ link \in {"connecting", "updating"}
    /\ link' = "connected"
    /\ streaming' = TRUE
    /\ cursor' = resume
    /\ attempts' = IF link = "connecting" THEN 0 ELSE attempts
    /\ UNCHANGED <<sent, resume, closed, loopVars, idVars, ghostVars, boundVars>>

\* Mutant of Refused: one attempt too many.
RefusedOnceMore ==
    /\ \/ /\ link = "connecting" /\ attempts <= MaxAttempts
          /\ attempts' = attempts + 1 /\ link' = "waiting"
       \/ link = "updating" /\ link' = "connected" /\ UNCHANGED attempts
    /\ UNCHANGED <<sent, resume, cursor, streaming, closed,
                   loopVars, idVars, ghostVars, boundVars>>

\* The connection is refused: a timer tries again, maxReconnectAttempts times.
\* updateClients only throws, and the provider keeps the connection it has.
Refused ==
    /\ \/ /\ link = "connecting" /\ attempts < MaxAttempts
          /\ attempts' = attempts + 1 /\ link' = "waiting"
       \/ /\ link = "connecting" /\ attempts = MaxAttempts
          /\ link' = "gaveUp" /\ UNCHANGED attempts
       \/ link = "updating" /\ link' = "connected" /\ UNCHANGED attempts
    /\ UNCHANGED <<sent, resume, cursor, streaming, closed,
                   loopVars, idVars, ghostVars, boundVars>>

\* The reconnect timer, which close() does not cancel.
ReconnectTimer ==
    /\ link = "waiting"
    /\ Connect(lastEventId, "connecting")
    /\ UNCHANGED <<attempts, closed, loopVars, idVars, ghostVars, boundVars>>

\* createSession and removeSession: updateClients connects anew, from the last
\* stored event, while the old connection still delivers.
UpdateClients ==
    /\ link \in {"connected", "updating"}
    /\ ~closed
    /\ updates < MaxUpdates
    /\ updates' = updates + 1
    /\ Connect(lastEventId, "updating")
    /\ UNCHANGED <<attempts, closed, loopVars, idVars, ghostVars, jsEvents, faults, crashes>>
-----------------------------------------------------------------------------
(* The queue: queueBridgeEvent, queueJsBridgeEvent, processBridgeEvents. *)

\* Mutants of Trigger and Advance: a second run starts beside the one in
\* progress, a run handles one event only, and a run that ends keeps
\* isProcessing set.
TriggerAlways(q) ==
    \E l \in Loops :
        /\ step[l] = "idle"
        /\ step' = [step EXCEPT ![l] = "storing"]
        /\ item' = [item EXCEPT ![l] = Head(q)]
        /\ eventQueue' = Tail(q)
        /\ isProcessing' = TRUE
AdvanceOnce(l) ==
    /\ step' = [step EXCEPT ![l] = "idle"]
    /\ isProcessing' = FALSE
    /\ UNCHANGED <<eventQueue, item>>
AdvanceHeld(l) ==
    \/ /\ eventQueue # <<>>
       /\ step' = [step EXCEPT ![l] = "storing"]
       /\ item' = [item EXCEPT ![l] = Head(eventQueue)]
       /\ eventQueue' = Tail(eventQueue)
       /\ UNCHANGED isProcessing
    \/ /\ eventQueue = <<>>
       /\ step' = [step EXCEPT ![l] = "idle"]
       /\ UNCHANGED <<eventQueue, isProcessing, item>>

\* Run l takes the first event of q and asks the store to save it.
Take(l, q) ==
    /\ step' = [step EXCEPT ![l] = "storing"]
    /\ item' = [item EXCEPT ![l] = Head(q)]
    /\ eventQueue' = Tail(q)

\* processBridgeEvents is called with the queue q: it starts unless one runs.
Trigger(q) ==
    \/ isProcessing /\ eventQueue' = q /\ UNCHANGED <<isProcessing, step, item>>
    \/ /\ ~isProcessing
       /\ isProcessing' = TRUE
       /\ \E l \in Loops : step[l] = "idle" /\ Take(l, q)

\* The next iteration of the run, or its end.
Advance(l) ==
    \/ eventQueue # <<>> /\ Take(l, eventQueue) /\ UNCHANGED isProcessing
    \/ /\ eventQueue = <<>>
       /\ step' = [step EXCEPT ![l] = "idle"]
       /\ isProcessing' = FALSE
       /\ UNCHANGED <<eventQueue, item>>

Deliver ==
    /\ streaming
    /\ cursor < sent
    /\ cursor' = cursor + 1
    /\ Trigger(Append(eventQueue, cursor'))
    /\ UNCHANGED <<sent, link, resume, streaming, attempts, closed,
                   idVars, ghostVars, boundVars>>

\* The injected bridge is served after close() too.
QueueJsEvent ==
    /\ jsEvents < MaxJsEvents
    /\ jsEvents' = jsEvents + 1
    /\ Trigger(Append(eventQueue, JsEvent))
    /\ UNCHANGED <<linkVars, idVars, ghostVars, updates, faults, crashes>>
-----------------------------------------------------------------------------
(* handleBridgeEvent. *)

Counted(i) == IF i = JsEvent THEN inbox ELSE [inbox EXCEPT ![i] = @ + 1]

\* Mutant of Stored: lastEventId moves before the event is stored.
AckedBeforeStored(l) ==
    /\ step[l] = "storing"
    /\ \/ /\ item[l] \notin {JsEvent, lastEventId}
          /\ lastEventId' = item[l]
          /\ UNCHANGED <<loopVars, inbox>>
       \/ /\ item[l] \in {JsEvent, lastEventId}
          /\ inbox' = Counted(item[l])
          /\ UNCHANGED lastEventId
          /\ Advance(l)
    /\ UNCHANGED <<linkVars, savedId, failed, boundVars>>

\* storeEvent succeeded; only then lastEventId moves and is saved.
Stored(l) ==
    /\ step[l] = "storing"
    /\ inbox' = Counted(item[l])
    /\ \/ /\ item[l] \notin {JsEvent, lastEventId}
          /\ lastEventId' = item[l]
          /\ step' = [step EXCEPT ![l] = "saving"]
          /\ UNCHANGED <<eventQueue, isProcessing, item>>
       \/ item[l] \in {JsEvent, lastEventId} /\ UNCHANGED lastEventId /\ Advance(l)
    /\ UNCHANGED <<linkVars, savedId, failed, boundVars>>

\* storeEvent failed: handleBridgeEvent logs it, and the run goes on to the
\* next event.  Its catch leaves processBridgeEvents nothing to restart for.
StoreFailed(l) ==
    /\ step[l] = "storing"
    /\ Fault
    /\ failed' = failed \cup ({item[l]} \ {JsEvent})
    /\ Advance(l)
    /\ UNCHANGED <<linkVars, idVars, inbox>>

\* saveLastEventId, whose failure is logged only.
Saved(l) ==
    /\ step[l] = "saving"
    /\ \/ savedId' = item[l] /\ UNCHANGED boundVars
       \/ Fault /\ UNCHANGED savedId
    /\ Advance(l)
    /\ UNCHANGED <<linkVars, lastEventId, ghostVars>>
-----------------------------------------------------------------------------
\* close(): the queue is dropped and isProcessing reset, whatever is running.
Close ==
    /\ ~closed
    /\ link \in CloseWhen
    /\ closed' = TRUE
    /\ streaming' = FALSE
    /\ attempts' = 0
    /\ link' = IF link \in {"connected", "gaveUp"} THEN "off" ELSE link
    /\ eventQueue' = <<>>
    /\ isProcessing' = FALSE
    /\ UNCHANGED <<sent, resume, cursor, step, item, idVars, ghostVars, boundVars>>

\* The program is killed and started again; a closed kit is started this way too.
Crash ==
    /\ crashes < MaxCrashes
    /\ crashes' = crashes + 1
    /\ link' = "off" /\ resume' = 0 /\ cursor' = 0 /\ streaming' = FALSE
    /\ attempts' = 0 /\ closed' = FALSE
    /\ eventQueue' = <<>> /\ isProcessing' = FALSE
    /\ step' = [l \in Loops |-> "idle"] /\ item' = [l \in Loops |-> JsEvent]
    /\ lastEventId' = 0
    /\ UNCHANGED <<sent, savedId, ghostVars, jsEvents, updates, faults>>

HandleStep(l) == Stored(l) \/ StoreFailed(l) \/ Saved(l)

Next == \/ Send \/ Start \/ Opened \/ Refused \/ ReconnectTimer \/ UpdateClients
        \/ Deliver \/ QueueJsEvent \/ Close \/ Crash
        \/ \E l \in Loops : HandleStep(l)

Spec == Init /\ [][Next]_vars

\* Calls settle, timers fire, and an open connection delivers what the server
\* has.  Nothing obliges a server to accept a connection.
Fairness ==
    /\ WF_vars(Start) /\ WF_vars(Opened \/ Refused) /\ WF_vars(ReconnectTimer)
    /\ WF_vars(Deliver)
    /\ \A l \in Loops : WF_vars(Stored(l) \/ Saved(l))

FairSpec == Spec /\ Fairness
-----------------------------------------------------------------------------
(* Properties. *)

\* A message the server will not deliver again, because its id or a later one
\* is what the bridge connects with, is in the store, or the store refused it:
\* no crash, redelivery, reconnect or close() can lose one in between.
AckedIsStored ==
    \A m \in Messages : m <= lastEventId \/ m <= savedId \/ m <= resume =>
        inbox[m] > 0 \/ m \in failed

\* A queued event has a run that will take it.  So the timer start() sets
\* every second to call processBridgeEvents never finds anything to do, and
\* the module has no action for it.
QueueIsAttended == eventQueue # <<>> => isProcessing /\ \E l \in Loops : step[l] # "idle"

\* "Ensure only one processing instance runs at a time" (processBridgeEvents).
OneInstance == \A k, l \in Loops : step[k] # "idle" /\ step[l] # "idle" => k = l

\* What the comment on processBridgeEvents says of a store that fails: "if
\* we've encountered error, bridge connection we be restarted from last
\* success id, so we should try to process same event again".
FailedIsNotPassed ==
    \A m \in Messages : m <= savedId => inbox[m] > 0

\* Messages are stored for the first time in the order they were sent, which
\* is the order the event processor relies on, whatever is delivered again.
FirstStoredInOrder ==
    [][\A m \in Messages : inbox[m] = 0 /\ inbox'[m] > 0 =>
          \A k \in 1..(m - 1) : inbox[k] > 0 \/ k \in failed]_vars

\* A message whose id was saved is stored a second time only after a client
\* joined (the queue is then delivered again) or a storage call failed: a
\* restart alone repeats nothing that was acknowledged.
SavedIsNotRepeated ==
    [][\A m \in Messages : inbox'[m] > inbox[m] =>
          m > savedId \/ updates > 0 \/ faults > 0]_vars

\* While the program is neither closed nor out of reconnect attempts, every
\* message sent is eventually stored or refused by the store, across
\* restarts, redeliveries and refused connections.
EventuallyStored ==
    [](~closed) /\ <>[](link # "gaveUp") =>
        \A m \in Messages : sent >= m ~> (inbox[m] > 0 \/ m \in failed)
=============================================================================
