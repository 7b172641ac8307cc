# A TLA+ verification of the TON kit's wallet core

The repository is a TypeScript monorepo: WalletKit (`packages/walletkit`), the
library a TON wallet is built on; AppKit (`packages/appkit`,
`packages/appkit-react`), the one a dApp is built on; an MCP server for agents
(`packages/mcp`); bridges to native Android and iOS hosts; and demo
applications. Its concurrent, stateful and failure-prone part is WalletKit's
TON Connect pipeline: requests of dApps come from a bridge, are stored durably,
are processed once each in order, survive restarts, and end in a question to
the user and an answer to the dApp. This directory models that pipeline from
the bridge to the user, the parts beside it that have timers and retries of
their own (streaming, analytics, the injected bridge), and the setup of agents'
wallets in the MCP server; TLC checks it and TLAPS proves most of its safety.

Everything is single-threaded JavaScript: an interleaving can happen at an
`await`, and where the code calls functions of the application in its middle,
which may call back into it. That is the atomicity of every action below. Of the
modelled parts that second case is `onclose` of the streaming provider: it runs
the connection callbacks before it schedules a reconnect, and is two actions
for that reason. Where callbacks are the last thing a handler does (the other
calls of emitConnectionChange), what they call is an action that comes next.

## Inventory

Paths are relative to `src/packages/walletkit/src` unless they start with `src/`.

| Component | State | Operations | What is hard | What makes it correct |
|---|---|---|---|---|
| Event store: `core/EventStore.ts` over `storage/Storage.ts` | one document `durable_events` in storage; `operationLock`, a map with one promise | storeEvent, acquireLock, releaseLock, updateEventStatus, recoverStaleEvents, cleanupOldEvents, reads | every operation reads, changes and rewrites the whole document across two awaits; a hand-made lock; a failed read looks like an empty document | operations are atomic; no caller waits for ever; a status changes along its declared life |
| Event processor: `core/EventProcessor.ts`, `core/EventRouter.ts` | loop flag, wake-up resolver, registered wallets, two timers | scan, acquire, route, complete/release, recover, clean up | the loop, two timers and the bridge share the store; what is decided on was read earlier; crash in the middle of an event | an event reaches the router at most once if it succeeds, at most maxRetries times if not, in order, and is eventually settled |
| Bridge: `core/BridgeManager.ts` | queue, isProcessing, lastEventId (persisted), connection flags, timers | receive, store one by one, reconnect, start, close, answer | redelivery after a restart, close during a store, reconnect timers | nothing delivered is lost; lastEventId never passes an event not stored |
| Sessions: `core/TONConnectStoredSessionManager.ts` | map of sessions, persisted | create, remove, clear, initialize | every bridge event reloads and persists the map across awaits | a removed session stays removed |
| Approval: `core/RequestProcessor.ts` | none of its own | approve, reject, sign, broadcast, answer | a failure between broadcast and answer, a second approval | one transaction per approved request |
| Kit: `core/TonWalletKit.ts`, `core/Initializer.ts`, `core/WalletManager.ts` | wallets, initialised flag | add/remove wallets, wire, close | initialisation racing calls and close | a removed wallet's events are not processed |
| Streaming: `streaming/*` | callbacks per address, socket, reconnect/close/sync timers, trace cache | watch, unwatch, connect, reconnect, resync | timers racing subscriptions, callbacks that call back in the middle of onclose, late and reordered notifications | a subscriber is eventually subscribed on the server; finality does not go back |
| Analytics: `analytics/AnalyticsManager.ts` | queue, batch in flight, backoff | track, flush, retry | a failing batch against a full queue | bounded queue, nothing lost unaccounted, a queue that drains |
| Injected bridge: `bridge/transport/ExtensionTransport.ts`, `bridge/core/TonConnectBridge.ts` | pending requests with timeouts | send, answer, time out, destroy | answer racing the timeout, destroy with requests pending | every request is settled exactly once |
| Demo wallet queue: `src/demo/wallet-core/src/store/slices/tonConnectSlice.ts` | queue of requests, the one shown | enqueue, show, approve, reject, expire | an approval that ends after the queue moved on | the request that is removed is the one that was answered |
| MCP: `src/packages/mcp/src` | agentic setup sessions, registry file | create, callback, expire, complete | un-awaited reloads, file rewritten without a lock | a received callback is not lost |
| Android/iOS bridges | pending native calls | call, answer | an answer that cannot be parsed | every call is settled |
| AppKit, DeFi providers, API clients, contracts, UI | none or a cache | HTTP, encoding, rendering | - | - |

The bridge calls the store; the processor's loop and its two timers call the
store; the processor calls the router, which calls the handlers and the
application; the application calls the approval functions, which answer through
the bridge. Sessions and registered handlers decide which stored events the
loop can see. The event store is where all of these meet: it, the processor and
the bridge are modelled together and in most detail. The other components share
no state with them beyond calls and are modelled each by itself.

## Modules

* `EventDoc` - the document and what every operation computes from the copy it
  read: a record per event with status, retry count and whether
  `processingStartedAt` is set. Pure operators, shared by the modules below.
* `AtomicStore` - what the store promises: one operation at a time on one
  document. `ServeBlind` writes down that a failed read works on an empty one.
* `EventStore` - the store as it is. A caller is one sequential activity; an
  operation is `Start` (withLock: run or wait), `Read` (storage.get and the
  checks), `Write` (storage.set). `Settle` ends one: it deletes the entry of
  `operationLock`, whoever's it is, and starts every caller that awaited this
  operation. They start in one step because between the two only microtasks
  run, never a storage call. `ReadFault` and `WriteFault` are the adapter
  failing, `StoreCrash` a restart. `StoreNext` adds an environment that calls
  anything at any time.
* `Lifecycle` - the abstract life of an event: absent, new, processing, back to
  new or finished, then forgotten.
* `EventProcessor` - EXTENDS EventStore and replaces its environment by the
  program's four callers: `bridge` (processBridgeEvents stores one event after
  another), `loop` (processNextAvailableEvent and processEvent), `recovery` and
  `cleanup` (the two timers). One action per await of the loop. The reads of a
  scan and of the timers are not locked and are steps of their own. `attempts`
  and `routed` are ghosts that count deliveries to the router.
* `BridgeManager` - from the bridge server to the store: the connection with its
  reconnect timer (`Start`, `Opened`, `Refused`, `ReconnectTimer`,
  `UpdateClients`), the queue and the storing loop (`Deliver`, `QueueJsEvent`,
  `Trigger`, `Advance`), lastEventId in memory and in storage (`Stored`,
  `StoreFailed`, `Saved`, `Load`), `Close` and `Crash`. A module of its own
  beside EventProcessor, whose `bridge` caller abstracts it.
* `SessionStore` - the map of TON Connect sessions in memory and on disk. Its
  storage serves requests in their order and may fail each; `Load`, `Merge` are
  the loadSessions and migration that `initialize()` runs at every bridge event,
  between which `CreateSession`, `RemoveSessions` and `ClearSessions` happen.
* `RequestQueue` - the demo wallet's queue of requests and one modal per kind.
  `Arrive` is what the kit's listeners do, `PressApprove`/`PressReject` the
  user, `Broadcast`, `ApproveSucceeds`, `ApproveFails`, `RejectEnds` the calls
  into `RequestProcessor` as far as they matter here, `CloseTimer` and `Poll`
  the timers that show the next request, `RestartWallet` and `Logout` the ends.
* `Streaming` - watches with their closures, the socket with its handlers, and
  the sync, close-check and reconnect timers. A watch is given a function of its
  own or one that already watches the key, as a Set of functions tells apart. A
  closure keeps the function and the set it was put in also after the map has
  dropped that set. `Closed` is onclose up to its connection callbacks,
  `CloseReported` the rest; in between only what a callback may call happens:
  `Watch`, `Unwatch`, `Connect`, `Disconnect`.
* `TraceFeed` - notifications of traces by finality through the LRU cache:
  `Notify`, `IgnoreLower`, `Invalidate`, `ClearCache`, with watchers that come
  and go. `told` is the history of what each watcher heard last.
* `Analytics` - `Emit`, the batch timer, one request at a time, and what a
  refusal does (`Retry` puts the batch back, `GiveUp` drops it).
* `ExtensionRpc` - requests of a page to the wallet's extension over one or more
  senders, with answers, failures, timeouts and `destroy()`.
* `AgenticSetup` - drafts, sessions and callbacks of agents' wallets in the MCP
  server's config file, and the manager's copy of the sessions. The manager
  starts to read the file without awaiting it; since everything else in such a
  call is synchronous or a microtask, an action is one turn of the event loop,
  and a turn leaves the copy as the file was when the turn read it. Only the
  body of a callback and the validation of a wallet span turns.
* `SequenceFacts` - lemmas about the least of a set of numbers and about
  sequences (elements, repetition, removal of a first occurrence), for the proofs.
* `EventStoreProofs`, `EventProcessorProofs`, `BridgeManagerProofs`,
  `RequestQueueProofs`, `StreamingProofs` - the theorems of these modules (the last
  has those of `TraceFeed` as well).
* `EdgesProofs`, `KitProofs` - the theorems of the modules that are checked side
  by side and have no proof module of their own (`Analytics` and `ExtensionRpc`;
  `SessionStore` and `AgenticSetup`), and those of the compositions `MCEdges` and
  `MCKit`.
* `MCEventStore`, `MCEventProcessor`, `MCBridgeManager`, `MCStreaming` - instances
  for TLC. `MCEdges` and `MCKit` are instances of five components each: these
  share no state, so that running them side by side would only multiply their
  states. Such a behaviour chooses one `part` at the start and is a behaviour of
  that part alone; what is checked of each is what a run of its own would check
  (the theorems `EdgesRunTheirParts` and `KitRunsItsParts`).

Abstractions. An event is its number, in the order of `createdAt`; its payload,
size check, session id and type are its `Source`: the wallet of its session, or
NoWallet for a connect request, which `getNoWalletEvents` returns without
looking at sessions. A source is `enabled` while the session, the registered
wallet and the handler of the event's type exist. Times are left to choice: the
timers may find any processing event stale and any finished event old. The
wait of at most 500 ms between two scans is a stutter. A handler or the
application's callback accepts or throws, and throws an empty message for the
events in `Wordless`. Each event is delivered by the bridge once and stored
under one identifier; redelivery belongs to `BridgeManager`.

In `BridgeManager` a message is its number on the server and its lastEventId at
once, and the store is one call that succeeds or fails. A run of
processBridgeEvents awaits the store, then (for a new id) the saving of
lastEventId; everything between two awaits is one action. The SDK's
`BridgeProvider` is not in the repository: from its use the module assumes that
a restored connection goes on after the id it was given, delivers in order, and
that a failed `restoreConnection` leaves the connection there was. The session
lookups of handleBridgeEvent change no state of the bridge and are left out.
Two pieces of the code do nothing and have no action: the timer that calls
processBridgeEvents every second (QueueIsAttended says it never finds an event
to take), and `restartConnection` (handleBridgeEvent throws nothing, so the
catch that calls it is not reached). A second `start()` of a bridge whose
first connection failed has no caller and is left out; so are sendResponse and
sendJsBridgeResponse, which change no state.

In the other modules: a session is the number of its key pair, and the filters
of removals (wallet, domain, inactivity) are a choice of any sessions; loading
and migrating are one step, as nothing is awaited between them; the wallet
address that loading fills in changes no key and is left out. A request is its
kind, and whether its wallet can pay is a choice. An update of the streaming
server is its trace, its finality and its accounts; balances and jettons are
passed on as they come and left out. Connection callbacks are assumed not to
throw (one that throws in onclose skips the reconnect). In `Analytics` every
refusal is retried, also a 4xx: the generated client throws whatever is no success
(`analytics/swagger/generated.ts:3314`), so that the branches of
processEventsBatch that look at the status are never reached. In
`ExtensionRpc` answers carry no content. In `AgenticSetup` a session is its
status, the payload is that it was received, and time is a choice of which
sessions are over.

## Runs

| Run | Configuration | Shows |
|---|---|---|
| `store_pair` | 2 callers, 2 events, every call, 1 fault, 1 restart | withLock excludes between two callers; the store implements AtomicStore |
| `store_three_race` | 3 callers, 2 events | violated: a third caller breaks the exclusion |
| `bridge_and_loop` | bridge and loop, 3 events of 2 sources, 2 attempts, 1 restart, sources come and go | AtMostOnce, AttemptsBounded, NoOvertaking, Lifecycle, EventuallySettled |
| `four_callers` | all 4 callers, 2 events, 1 fault, one event with empty errors | NoOrphanedWaiter: nobody awaits a settled operation; CompletedWasRouted and ErroredWasRetried survive lost updates and stale copies |
| `stale_recovery` | loop and recovery, 1 event, 1 restart | violated: a recovered event is never retried |
| `wordless_errors` | loop, 1 event with empty errors | violated: attempts beyond maxRetries |
| `bridge_queue` | 3 messages, 1 event of the injected bridge, 1 reconnect attempt, 1 joining client, 1 fault, 1 restart, close while connected | AckedIsStored, QueueIsAttended, FirstStoredInOrder, SavedIsNotRepeated, EventuallyStored |
| `bridge_store_failure` | 3 messages, 1 fault | violated: the message the store failed on is passed over |
| `bridge_close` | 3 messages, close in any state of the connection | violated: two runs of processBridgeEvents at once |
| `edges` | streaming: 1 key, 2 watches, 2 sockets, 2 faults; analytics: 5 events, batches of 2, queue of 3, 2 attempts; extension: 2 requests, 2 senders; requests: 2, queue of 2; store: 3 callers, 1 event | QueueHasAttention, NoEventVanishes, WaitingIsTimed; and all five get on: EventuallyServed, QueueDrains, RequestSettles, RequestIsServed, EveryCallSettles |
| `kit` | requests: 3, queue of 2, 1 trouble; sessions: 2 with 2 keys, 2 mishaps; streaming: 2 keys, 2 watches, closures called twice, 2 sockets, 2 faults; traces: 2 of 2 accounts, cache of 1; setups: 2 | ShownIsOnScreen, CutOffNeedsTrouble, BroadcastOnce; SessionsAsDecided, LastWriteIsTheMap; OneSocket, ServerInSync, WatchesAreAttended, WatchIsHeard; UndoReaches, NeverLessFinal; CallbackIsKept |
| `one_socket` | streaming as in `kit` | violated: a connection callback opens a socket in the middle of onclose, the reconnect timer a second one |

Bounds. Two events are the least for a lost update (one operation on each),
three for order (two of one source and one of another between them). Two
callers are the bridge and the loop, which run all the time; the timers add the
third and the fourth. One fault and one restart suffice for every single-fault
outcome; the properties of `four_callers` are proved for any number. MaxRetries
2 lets an event fail, be retried and be given up. The ghosts stop at
MaxRetries + 1, one above what any property compares with. For the bridge,
three messages are one stored, one in the store and one queued, which is what a
redelivery must overlap; two loops are what a close can leave running beside a
new one. `bridge_queue` closes the kit only while it is connected (`CloseWhen`):
with a connection or a timer pending, close() leads to what `bridge_close`
shows. After a close nothing but a restart needs to happen, and after the last
bounded step the bridge rests, so deadlock is not checked in these runs. The
parts of `edges` and `kit` rest when nobody asks anything of them; deadlock is
not checked there either, the liveness properties are.

Of the parts: two watches are a second one of the same key, with the same
function or another, or one after the set of the first was dropped, or two
kinds and addresses (one key is enough for the liveness of `edges`); two calls
of a closure are one too many; two sockets are the one that closes beside its
successor, or two that are heard; two faults are a reconnect that fails again.
Five events against a queue of three and batches of two overflow it while a batch is away, and two attempts are one
retry and one giving up. Two requests over two senders mix the answers of
copies. A queue of two meets a full queue with the third request (`kit`), and
one trouble is each of the single ones: a failed approval, a restart, a logout;
two requests suffice for one to wait for the other (`edges`). Two mishaps are a
failed write and the load after it, or a failed load and a restart; three
queued storage requests are a load between two writes. A cache of one evicts at every
second trace. Two setups are one to poll or create while the other expires or
is answered. What is proved holds without these bounds.

Fairness. Storage calls settle (`WF` on each caller's pending call); the loop
always goes on, because handlers return and `waitForWakeUpOrTimeout` resolves
by itself; a started recovery goes through its list. Nothing is assumed of the
caller that stores the bridge's events, of sessions, of the timers' findings or of
restarts. EventuallySettled
speaks of runs without a further restart and of a source that stays enabled:
after a restart in mid-event the finding of `stale_recovery` applies. The bridge
assumes that its calls settle, that its timer fires and that an open connection
delivers; a server may refuse for ever, and EventuallyStored then speaks only
of a bridge that has not given up for good and is not closed. In `edges`: timers
of setTimeout and setInterval that are set fire, attempts to connect and sockets
that close come to an end, an onclose handler returns, requests to the analytics
server and calls into the kit end one way or another, and the user decides on a request that is shown.
Nothing is assumed of senders, answers, arriving requests, failures, or of
callers that watch and end watches: a request of the extension settles because
of its timer alone. EventuallyServed speaks of a key that stays watched, after
the bounded faults and unless disconnect() is called or a callback opened a second
socket, and QueueDrains of a time when no more events come.

What the properties leave out because it does happen, and no text of the
repository forbids it: a failed read of the store wipes the document (`ServeBlind`
is an action of AtomicStore); an event whose completion fails is routed again
(AtMostOnce is checked without storage faults); a completed event comes back to
processing and a requeued one is cleaned up under four callers; a session that
changes during a load, or whose read at a restart fails, is set back (`exposed`);
requests that `destroy()` forgets are never settled, and the failure of one of two
senders rejects what the other delivered; an approval that fails after the
broadcast can be pressed again, and after such trouble another request can be
cut off; a closure called twice, or one of two watches with the same function,
silences a later or another watch. That each write of the sessions reaches the
storage in order is assumed of the adapter.

What disagrees with the repository's own words:

1. `store_three_race`: "Save atomically within the lock" (`core/EventStore.ts:149`)
   does not hold for a third concurrent caller, since withLock waits once.
2. `stale_recovery`: "Reset to processing status (keep retry count) so it can be
   retried" (`core/EventStore.ts:263`): no reader takes an event in that status.
3. `wordless_errors`: "Maximum number of retry attempts before marking event as
   errored" (`types/durableEvents.ts:79`): an error with an empty message counts
   no attempt.
4. `bridge_store_failure`: "if we've encountered error, bridge connection we be
   restarted from last success id, so we should try to process same event again"
   (`core/BridgeManager.ts:567`): the error never leaves handleBridgeEvent.
5. `bridge_close`: "Ensure only one processing instance runs at a time"
   (`core/BridgeManager.ts:570`): close() resets the flag under a running one.
6. `one_socket`: "Manages a single WebSocket connection and reports account
   updates." (`streaming/toncenter/provider.ts:16`): a connection callback that
   watches or connects in onclose (`streaming/WebsocketStreamingProvider.ts:208`)
   opens a socket, and onclose then sets a reconnect timer, which opens another.

Seen while modelling, without a run of its own:

* "Notify all registered listeners of an event"
  (`bridge/core/TonConnectBridge.ts:106`): `notifyListeners` runs forEach over the
  array that the closures of `listen` splice, so a listener that ends itself in its
  callback makes forEach pass over the one behind it.
* "Analytics queue overflow after restore, dropped oldest events"
  (`analytics/AnalyticsManager.ts:204`): the batch is put back in front and the end
  of the queue, its newest events, is cut off.
* One function that watches an address twice is in the set once: ending one of
  its watches ends the other (`streaming/WebsocketStreamingProvider.ts:93`, `:99`).

* `AnalyticsManager.spec.ts` (about 194 to 209) expects a client error to be
  dropped; with the real generated client, which throws, it is retried.
* `StreamingManager.registerProvider` replaces the provider of a network without
  ending its watches.
* `createSession` of the stored session manager returns what the map holds after
  its await (`core/TONConnectStoredSessionManager.ts:92`): undefined, or another
  session, if it was changed meanwhile.
* A transaction of an unknown wallet is dropped without an answer
  (`tonConnectSlice.ts:562`), as is a request embedded in a connect request when
  the queue is full (`tonConnectSlice.ts:99`); a logout leaves the modal of a
  signMessage request (`authSlice.ts:124`).
* The first poll after `startRootWalletSetup` finds no session and reports
  `pending_without_callback`: the copy is the file of before createSession. A
  session that was cancelled while its callback's body was read comes back into
  the file, without a draft; only a second cancellation removes it.

## Proofs

All for any Callers, Events, Wallets, Loops, messages, bounds and initial
document the assumptions `StoreAssumption`, `ProcessorAssumption` and
`BridgeAssumption` allow, and for any values of the other modules' constants
that their named assumptions allow. Each module's types are a theorem
(`*TypeCorrect`). Every invariant a passing run checks is proved, and so are the action
properties and the two refinements; where a theorem has a hypothesis, it is
named below and is what the run's configuration has.

* `StoreTypeCorrect`, `TypeCorrect` - types. The pipeline's needs that the loop
  holds an event whenever it is past the scan and that "loop" is then a caller.
* `WaitersAreServed` - NoOrphanedWaiter for any number of callers. The lock's
  entry is always that of a running operation: a settling one hands the entry
  to a caller it starts in the same step, or clears it.
* `TwoCallersSaveAtomically`, `TwoCallersRefine` - with at most two callers,
  two operations never run at once (the inductive part: a running one owns the
  entry), so the copy about to be written is the document, so a write is one
  atomic step of AtomicStore and every other step a stutter.
* `CompletedWereRouted`, `ErroredWereRetried` - for all four callers, any faults
  and restarts. Writes of stale copies make the document itself useless as an
  induction hypothesis: the invariant `TruthInv` says that every copy which may
  reach the document again - the document, what a caller has read, what the
  recovery still holds, what a pending save carries - is honest: it claims no
  completion without a delivery, no error without maxRetries attempts, no more
  retries than attempts, and one retry less while a release is still owed.
* `RepeatsCostFaults`, `WordedAreBounded`, `NothingOvertakes` - for the bridge and
  the loop alone (`BridgeAndLoop`), over a storage that may fail, with any number of
  restarts and of sources that come and go. `PairInv` of the store makes what the
  loop writes a function of the document as it is; a save of the bridge that read
  nothing wipes the other events, which then never come back, since the bridge
  brings an event only once (`Expected`). On top of it `HoldInv` (what the loop
  believes of its event is what the document says, if the event is not gone),
  `BridgeInv` (an expected event is neither in the document nor held), and for
  each theorem what it counts. `OnceInv`: an event that waits was accepted at most
  as often as the storage failed, one past that once more. `BudgetInv`: an event
  that waits had no more attempts than it counts retries. `OrderInv`: events are
  stored in the order of their age, and the scan keeps the oldest.
* `AcceptedAtMostOnce`, `AttemptsAreBounded` - what follows for a storage that does
  not fail (`MaxFaults = 0`), and if every exception has a message (`Wordless = {}`);
  `EventsLiveAsDeclared`, the refinement of `Lifecycle`, for such a storage too.
  These are the hypotheses of `bridge_and_loop`, and they are needed: a third
  caller breaks the exclusion (`store_three_race`); a completion the storage loses
  is released and routed again, which the code cannot know; a wiped document is no
  step of one event's life; an exception without a message counts no attempt
  (`wordless_errors`). `NothingOvertakes` needs that what an earlier run left is
  older than what is to come (`OldestStored`), as createdAt is if the clock does not
  go back.
* `BridgeTypeCorrect` - types; needs that only messages, which have an id, are
  being saved.
* `BridgeInOrder` - the inductive invariant `OrderInv` behind the next three, for
  a kit that is closed only while its connection is at rest (`ClosedAtRest`; the
  run `bridge_close` shows why that is needed). A message is answered (stored,
  or refused by the store), held by the run that stores it, or queued, and what
  comes before it is answered, held or queued before it; ids the server may be
  given cover answered messages only; while the kit is open one run at most
  exists, and a closed one queues nothing but events without an id. That the
  queue may hold a message several times (a client joined) does no harm: the
  order is stated of the messages ahead of each copy.
* `BridgeAckedIsStored`, `BridgeQueueIsAttended`, `BridgeStoresInOrder` - what
  follows from it.
* `BridgeRepeatsNothingSaved` - with `FreshInv` on top: until a client joins or a
  call fails, the server was asked to go on from what was saved, and what is
  queued or held is not saved yet. Under `ClosedAtRest` as well.

* `RequestsInOrder` - `RequestInv`, for any requests, kinds and size of the queue. A
  modal shows requests of its kind; what is shown, queued or decided on has
  arrived, and only the current request of the queue is decided on; while the
  queue is held up, its request is on the screen; a transaction that was
  broadcast and whose approval has ended is neither queued nor shown; and until
  there is trouble (`Orderly`), the decision under way and the modals are the
  current request's. `HeldUpIsShown`, `NothingCutOff` and
  `TransactionsAreBroadcastOnce` follow. The queue is filtered by `Keep`, a recursive
  function, of which nothing but its least counterexample is needed
  (`KeepComputes`, `KeepFacts`): that is an argument by well-foundedness, for which
  no induction theorem with an operator parameter is necessary.
* `RpcWaitingIsTimed` - WaitingIsTimed is inductive with the types, for any
  requests and senders.
* `AnalyticsAttention`, `AnalyticsNothingVanishes` - the invariant `AnalyticsInv`
  adds that queue and batch hold every event once and in common none, which a
  batch put back in front of a queue that has filled up meanwhile must keep.
* `StreamingOneSocket`, `StreamingAttended` - with the connection invariant
  `ConnectionInv`: a socket that is connecting or open is heard and is `this.ws`;
  with one there is no reconnect timer. Both hold until a callback has opened a
  socket in the middle of onclose (`reopened`), after which `one_socket` applies:
  nothing is said of the connection then.
* `StreamingInSync` - without that exemption. `SyncInv`: an open `this.ws` is
  connected, `lastAddresses` is what it was told, and without a pending resync
  that is what is watched.
* `StreamingHeard` - `ClosureInv`: the watches of a key that were not ended have
  their functions in the set the map has for it, and of two with one function the
  later came when it was there already; unless a closure of the key was called
  twice, or one was called while its function watched twice (`Misused`).
* `FeedUndoReaches`, `FeedNeverLessFinal` - `TellingInv`, whatever entry the cache
  evicts: what a watcher was told is in the cache with that finality or higher,
  or was evicted. `FeedTypeCorrect` - the cache keeps its maximum, since the order
  of use has each cached trace exactly once (`OrderOfUse`).
* `SessionsLastWrite`, `SessionsDecided` - `Saved`: the last write under way is of
  the map as it is. `DecidedInv`: the map, what a load has read, every write
  under way and the disk agree with what was decided, but for sessions that a
  failure, a restart or a change during a load has exposed.
* `SetupKeepsCallback` - `CallbackInv`: identifiers not yet given out are nowhere,
  a setup that waits for its session has none to overwrite, and the copy, though
  late, is never behind an answered callback.
* `KitRunsItsParts`, `EdgesRunTheirParts` - a behaviour of the parts side by side is
  a behaviour of each part, so that every theorem above holds of what the two
  runs check; `KitTypeCorrect` and `EdgesTypeCorrect` are put together from the
  parts' types.

Only model-checked: the liveness properties (EventuallySettled, EveryCallSettles,
EventuallyStored, EventuallyServed, QueueDrains, RequestSettles, RequestIsServed),
which need fairness and ENABLED, beyond the provers' reach.

## Not modelled, and the plan

* TonWalletKit, Initializer, WalletManager: wiring; what other components see of
  them, removals and restarts, is in `SessionStore` and `EventProcessor`.
* `StreamingManager`, the ping, balances and jettons: passed through.
* The listeners of the injected bridge (see above). The walletkit side of the
  injected bridge and the Android and iOS bridges: the protocol of
  `ExtensionRpc` again, over generated glue and native code.
* The rest of the MCP server: its registry changes one file by a read and a write
  within one turn of the event loop; McpWalletService and the tools are requests
  to the network. Two processes on one file are excluded by the package's own
  README.
* AppKit: its managers forward to providers, its cache is a library.
* API clients, DeFi providers, contract encodings, code generators, UI packages
  and the demo applications (but for the request queue): input/output. They are
  most of the repository's lines and have no state worth a model.

Left to do, in this order:

1. The bridge as the producer of the pipeline: `BridgeManager` refining the
   `bridge` caller of `EventProcessor`, with redelivered events.
2. stopProcessing and a second kit on the same storage.
