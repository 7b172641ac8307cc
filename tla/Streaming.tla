------------------------------ MODULE Streaming ------------------------------
(* The subscriptions of a streaming provider and the one web socket they
   share (WebsocketStreamingProvider.ts, TonStreamingV2BaseProvider.ts).

   A caller watches a key (a kind of update of an address) with a function and
   gets a closure that ends the watch.  The closure keeps the function and the
   set object it was put in, also after the map has dropped that object: a
   function is named here by the first watch of the key it was given to, a set
   by the watch that made it.  The web socket and the server are external.

   An onclose handler runs the application's connection callbacks in its
   middle: what they call happens between Closed and CloseReported. *)
EXTENDS Naturals, Sequences

CONSTANTS
    Types,          \* kinds of update
    Addresses,
    Keys,           \* the kinds and addresses that are watched
    MaxWatches,     \* bound: calls of watch
    MaxCalls,       \* bound: calls of the closure of one watch
    MaxSockets,     \* bound: sockets alive at the same time
    MaxFaults       \* bound: failed and dropped connections

ASSUME StreamingAssumption ==
    /\ MaxWatches \in Nat /\ MaxCalls \in Nat /\ MaxSockets \in Nat /\ MaxFaults \in Nat
    /\ Keys \subseteq Types \X Addresses

VARIABLES
    closures,       \* the watches so far: key, function and set object, and
                    \* whether the function was in that set already
    members,        \* the functions in each set object
    map,            \* the set object the provider has for each key, 0 for none
    calls,          \* history: how often each closure was called
    sockets,        \* the sockets, the last `sub` the server got on each
    ws,             \* this.ws, 0 for null
    isConnected,
    timers,         \* the timers that are set
    lastAddresses,
    reporting,      \* an onclose handler is running the connection callbacks
    paused,         \* history: disconnect() was called, and nothing opened since
    reopened,       \* history: such a callback opened a socket, and the handler
                    \* then scheduled a reconnect beside it
    faults

subscriptionVars == <<closures, members, map, calls>>
socketVars == <<sockets, ws, faults>>
reportVars == <<reporting, reopened>>
streamingVars ==
    <<subscriptionVars, socketVars, isConnected, timers, lastAddresses, paused, reportVars>>

Watches == 1..MaxWatches
Slots == 1..MaxSockets
Timers == {"sync", "closeCheck", "reconnect", "ping"}

NoSub == [types |-> {}, addresses |-> {}]
NoSocket == [state |-> "none", heard |-> FALSE, sub |-> NoSub]
\* A new WebSocket, with its four handlers.
NewSocket == [state |-> "connecting", heard |-> TRUE, sub |-> NoSub]

Active == {k \in Keys : map[k] # 0}
ActiveTypes == {k[1] : k \in Active}
ActiveAddresses == {k[2] : k \in Active}

StreamingInit ==
    /\ closures = <<>> /\ members = [w \in Watches |-> {}] /\ map = [k \in Keys |-> 0]
    /\ calls = [w \in Watches |-> 0]
    /\ sockets = [s \in Slots |-> NoSocket] /\ ws = 0 /\ faults = 0
    /\ isConnected = FALSE /\ timers = {} /\ lastAddresses = {}
    /\ paused = FALSE /\ reporting = FALSE /\ reopened = FALSE

-----------------------------------------------------------------------------
(* openConnection(), called with the timers T set: it stops the reconnect
   timer; the constructor may throw, and then a reconnect is scheduled. *)
OpenConnection(T) ==
    \/ /\ \E s \in Slots :
            /\ sockets[s].state = "none"
            /\ ws' = s /\ sockets' = [sockets EXCEPT ![s] = NewSocket]
       /\ timers' = T \ {"reconnect"}
       /\ paused' = FALSE
       /\ UNCHANGED faults
    \/ /\ faults < MaxFaults /\ faults' = faults + 1
       /\ timers' = T \cup {"reconnect"}
       /\ paused' = FALSE
       /\ UNCHANGED <<sockets, ws>>

\* Mutant of EnsureConnected: a connection that is being made does not count.
EnsureConnectedTwice(T) ==
    IF isConnected
    THEN timers' = T /\ UNCHANGED <<socketVars, paused>>
    ELSE OpenConnection(T)

Connecting == ws # 0 /\ sockets[ws].state = "connecting"

EnsureConnected(T) ==
    IF isConnected \/ Connecting
    THEN timers' = T /\ UNCHANGED <<socketVars, paused>>
    ELSE OpenConnection(T)

(* disconnect(): every timer is cleared, the socket is closed unheard. *)
DropConnection ==
    /\ timers' = {} /\ isConnected' = FALSE /\ lastAddresses' = {} /\ ws' = 0
    /\ sockets' = IF ws = 0 THEN sockets
                  ELSE [sockets EXCEPT ![ws].heard = FALSE, ![ws].state = "closing"]

\* Mutant of Resubscribed: the server is not told of the last address.
ResubscribedOnly(sub) ==
    IF ActiveAddresses # {} THEN [types |-> ActiveTypes, addresses |-> ActiveAddresses]
    ELSE sub

(* fullResync() on an open socket: what the server knows after the message
   sent, and the addresses the provider remembers.  A subscribe message
   replaces the subscription, an unsubscribe message takes addresses from it. *)
Resubscribed(sub) ==
    IF ActiveAddresses # {} THEN [types |-> ActiveTypes, addresses |-> ActiveAddresses]
    ELSE [sub EXCEPT !.addresses = @ \ lastAddresses]

\* fullResync() when the sockets are `now`: it sends over this.ws, and only
\* while that is open.
FullResync(now) ==
    IF isConnected' /\ ws # 0 /\ now[ws].state = "open"
    THEN /\ sockets' = [now EXCEPT ![ws].sub = Resubscribed(@)]
         /\ lastAddresses' = ActiveAddresses
    ELSE sockets' = now /\ UNCHANGED lastAddresses

-----------------------------------------------------------------------------
\* Mutant of SetFor: the callbacks a key has are left behind.
NewSetFor(k) == Len(closures) + 1

\* The set object the callback of a new watch is put in.
SetFor(k) == IF map[k] = 0 THEN Len(closures) + 1 ELSE map[k]

(* watchBalance, watchTransactions, watchJettons: addCallback, given a function
   of its own or one that watches already. *)
Watch(k, callback) ==
    LET w == Len(closures) + 1
        set == SetFor(k)
        isFirst == map[k] = 0 \/ members[set] = {}
        again == callback \in members[set]
    IN /\ w <= MaxWatches
       /\ \/ callback = w
          \/ \E u \in DOMAIN closures : closures[u].key = k /\ closures[u].callback = callback
       /\ closures' = Append(closures, [key |-> k, callback |-> callback, set |-> set,
                                        again |-> again])
       /\ members' = [members EXCEPT ![set] = @ \cup {callback}]
       /\ map' = [map EXCEPT ![k] = set]
       /\ IF isFirst THEN EnsureConnected(timers \cup {"sync"})
          ELSE UNCHANGED <<socketVars, timers, paused>>
       /\ UNCHANGED <<calls, isConnected, lastAddresses, reportVars>>

(* The closure of a watch, which its caller may call again: the set object is
   compared by its size, the map entry is deleted by its key. *)
Unwatch(w) ==
    LET k == closures[w].key
        left == members[closures[w].set] \ {closures[w].callback}
    IN /\ w \in DOMAIN closures /\ calls[w] < MaxCalls
       /\ members' = [members EXCEPT ![closures[w].set] = left]
       /\ calls' = [calls EXCEPT ![w] = @ + 1]
       /\ IF left = {}
          THEN map' = [map EXCEPT ![k] = 0] /\ timers' = timers \cup {"sync", "closeCheck"}
          ELSE UNCHANGED <<map, timers>>
       /\ UNCHANGED <<closures, socketVars, isConnected, lastAddresses, paused, reportVars>>

Connect ==
    /\ EnsureConnected(timers)
    /\ UNCHANGED <<subscriptionVars, isConnected, lastAddresses, reportVars>>

Disconnect ==
    /\ DropConnection
    /\ paused' = TRUE
    /\ UNCHANGED <<subscriptionVars, faults, reportVars>>

-----------------------------------------------------------------------------
(* The timers.  Neither they nor the socket's events come while an onclose
   handler runs. *)
SyncTimer ==
    /\ ~reporting /\ "sync" \in timers
    /\ timers' = timers \ {"sync"}
    /\ isConnected' = isConnected
    /\ FullResync(sockets)
    /\ UNCHANGED <<subscriptionVars, ws, faults, paused, reportVars>>

\* Mutant of CloseCheckTimer: who watches by now is not looked at.
CloseAnyway ==
    /\ ~reporting /\ "closeCheck" \in timers
    /\ DropConnection
    /\ UNCHANGED <<subscriptionVars, faults, paused, reportVars>>

CloseCheckTimer ==
    /\ ~reporting /\ "closeCheck" \in timers
    /\ IF Active = {} THEN DropConnection
       ELSE /\ timers' = timers \ {"closeCheck"}
            /\ UNCHANGED <<sockets, ws, isConnected, lastAddresses>>
    /\ UNCHANGED <<subscriptionVars, faults, paused, reportVars>>

ReconnectTimer ==
    /\ ~reporting /\ "reconnect" \in timers
    /\ OpenConnection(timers)
    /\ UNCHANGED <<subscriptionVars, isConnected, lastAddresses, reportVars>>

-----------------------------------------------------------------------------
\* Mutant of Opened: an open connection is taken to be subscribed already.
OpenedSilently(s) ==
    /\ ~reporting /\ sockets[s].state = "connecting"
    /\ isConnected' = TRUE
    /\ sockets' = [sockets EXCEPT ![s].state = "open"]
    /\ timers' = (timers \ {"sync"}) \cup {"ping"}
    /\ UNCHANGED <<subscriptionVars, ws, faults, lastAddresses, paused, reportVars>>

(* The socket: a connection is made, is closed by the server, is gone. *)
Opened(s) ==
    /\ ~reporting /\ sockets[s].state = "connecting"
    /\ isConnected' = TRUE
    /\ FullResync([sockets EXCEPT ![s].state = "open"])
    /\ timers' = (timers \ {"sync"}) \cup {"ping"}
    /\ UNCHANGED <<subscriptionVars, ws, faults, paused, reportVars>>

Closing(s) ==
    /\ ~reporting /\ sockets[s].state = "open"
    /\ faults < MaxFaults /\ faults' = faults + 1
    /\ sockets' = [sockets EXCEPT ![s].state = "closing"]
    /\ UNCHANGED <<subscriptionVars, ws, isConnected, timers, lastAddresses, paused, reportVars>>

(* The close event: onclose up to emitConnectionChange(false), unless
   disconnect() has removed the handler. *)
Closed(s) ==
    /\ ~reporting
    /\ \/ sockets[s].state = "closing" /\ UNCHANGED faults
       \/ /\ sockets[s].state \in {"connecting", "open"}
          /\ faults < MaxFaults /\ faults' = faults + 1
    /\ sockets' = [sockets EXCEPT ![s] = NoSocket]
    /\ IF sockets[s].heard
       THEN isConnected' = FALSE /\ ws' = 0 /\ timers' = timers \ {"ping"} /\ reporting' = TRUE
       ELSE UNCHANGED <<isConnected, ws, timers, reporting>>
    /\ UNCHANGED <<subscriptionVars, lastAddresses, paused, reopened>>

(* The rest of onclose: it looks at the watches, not at this.ws. *)
CloseReported ==
    /\ reporting
    /\ reporting' = FALSE
    /\ IF Active # {}
       THEN timers' = timers \cup {"reconnect"} /\ reopened' = (reopened \/ ws # 0)
       ELSE UNCHANGED <<timers, reopened>>
    /\ UNCHANGED <<subscriptionVars, socketVars, isConnected, lastAddresses, paused>>

StreamingNext ==
    \/ \E k \in Keys, callback \in Watches : Watch(k, callback)
    \/ \E w \in Watches : Unwatch(w)
    \/ Connect \/ Disconnect
    \/ SyncTimer \/ CloseCheckTimer \/ ReconnectTimer \/ CloseReported
    \/ \E s \in Slots : Opened(s) \/ Closing(s) \/ Closed(s)

StreamingSpec == StreamingInit /\ [][StreamingNext]_streamingVars

(* Timers fire; a connection attempt ends, a closing socket closes, and a
   handler that runs returns. *)
StreamingFairness ==
    /\ WF_streamingVars(SyncTimer) /\ WF_streamingVars(CloseCheckTimer)
    /\ WF_streamingVars(ReconnectTimer) /\ WF_streamingVars(CloseReported)
    /\ \A s \in Slots : WF_streamingVars(Opened(s)) /\ WF_streamingVars(Closed(s))
FairStreamingSpec == StreamingSpec /\ StreamingFairness

-----------------------------------------------------------------------------
Sub == [types : SUBSET Types, addresses : SUBSET Addresses]
Socket == [state : {"none", "connecting", "open", "closing"}, heard : BOOLEAN, sub : Sub]
Closure == [key : Keys, callback : Watches, set : Watches, again : BOOLEAN]

(* The types of the variables. *)
StreamingTypeOK ==
    /\ closures \in Seq(Closure) /\ Len(closures) <= MaxWatches
    /\ members \in [Watches -> SUBSET Watches]
    /\ map \in [Keys -> Watches \cup {0}]
    /\ calls \in [Watches -> 0..MaxCalls]
    /\ sockets \in [Slots -> Socket]
    /\ ws \in Slots \cup {0}
    /\ isConnected \in BOOLEAN /\ paused \in BOOLEAN
    /\ reporting \in BOOLEAN /\ reopened \in BOOLEAN
    /\ timers \in SUBSET Timers
    /\ lastAddresses \in SUBSET Addresses
    /\ faults \in 0..MaxFaults

(* One socket at a time is listened to, and it is this.ws, whatever is watched,
   ended, connected and disconnected between the timers and the socket's events,
   from connection callbacks too, unless one of these opened a socket in the
   middle of an onclose handler: a reconnect timer beside a live socket would
   leave two connections whose handlers overwrite each other's state. *)
OneSocket == ~reopened => \A s \in Slots : sockets[s].heard => s = ws

(* "Manages a single WebSocket connection" (toncenter/provider.ts): what the
   comment says of every case. *)
SingleConnection == \A s, t \in Slots : sockets[s].heard /\ sockets[t].heard => s = t

(* While this.ws is open and no resync is pending, the server's subscription on
   it is exactly the active watches: their addresses, and while there are any
   their kinds.  This holds beside a second socket, too. *)
ServerInSync ==
    (ws # 0 /\ sockets[ws].state = "open" /\ "sync" \notin timers)
    => /\ sockets[ws].sub.addresses = ActiveAddresses
       /\ Active # {} => sockets[ws].sub.types = ActiveTypes

(* While somebody watches and the caller has not asked to disconnect, there is
   a socket, a timer that opens one, or a handler that has yet to look; but a
   second socket, which no disconnect() closes, can open later and pass for the
   connection. *)
WatchesAreAttended ==
    Active # {} /\ ~paused /\ ~reopened => ws # 0 \/ "reconnect" \in timers \/ reporting

(* What the closures of a key cannot bear: one called twice, or one called while
   the key is watched twice with its function, which is in the set once. *)
Misused(k) ==
    \E u, v \in DOMAIN closures :
        /\ closures[u].key = k /\ closures[v].key = k
        /\ \/ calls[u] > 1
           \/ /\ calls[u] > 0 /\ closures[v].again
              /\ closures[u].callback = closures[v].callback

(* A watch that was not ended has its function in the set its key's updates go
   to, although sets are dropped and made anew under closures that keep the old
   ones, unless the closures of its key were used as they cannot bear. *)
WatchIsHeard ==
    \A w \in DOMAIN closures : calls[w] = 0 =>
        \/ /\ closures[w].callback \in members[closures[w].set]
           /\ map[closures[w].key] = closures[w].set
        \/ Misused(closures[w].key)

Served(k) ==
    \E s \in Slots : /\ sockets[s].state = "open" /\ sockets[s].heard
                     /\ k[1] \in sockets[s].sub.types /\ k[2] \in sockets[s].sub.addresses

(* A key somebody watches is subscribed to at the server in the end, unless
   the watch ends, the caller disconnects or a second socket was opened. *)
EventuallyServed ==
    \A k \in Keys : map[k] # 0 ~> (Served(k) \/ map[k] = 0 \/ paused \/ reopened)
=============================================================================
