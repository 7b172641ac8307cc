--------------------------- MODULE StreamingProofs ---------------------------
(***************************************************************************)
(* Theorems about Streaming, for any kinds of update, addresses and keys,  *)
(* and any number of watches, sockets and failures; then about TraceFeed,  *)
(* for any accounts, traces and size of cache.                             *)
(***************************************************************************)
EXTENDS Streaming, TraceFeed, SequenceFacts

-----------------------------------------------------------------------------
(* Types. *)

SubscriptionTypeOK ==
    /\ closures \in Seq(Closure) /\ Len(closures) <= MaxWatches
    /\ members \in [Watches -> SUBSET Watches]
    /\ map \in [Keys -> Watches \cup {0}]
    /\ calls \in [Watches -> 0..MaxCalls]

ConnectionTypeOK ==
    /\ sockets \in [Slots -> Socket]
    /\ ws \in Slots \cup {0}
    /\ isConnected \in BOOLEAN /\ paused \in BOOLEAN
    /\ reporting \in BOOLEAN /\ reopened \in BOOLEAN
    /\ timers \in SUBSET Timers
    /\ lastAddresses \in SUBSET Addresses
    /\ faults \in 0..MaxFaults

LEMMA TypesSplit == StreamingTypeOK <=> SubscriptionTypeOK /\ ConnectionTypeOK
  BY DEF StreamingTypeOK, SubscriptionTypeOK, ConnectionTypeOK

LEMMA SocketTypes ==
  /\ NoSub \in Sub /\ NoSocket \in Socket /\ NewSocket \in Socket
  /\ ActiveTypes \subseteq Types /\ ActiveAddresses \subseteq Addresses
  /\ \A sub \in Sub : Resubscribed(sub) \in Sub
<1>1. NoSub \in Sub /\ NoSocket \in Socket /\ NewSocket \in Socket
  BY DEF NoSub, Sub, NoSocket, NewSocket, Socket
<1>2. \A k \in Keys : k[1] \in Types /\ k[2] \in Addresses
  BY StreamingAssumption
<1>3. ActiveTypes \subseteq Types /\ ActiveAddresses \subseteq Addresses
  BY <1>2 DEF ActiveTypes, ActiveAddresses, Active
<1>4. ASSUME NEW sub \in Sub PROVE Resubscribed(sub) \in Sub
  BY <1>3 DEF Resubscribed, Sub
<1>5. QED
  BY <1>1, <1>3, <1>4

\* openConnection() changes the connection only, and keeps its types.
LEMMA OpenTypes ==
  ASSUME ConnectionTypeOK, NEW T \in SUBSET Timers, OpenConnection(T),
         UNCHANGED <<isConnected, lastAddresses, reportVars>>
  PROVE  ConnectionTypeOK'
<1>1. CASE /\ faults < MaxFaults /\ faults' = faults + 1
           /\ timers' = T \cup {"reconnect"} /\ paused' = FALSE /\ UNCHANGED <<sockets, ws>>
  <2>1. faults' \in 0..MaxFaults
    BY <1>1, StreamingAssumption DEF ConnectionTypeOK
  <2>2. timers' \in SUBSET Timers
    BY <1>1 DEF Timers
  <2>3. QED
    BY <1>1, <2>1, <2>2 DEF ConnectionTypeOK, reportVars
<1>2. CASE /\ \E s \in Slots :
                /\ sockets[s].state = "none"
                /\ ws' = s /\ sockets' = [sockets EXCEPT ![s] = NewSocket]
           /\ timers' = T \ {"reconnect"} /\ paused' = FALSE /\ UNCHANGED faults
  <2>1. PICK s \in Slots : ws' = s /\ sockets' = [sockets EXCEPT ![s] = NewSocket]
    BY <1>2
  <2>2. sockets' \in [Slots -> Socket] /\ ws' \in Slots \cup {0}
    BY <2>1, SocketTypes DEF ConnectionTypeOK
  <2>3. QED
    BY <1>2, <2>2 DEF ConnectionTypeOK, reportVars
<1>3. QED
  BY <1>1, <1>2 DEF OpenConnection

LEMMA EnsureTypes ==
  ASSUME ConnectionTypeOK, NEW T \in SUBSET Timers, EnsureConnected(T),
         UNCHANGED <<isConnected, lastAddresses, reportVars>>
  PROVE  ConnectionTypeOK'
<1>1. CASE isConnected \/ Connecting
  BY <1>1 DEF EnsureConnected, ConnectionTypeOK, socketVars, reportVars
<1>2. CASE ~(isConnected \/ Connecting)
  BY <1>2, OpenTypes DEF EnsureConnected
<1>3. QED
  BY <1>1, <1>2

LEMMA DropTypes ==
  ASSUME ConnectionTypeOK, DropConnection, paused' \in BOOLEAN, UNCHANGED <<faults, reportVars>>
  PROVE  ConnectionTypeOK'
<1>1. sockets' \in [Slots -> Socket]
  BY DEF DropConnection, ConnectionTypeOK, Socket
<1>2. QED
  BY <1>1 DEF DropConnection, ConnectionTypeOK, reportVars

\* fullResync() keeps the types of the sockets and of the addresses.
LEMMA ResyncTypes ==
  ASSUME ConnectionTypeOK, NEW now \in [Slots -> Socket], FullResync(now)
  PROVE  sockets' \in [Slots -> Socket] /\ lastAddresses' \in SUBSET Addresses
<1>1. CASE ws # 0 /\ sockets' = [now EXCEPT ![ws].sub = Resubscribed(@)]
           /\ lastAddresses' = ActiveAddresses
  <2>1. ws \in Slots
    BY <1>1 DEF ConnectionTypeOK
  <2>2. Resubscribed(now[ws].sub) \in Sub /\ ActiveAddresses \subseteq Addresses
    BY <2>1, SocketTypes DEF Socket
  <2>3. QED
    BY <1>1, <2>1, <2>2 DEF Socket
<1>2. CASE sockets' = now /\ lastAddresses' = lastAddresses
  BY <1>2 DEF ConnectionTypeOK
<1>3. QED
  BY <1>1, <1>2 DEF FullResync

LEMMA TypesKept == StreamingTypeOK /\ [StreamingNext]_streamingVars => StreamingTypeOK'
<1> SUFFICES ASSUME StreamingTypeOK, [StreamingNext]_streamingVars
             PROVE  SubscriptionTypeOK' /\ ConnectionTypeOK'
  BY DEF StreamingTypeOK, SubscriptionTypeOK, ConnectionTypeOK
<1>0. SubscriptionTypeOK /\ ConnectionTypeOK
  BY TypesSplit
<1>1. ASSUME NEW k \in Keys, NEW callback \in Watches, Watch(k, callback)
      PROVE  SubscriptionTypeOK' /\ ConnectionTypeOK'
  <2> DEFINE w == Len(closures) + 1
             set == SetFor(k)
             entry == [key |-> k, callback |-> callback, set |-> set,
                       again |-> callback \in members[set]]
  <2>1. w \in Watches /\ w <= MaxWatches
    BY <1>0, <1>1, LenProperties, StreamingAssumption DEF Watch, SubscriptionTypeOK, Watches
  <2>2. set \in Watches
    BY <1>0, <2>1 DEF SetFor, SubscriptionTypeOK
  <2>3. entry \in Closure /\ closures \in Seq(Closure)
    BY <1>0, <2>2 DEF SubscriptionTypeOK, Closure
  <2>4. closures' = Append(closures, entry)
    BY <1>1 DEF Watch
  <2> HIDE DEF entry
  <2>5. closures' \in Seq(Closure) /\ Len(closures') <= MaxWatches
    BY <2>1, <2>3, <2>4, AppendProperties
  <2> HIDE DEF set, w
  <2>6. members' = [members EXCEPT ![set] = @ \cup {callback}] /\ map' = [map EXCEPT ![k] = set]
        /\ calls' = calls
    BY <1>1 DEF Watch, set, w
  <2>7. SubscriptionTypeOK'
    BY <1>0, <2>1, <2>2, <2>5, <2>6 DEF SubscriptionTypeOK
  <2>8. CASE EnsureConnected(timers \cup {"sync"})
    <3>1. timers \cup {"sync"} \in SUBSET Timers
      BY <1>0 DEF ConnectionTypeOK, Timers
    <3>2. QED
      BY <1>0, <1>1, <2>7, <2>8, <3>1, EnsureTypes DEF Watch
  <2>9. CASE UNCHANGED <<socketVars, timers, paused>>
    BY <1>0, <1>1, <2>7, <2>9 DEF Watch, ConnectionTypeOK, socketVars, reportVars
  <2>10. QED
    BY <1>1, <2>8, <2>9 DEF Watch
<1>2. ASSUME NEW w \in Watches, Unwatch(w) PROVE SubscriptionTypeOK' /\ ConnectionTypeOK'
  <2>1. SubscriptionTypeOK'
    <3> DEFINE left == members[closures[w].set] \ {closures[w].callback}
    <3>1. closures[w].key \in Keys /\ closures[w].set \in Watches
      <4>1. w \in 1..Len(closures) /\ closures \in Seq(Closure)
        BY <1>0, <1>2, LenProperties DEF Unwatch, SubscriptionTypeOK
      <4>2. closures[w] \in Closure
        BY <4>1, ElementOfSeq
      <4>3. QED
        BY <4>2 DEF Closure
    <3>2. left \subseteq Watches
      BY <1>0, <3>1 DEF SubscriptionTypeOK
    <3>3. /\ closures' = closures /\ members' = [members EXCEPT ![closures[w].set] = left]
          /\ calls' = [calls EXCEPT ![w] = @ + 1] /\ calls[w] < MaxCalls
          /\ map' = map \/ map' = [map EXCEPT ![closures[w].key] = 0]
      BY <1>2 DEF Unwatch
    <3> HIDE DEF left
    <3>4. calls' \in [Watches -> 0..MaxCalls]
      <4>1. calls[w] \in 0..MaxCalls /\ calls[w] + 1 \in 0..MaxCalls
        BY <1>0, <3>3, StreamingAssumption DEF SubscriptionTypeOK
      <4>2. QED
        BY <1>0, <3>3, <4>1 DEF SubscriptionTypeOK
    <3>5. QED
      BY <1>0, <3>1, <3>2, <3>3, <3>4 DEF SubscriptionTypeOK
  <2>2. /\ timers' = timers \/ timers' = timers \cup {"sync", "closeCheck"}
        /\ UNCHANGED <<socketVars, isConnected, lastAddresses, paused, reportVars>>
    BY <1>2 DEF Unwatch
  <2>3. ConnectionTypeOK'
    BY <1>0, <2>2 DEF ConnectionTypeOK, Timers, socketVars, reportVars
  <2>4. QED
    BY <2>1, <2>3
<1>3. ASSUME UNCHANGED subscriptionVars PROVE SubscriptionTypeOK'
  BY <1>0, <1>3 DEF SubscriptionTypeOK, subscriptionVars
<1>4. CASE Connect
  BY <1>0, <1>3, <1>4, EnsureTypes DEF Connect, ConnectionTypeOK
<1>5. CASE Disconnect
  BY <1>0, <1>3, <1>5, DropTypes DEF Disconnect
<1>6. CASE SyncTimer
  <2>1. /\ timers' = timers \ {"sync"} /\ FullResync(sockets)
        /\ UNCHANGED <<subscriptionVars, ws, faults, isConnected, paused, reportVars>>
    BY <1>6 DEF SyncTimer
  <2>2. sockets' \in [Slots -> Socket] /\ lastAddresses' \in SUBSET Addresses
    BY <1>0, <2>1, ResyncTypes DEF ConnectionTypeOK
  <2>3. QED
    BY <1>0, <1>3, <2>1, <2>2 DEF ConnectionTypeOK, reportVars
<1>7. CASE CloseCheckTimer
  <2>1. CASE Active = {}
    BY <1>0, <1>3, <1>7, <2>1, DropTypes DEF CloseCheckTimer, ConnectionTypeOK
  <2>2. CASE Active # {}
    BY <1>0, <1>3, <1>7, <2>2 DEF CloseCheckTimer, ConnectionTypeOK, reportVars
  <2>3. QED
    BY <2>1, <2>2
<1>8. CASE ReconnectTimer
  BY <1>0, <1>3, <1>8, OpenTypes DEF ReconnectTimer, ConnectionTypeOK
<1>9. ASSUME NEW s \in Slots, Opened(s) PROVE SubscriptionTypeOK' /\ ConnectionTypeOK'
  <2> DEFINE now == [sockets EXCEPT ![s].state = "open"]
  <2>1. /\ isConnected' = TRUE /\ FullResync(now)
        /\ timers' = (timers \ {"sync"}) \cup {"ping"}
        /\ UNCHANGED <<subscriptionVars, ws, faults, paused, reportVars>>
    BY <1>9 DEF Opened
  <2>2. now \in [Slots -> Socket]
    BY <1>0 DEF ConnectionTypeOK, Socket
  <2> HIDE DEF now
  <2>3. sockets' \in [Slots -> Socket] /\ lastAddresses' \in SUBSET Addresses
    BY <1>0, <2>1, <2>2, ResyncTypes
  <2>4. QED
    BY <1>0, <1>3, <2>1, <2>3 DEF ConnectionTypeOK, Timers, reportVars
<1>10. ASSUME NEW s \in Slots, Closing(s) PROVE SubscriptionTypeOK' /\ ConnectionTypeOK'
  <2>1. sockets' \in [Slots -> Socket]
    BY <1>0, <1>10 DEF Closing, ConnectionTypeOK, Socket
  <2>2. faults' \in 0..MaxFaults
    BY <1>0, <1>10, StreamingAssumption DEF Closing, ConnectionTypeOK
  <2>3. QED
    BY <1>0, <1>3, <1>10, <2>1, <2>2 DEF Closing, ConnectionTypeOK, reportVars
<1>11. ASSUME NEW s \in Slots, Closed(s) PROVE SubscriptionTypeOK' /\ ConnectionTypeOK'
  <2>1. sockets' \in [Slots -> Socket]
    BY <1>0, <1>11, SocketTypes DEF Closed, ConnectionTypeOK
  <2>2. faults' \in 0..MaxFaults
    BY <1>0, <1>11, StreamingAssumption DEF Closed, ConnectionTypeOK
  <2>3. /\ timers' \in SUBSET Timers /\ ws' \in Slots \cup {0} /\ isConnected' \in BOOLEAN
        /\ reporting' \in BOOLEAN
    BY <1>0, <1>11 DEF Closed, ConnectionTypeOK, Timers
  <2>4. QED
    BY <1>0, <1>3, <1>11, <2>1, <2>2, <2>3 DEF Closed, ConnectionTypeOK
<1>12. CASE CloseReported
  <2>1. timers' \in SUBSET Timers
    BY <1>0, <1>12 DEF CloseReported, ConnectionTypeOK, Timers
  <2>2. reopened' \in BOOLEAN
    BY <1>0, <1>12 DEF CloseReported, ConnectionTypeOK
  <2>3. QED
    BY <1>0, <1>3, <1>12, <2>1, <2>2 DEF CloseReported, ConnectionTypeOK, socketVars
<1>13. CASE UNCHANGED streamingVars
  BY <1>0, <1>3, <1>13 DEF streamingVars, socketVars, reportVars, ConnectionTypeOK
<1>14. QED
  BY <1>1, <1>2, <1>4, <1>5, <1>6, <1>7, <1>8, <1>9, <1>10, <1>11, <1>12, <1>13
     DEF StreamingNext

LEMMA InitialTypes == StreamingInit => StreamingTypeOK
<1> SUFFICES ASSUME StreamingInit PROVE StreamingTypeOK
  OBVIOUS
<1>1. <<>> \in Seq(Closure) /\ Len(<<>>) <= MaxWatches /\ 0 \in 0..MaxFaults
  BY StreamingAssumption
<1>2. sockets \in [Slots -> Socket]
  BY SocketTypes DEF StreamingInit
<1>3. closures = <<>> /\ faults = 0 /\ ws = 0 /\ isConnected = FALSE /\ paused = FALSE
      /\ timers = {} /\ lastAddresses = {} /\ reporting = FALSE /\ reopened = FALSE
  BY DEF StreamingInit
<1>4. /\ members \in [Watches -> SUBSET Watches] /\ map \in [Keys -> Watches \cup {0}]
      /\ calls \in [Watches -> 0..MaxCalls]
  BY StreamingAssumption DEF StreamingInit
<1>5. QED
  BY <1>1, <1>2, <1>3, <1>4, Zenon DEF StreamingTypeOK

(* Whatever the callers, the timers and the server do, the variables keep
   their types. *)
THEOREM StreamingTypeCorrect == StreamingSpec => []StreamingTypeOK
  BY InitialTypes, TypesKept, PTL DEF StreamingSpec

-----------------------------------------------------------------------------
(* The connection. *)

\* While no callback has opened a socket in the middle of an onclose handler:
\* this.ws is the one socket with handlers, a socket that may still open or is
\* open has them, and no reconnect timer runs beside it.
OnlyHeard == \A s \in Slots : sockets[s].heard => s = ws
ConnectionInv ==
    /\ OnlyHeard
    /\ ws # 0 => sockets[ws].heard /\ "reconnect" \notin timers
    /\ \A s \in Slots : sockets[s].state \in {"connecting", "open"} => sockets[s].heard
    /\ isConnected <=> ws # 0 /\ ~Connecting

\* A connection is opened only when there is none, and then there is one or a
\* timer for the next attempt.
LEMMA OpenKeeps ==
  ASSUME ConnectionTypeOK, ConnectionInv, ws = 0, isConnected' = isConnected,
         NEW T \in SUBSET Timers, OpenConnection(T)
  PROVE  ConnectionInv' /\ (ws' # 0 \/ "reconnect" \in timers')
<1>1. ~isConnected /\ \A s \in Slots : ~sockets[s].heard
  BY DEF ConnectionInv, OnlyHeard, Slots
<1>2. CASE UNCHANGED <<sockets, ws>> /\ "reconnect" \in timers'
  BY <1>2 DEF ConnectionInv, OnlyHeard, Connecting
<1>3. ASSUME NEW s \in Slots, ws' = s, sockets' = [sockets EXCEPT ![s] = NewSocket],
             timers' = T \ {"reconnect"}
      PROVE  ConnectionInv' /\ ws' # 0
  <2>1. s # 0
    BY DEF Slots
  <2>2. sockets'[s] = NewSocket /\ \A r \in Slots \ {s} : sockets'[r] = sockets[r]
    BY <1>3 DEF ConnectionTypeOK
  <2>3. sockets'[s].heard /\ sockets'[s].state = "connecting"
    BY <2>2 DEF NewSocket
  <2>4. OnlyHeard'
    BY <1>1, <1>3, <2>2 DEF OnlyHeard
  <2>5. Connecting'
    BY <1>3, <2>1, <2>3 DEF Connecting
  <2>6. \A r \in Slots : sockets'[r].state \in {"connecting", "open"} => sockets'[r].heard
    BY <2>2, <2>3 DEF ConnectionInv
  <2>7. QED
    BY <1>1, <1>3, <2>1, <2>3, <2>4, <2>5, <2>6 DEF ConnectionInv
<1>4. QED
  BY <1>2, <1>3 DEF OpenConnection

LEMMA EnsureKeeps ==
  ASSUME ConnectionTypeOK, ConnectionInv, isConnected' = isConnected,
         NEW T \in SUBSET Timers, "reconnect" \in T => "reconnect" \in timers,
         EnsureConnected(T)
  PROVE  ConnectionInv' /\ (ws' # 0 \/ "reconnect" \in timers')
<1>1. CASE isConnected \/ Connecting
  <2>1. ws # 0
    BY <1>1 DEF ConnectionInv, Connecting
  <2>2. timers' = T /\ sockets' = sockets /\ ws' = ws
    BY <1>1 DEF EnsureConnected, socketVars
  <2>3. QED
    BY <2>1, <2>2 DEF ConnectionInv, OnlyHeard, Connecting
<1>2. CASE ~(isConnected \/ Connecting)
  BY <1>2, OpenKeeps DEF EnsureConnected, ConnectionInv
<1>3. QED
  BY <1>1, <1>2

LEMMA DropKeeps == ConnectionTypeOK /\ ConnectionInv /\ DropConnection => ConnectionInv'
<1> SUFFICES ASSUME ConnectionTypeOK, ConnectionInv, DropConnection PROVE ConnectionInv'
  OBVIOUS
<1>1. timers' = {} /\ isConnected' = FALSE /\ ws' = 0
  BY DEF DropConnection
<1>2. \A s \in Slots : ~sockets'[s].heard
  BY DEF DropConnection, ConnectionInv, ConnectionTypeOK, OnlyHeard, Slots, Socket
<1>3. \A s \in Slots : sockets'[s].state \in {"connecting", "open"} => sockets[s].heard /\ s # ws
  <2>1. CASE ws = 0
    BY <2>1 DEF DropConnection, ConnectionInv, Slots
  <2>2. CASE ws # 0
    <3>1. sockets'[ws].state = "closing" /\ \A s \in Slots \ {ws} : sockets'[s] = sockets[s]
      BY <2>2 DEF DropConnection, ConnectionTypeOK, Socket
    <3>2. QED
      BY <3>1 DEF ConnectionInv
  <2>3. QED
    BY <2>1, <2>2
<1>4. \A s \in Slots : sockets'[s].state \notin {"connecting", "open"}
  BY <1>3 DEF ConnectionInv, OnlyHeard
<1>5. QED
  BY <1>1, <1>2, <1>4 DEF ConnectionInv, OnlyHeard, Connecting

\* fullResync() leaves the sockets as they are but for a subscription.
LEMMA ResyncSockets ==
  ASSUME ConnectionTypeOK, NEW now \in [Slots -> Socket], FullResync(now)
  PROVE  /\ \A s \in Slots : /\ sockets'[s].heard = now[s].heard
                            /\ sockets'[s].state = now[s].state
         /\ \A s \in Slots \ {ws} : sockets'[s] = now[s]
<1>1. sockets' = now \/ sockets' = [now EXCEPT ![ws].sub = Resubscribed(@)]
  BY DEF FullResync
<1>2. CASE sockets' = now
  BY <1>2
<1>3. CASE sockets' = [now EXCEPT ![ws].sub = Resubscribed(@)]
  BY <1>3 DEF Socket
<1>4. QED
  BY <1>1, <1>2, <1>3

\* A step that changes at most the states of sockets that keep their handlers.
LEMMA SameSockets ==
  ASSUME ConnectionTypeOK, ConnectionInv, ws' = ws, isConnected' = isConnected,
         "reconnect" \in timers' => "reconnect" \in timers,
         \A s \in Slots : /\ sockets'[s].heard = sockets[s].heard
                          /\ sockets'[s].state = sockets[s].state
  PROVE  ConnectionInv'
<1>1. ws = 0 \/ ws \in Slots
  BY DEF ConnectionTypeOK
<1>2. OnlyHeard' /\ (Connecting' <=> Connecting)
  BY <1>1 DEF ConnectionInv, OnlyHeard, Connecting
<1>3. QED
  BY <1>1, <1>2 DEF ConnectionInv

LEMMA ActiveKept == UNCHANGED map => /\ Active' = Active /\ ActiveTypes' = ActiveTypes
                                    /\ ActiveAddresses' = ActiveAddresses
  BY DEF Active, ActiveTypes, ActiveAddresses

AttendedInv == reopened \/ (ConnectionInv /\ WatchesAreAttended)

LEMMA ReopenedStays ==
  ASSUME ConnectionTypeOK, [StreamingNext]_streamingVars, reopened
  PROVE  reopened'
<1>1. CASE CloseReported
  BY <1>1 DEF CloseReported
<1>2. CASE UNCHANGED reopened
  BY <1>2
<1>3. QED
  BY <1>1, <1>2
     DEF StreamingNext, Watch, Unwatch, Connect, Disconnect, SyncTimer, CloseCheckTimer,
         ReconnectTimer, Opened, Closing, Closed, streamingVars, reportVars

LEMMA AttentionKept ==
  StreamingTypeOK /\ AttendedInv /\ [StreamingNext]_streamingVars => AttendedInv'
<1> SUFFICES ASSUME SubscriptionTypeOK, ConnectionTypeOK, ConnectionInv, WatchesAreAttended,
                    [StreamingNext]_streamingVars, ~reopened, ~reopened'
             PROVE  ConnectionInv' /\ WatchesAreAttended'
  BY TypesSplit, ReopenedStays DEF AttendedInv
<1>0. timers \in SUBSET Timers /\ ws \in Slots \cup {0} /\ 0 \notin Slots
      /\ sockets \in [Slots -> Socket]
  BY DEF ConnectionTypeOK, Slots
<1>1. ASSUME NEW k \in Keys, NEW callback \in Watches, Watch(k, callback)
      PROVE  ConnectionInv' /\ WatchesAreAttended'
  <2>1. isConnected' = isConnected /\ reporting' = reporting
    BY <1>1 DEF Watch, reportVars
  <2>2. CASE EnsureConnected(timers \cup {"sync"})
    <3>1. timers \cup {"sync"} \in SUBSET Timers
      BY <1>0 DEF Timers
    <3>2. ConnectionInv' /\ (ws' # 0 \/ "reconnect" \in timers')
      BY <2>1, <2>2, <3>1, EnsureKeeps
    <3>3. QED
      BY <3>2 DEF WatchesAreAttended
  <2>3. CASE map[k] # 0 /\ UNCHANGED <<socketVars, timers, paused>>
    <3>1. sockets' = sockets /\ ws' = ws /\ timers' = timers /\ paused' = paused
      BY <2>3 DEF socketVars
    <3>2. Active # {}
      BY <2>3 DEF Active
    <3>3. ConnectionInv'
      BY <2>1, <3>1 DEF ConnectionInv, OnlyHeard, Connecting
    <3>4. QED
      BY <2>1, <3>1, <3>2, <3>3 DEF WatchesAreAttended
  <2>4. QED
    BY <1>1, <2>2, <2>3 DEF Watch
<1>2. ASSUME NEW w \in Watches, Unwatch(w) PROVE ConnectionInv' /\ WatchesAreAttended'
  <2>1. /\ sockets' = sockets /\ ws' = ws /\ isConnected' = isConnected /\ paused' = paused
        /\ reporting' = reporting
        /\ timers' = timers \/ timers' = timers \cup {"sync", "closeCheck"}
        /\ map' = map \/ map' = [map EXCEPT ![closures[w].key] = 0]
    BY <1>2 DEF Unwatch, socketVars, reportVars
  <2>2. Active' \subseteq Active
    BY <2>1 DEF Active, SubscriptionTypeOK
  <2>3. "reconnect" \in timers' <=> "reconnect" \in timers
    BY <2>1
  <2>4. ConnectionInv'
    BY <2>1, <2>3 DEF ConnectionInv, OnlyHeard, Connecting
  <2>5. QED
    BY <2>1, <2>2, <2>3, <2>4 DEF WatchesAreAttended
<1>3. CASE Connect
  BY <1>0, <1>3, EnsureKeeps DEF Connect, WatchesAreAttended
<1>4. CASE Disconnect
  BY <1>4, DropKeeps DEF Disconnect, WatchesAreAttended
<1>5. CASE SyncTimer
  <2>1. /\ timers' = timers \ {"sync"} /\ ws' = ws /\ isConnected' = isConnected
        /\ paused' = paused /\ map' = map /\ reporting' = reporting /\ FullResync(sockets)
    BY <1>5 DEF SyncTimer, subscriptionVars, reportVars
  <2>2. \A s \in Slots : /\ sockets'[s].heard = sockets[s].heard
                         /\ sockets'[s].state = sockets[s].state
    BY <1>0, <2>1, ResyncSockets
  <2>3. QED
    BY <2>1, <2>2, SameSockets, ActiveKept DEF WatchesAreAttended
<1>6. CASE CloseCheckTimer
  <2>1. UNCHANGED <<map, paused, reporting>>
    BY <1>6 DEF CloseCheckTimer, subscriptionVars, reportVars
  <2>2. CASE Active = {}
    BY <1>6, <2>1, <2>2, DropKeeps, ActiveKept DEF CloseCheckTimer, WatchesAreAttended
  <2>3. CASE Active # {}
    <3>1. timers' = timers \ {"closeCheck"} /\ UNCHANGED <<sockets, ws, isConnected>>
      BY <1>6, <2>3 DEF CloseCheckTimer
    <3>2. QED
      BY <2>1, <3>1, SameSockets, ActiveKept DEF WatchesAreAttended
  <2>4. QED
    BY <2>2, <2>3
<1>7. CASE ReconnectTimer
  <2>1. ws = 0 /\ isConnected' = isConnected /\ OpenConnection(timers)
    BY <1>7 DEF ReconnectTimer, ConnectionInv
  <2>2. QED
    BY <1>0, <2>1, OpenKeeps DEF WatchesAreAttended
<1>8. ASSUME NEW s \in Slots, Opened(s) PROVE ConnectionInv' /\ WatchesAreAttended'
  <2> DEFINE now == [sockets EXCEPT ![s].state = "open"]
  <2>1. /\ sockets[s].state = "connecting" /\ ws' = ws /\ isConnected' = TRUE
        /\ timers' = (timers \ {"sync"}) \cup {"ping"} /\ paused' = paused /\ map' = map
        /\ FullResync(now)
    BY <1>8 DEF Opened, subscriptionVars
  <2>2. ws = s /\ ws # 0
    BY <1>0, <2>1 DEF ConnectionInv, OnlyHeard
  <2>3. /\ sockets'[s].state = "open"
        /\ \A r \in Slots : sockets'[r].heard = sockets[r].heard
        /\ \A r \in Slots \ {s} : sockets'[r] = sockets[r]
    <3>1. /\ now \in [Slots -> Socket] /\ now[s].state = "open"
          /\ \A r \in Slots : now[r].heard = sockets[r].heard
          /\ \A r \in Slots \ {s} : now[r] = sockets[r]
      BY <1>0 DEF Socket
    <3> HIDE DEF now
    <3>2. /\ \A r \in Slots : /\ sockets'[r].heard = now[r].heard
                             /\ sockets'[r].state = now[r].state
          /\ \A r \in Slots \ {ws} : sockets'[r] = now[r]
      BY <2>1, <3>1, ResyncSockets
    <3>3. QED
      BY <2>2, <3>1, <3>2
  <2>4. "reconnect" \in timers' <=> "reconnect" \in timers
    BY <2>1
  <2>5. OnlyHeard' /\ ~Connecting'
    BY <2>1, <2>2, <2>3 DEF ConnectionInv, OnlyHeard, Connecting
  <2>6. \A r \in Slots : sockets'[r].state \in {"connecting", "open"} => sockets'[r].heard
    BY <2>1, <2>3 DEF ConnectionInv
  <2>7. ConnectionInv'
    BY <2>1, <2>2, <2>3, <2>4, <2>5, <2>6 DEF ConnectionInv
  <2>8. QED
    BY <2>1, <2>2, <2>7 DEF WatchesAreAttended
<1>9. ASSUME NEW s \in Slots, Closing(s) PROVE ConnectionInv' /\ WatchesAreAttended'
  <2>1. /\ sockets[s].state = "open" /\ ws' = ws /\ isConnected' = isConnected
        /\ timers' = timers /\ paused' = paused /\ map' = map /\ reporting' = reporting
    BY <1>9 DEF Closing, subscriptionVars, reportVars
  <2>2. /\ sockets'[s].state = "closing"
        /\ \A r \in Slots : sockets'[r].heard = sockets[r].heard
        /\ \A r \in Slots \ {s} : sockets'[r] = sockets[r]
    BY <1>0, <1>9 DEF Closing, Socket
  <2>3. OnlyHeard' /\ (Connecting' <=> Connecting)
    BY <1>0, <2>1, <2>2 DEF ConnectionInv, OnlyHeard, Connecting
  <2>4. \A r \in Slots : sockets'[r].state \in {"connecting", "open"} => sockets'[r].heard
    BY <2>2 DEF ConnectionInv
  <2>5. ConnectionInv'
    BY <1>0, <2>1, <2>2, <2>3, <2>4 DEF ConnectionInv
  <2>6. QED
    BY <2>1, <2>5, ActiveKept DEF WatchesAreAttended
<1>10. ASSUME NEW s \in Slots, Closed(s) PROVE ConnectionInv' /\ WatchesAreAttended'
  <2>1. /\ sockets'[s] = NoSocket /\ \A r \in Slots \ {s} : sockets'[r] = sockets[r]
        /\ paused' = paused /\ map' = map
    BY <1>0, <1>10 DEF Closed, subscriptionVars
  <2>2. ~sockets'[s].heard /\ sockets'[s].state = "none"
    BY <2>1 DEF NoSocket
  <2>3. \A r \in Slots : sockets'[r].state \in {"connecting", "open"} => sockets'[r].heard
    BY <2>1, <2>2 DEF ConnectionInv
  <2>4. CASE sockets[s].heard
    <3>1. isConnected' = FALSE /\ ws' = 0 /\ reporting'
      BY <1>10, <2>4 DEF Closed
    <3>2. \A r \in Slots : ~sockets'[r].heard
      BY <2>1, <2>2, <2>4 DEF ConnectionInv, OnlyHeard
    <3>3. ConnectionInv'
      BY <2>3, <3>1, <3>2 DEF ConnectionInv, OnlyHeard, Connecting
    <3>4. QED
      BY <3>1, <3>3 DEF WatchesAreAttended
  <2>5. CASE ~sockets[s].heard
    <3>1. UNCHANGED <<isConnected, ws, timers, reporting>>
      BY <1>10, <2>5 DEF Closed
    <3>2. ws # s
      BY <1>0, <2>5 DEF ConnectionInv
    <3>3. OnlyHeard' /\ (Connecting' <=> Connecting) /\ (ws # 0 => sockets'[ws] = sockets[ws])
      BY <1>0, <2>1, <2>2, <3>1, <3>2 DEF ConnectionInv, OnlyHeard, Connecting
    <3>4. ConnectionInv'
      BY <2>3, <3>1, <3>3 DEF ConnectionInv
    <3>5. QED
      BY <2>1, <3>1, <3>4, ActiveKept DEF WatchesAreAttended
  <2>6. QED
    BY <2>4, <2>5
<1>11. CASE CloseReported
  <2>1. /\ UNCHANGED <<sockets, ws, isConnected, paused, map>>
        /\ IF Active # {} THEN timers' = timers \cup {"reconnect"} /\ ws = 0
           ELSE timers' = timers
    BY <1>11 DEF CloseReported, socketVars, subscriptionVars
  <2>2. ConnectionInv'
    BY <2>1 DEF ConnectionInv, OnlyHeard, Connecting
  <2>3. Active # {} => "reconnect" \in timers'
    BY <2>1
  <2>4. QED
    BY <2>1, <2>2, <2>3, ActiveKept DEF WatchesAreAttended
<1>12. CASE UNCHANGED streamingVars
  <2>1. UNCHANGED <<sockets, ws, isConnected, timers, paused, map, reporting>>
    BY <1>12 DEF streamingVars, socketVars, subscriptionVars, reportVars
  <2>2. QED
    BY <2>1, SameSockets, ActiveKept DEF WatchesAreAttended
<1>13. QED
  BY <1>1, <1>2, <1>3, <1>4, <1>5, <1>6, <1>7, <1>8, <1>9, <1>10, <1>11, <1>12
     DEF StreamingNext

LEMMA AttentionInvariant == StreamingSpec => []AttendedInv
<1>1. StreamingInit => AttendedInv
  <2> SUFFICES ASSUME StreamingInit PROVE AttendedInv
    OBVIOUS
  <2>1. /\ ws = 0 /\ isConnected = FALSE /\ \A s \in Slots : sockets[s] = NoSocket
        /\ \A k \in Keys : map[k] = 0
    BY DEF StreamingInit
  <2>2. Active = {}
    BY <2>1 DEF Active
  <2>3. QED
    BY <2>1, <2>2
       DEF AttendedInv, ConnectionInv, OnlyHeard, Connecting, NoSocket, WatchesAreAttended
<1>2. QED
  BY <1>1, AttentionKept, StreamingTypeCorrect, PTL DEF StreamingSpec

(* At most one socket has the provider's handlers, and it is this.ws: no timer
   and no caller opens a second connection beside it, from a connection callback
   or not, unless a callback of an onclose handler opened a socket before the
   handler scheduled its reconnect. *)
THEOREM StreamingOneSocket == StreamingSpec => []OneSocket
<1>1. AttendedInv => OneSocket
  BY DEF AttendedInv, ConnectionInv, OnlyHeard, OneSocket
<1>2. QED
  BY <1>1, AttentionInvariant, PTL

(* As long as somebody watches and nobody has disconnected, there is a socket,
   a timer for the next attempt or an onclose handler still to set one, unless a
   second socket was opened. *)
THEOREM StreamingAttended == StreamingSpec => []WatchesAreAttended
<1>1. AttendedInv => WatchesAreAttended
  BY DEF AttendedInv, WatchesAreAttended
<1>2. QED
  BY <1>1, AttentionInvariant, PTL

-----------------------------------------------------------------------------
(* What the server knows. *)

\* A resync is pending unless the server has the active watches; the addresses
\* the provider remembers are those of its open socket, and a socket that is
\* not open yet has no subscription.  A second socket does not disturb it.
InSync ==
    /\ sockets[ws].sub.addresses = ActiveAddresses
    /\ Active # {} => sockets[ws].sub.types = ActiveTypes
SyncInv ==
    /\ ws # 0 /\ sockets[ws].state = "open" =>
            /\ isConnected
            /\ "sync" \notin timers => InSync
            /\ lastAddresses = sockets[ws].sub.addresses
    /\ \A s \in Slots : sockets[s].state = "connecting" => sockets[s].sub = NoSub

\* fullResync() makes the subscription that of the active watches, when the
\* provider remembers the addresses the server has.
LEMMA ResubscribedInSync ==
  ASSUME NEW sub \in Sub, lastAddresses = sub.addresses \/ sub = NoSub
  PROVE  /\ Resubscribed(sub).addresses = ActiveAddresses
         /\ Active # {} => Resubscribed(sub).types = ActiveTypes
<1>1. Active # {} => ActiveAddresses # {}
  BY DEF ActiveAddresses
<1>2. CASE ActiveAddresses # {}
  BY <1>2 DEF Resubscribed
<1>3. CASE ActiveAddresses = {}
  BY <1>1, <1>3 DEF Resubscribed, Sub, NoSub
<1>4. QED
  BY <1>2, <1>3

\* A step that leaves the sockets, the watches and the remembered addresses.
LEMMA SameSync ==
  ASSUME SyncInv, UNCHANGED <<sockets, ws, isConnected, map, lastAddresses>>,
         "sync" \in timers' <=> "sync" \in timers
  PROVE  SyncInv'
  BY ActiveKept DEF SyncInv, InSync

\* A connection that is opened, or could not be.
LEMMA OpenSync ==
  ASSUME ConnectionTypeOK, SyncInv, NEW T \in SUBSET Timers, OpenConnection(T),
         UNCHANGED <<isConnected, lastAddresses>>,
         ~isConnected \/ (map' = map /\ T = timers)
  PROVE  SyncInv'
<1>1. CASE UNCHANGED <<sockets, ws>> /\ timers' = T \cup {"reconnect"}
  <2>1. CASE ~isConnected
    BY <1>1, <2>1 DEF SyncInv
  <2>2. CASE map' = map /\ T = timers
    BY <1>1, <2>2, SameSync
  <2>3. QED
    BY <2>1, <2>2
<1>2. ASSUME NEW s \in Slots, ws' = s, sockets' = [sockets EXCEPT ![s] = NewSocket]
      PROVE  SyncInv'
  <2>1. sockets'[s] = NewSocket /\ \A r \in Slots \ {s} : sockets'[r] = sockets[r]
    BY <1>2 DEF ConnectionTypeOK
  <2>2. sockets'[s].state = "connecting" /\ sockets'[s].sub = NoSub
    BY <2>1 DEF NewSocket
  <2>3. QED
    BY <1>2, <2>1, <2>2 DEF SyncInv
<1>3. QED
  BY <1>1, <1>2 DEF OpenConnection

\* fullResync(), when the addresses remembered are those the server has.
LEMMA ResyncSync ==
  ASSUME ConnectionTypeOK, NEW now \in [Slots -> Socket], FullResync(now),
         UNCHANGED <<ws, map>>,
         \A s \in Slots : now[s].state = "connecting" => now[s].sub = NoSub,
         ws # 0 /\ now[ws].state = "open" =>
            isConnected' /\ (lastAddresses = now[ws].sub.addresses \/ now[ws].sub = NoSub)
  PROVE  SyncInv'
<1>1. CASE ws # 0 /\ now[ws].state = "open"
  <2>1. ws \in Slots
    BY <1>1 DEF ConnectionTypeOK
  <2>2. now[ws].sub \in Sub
    BY <2>1 DEF Socket
  <2>3. /\ sockets' = [now EXCEPT ![ws].sub = Resubscribed(@)]
        /\ lastAddresses' = ActiveAddresses /\ isConnected'
    BY <1>1 DEF FullResync
  <2>4. /\ sockets'[ws].sub = Resubscribed(now[ws].sub) /\ sockets'[ws].state = "open"
        /\ \A r \in Slots \ {ws} : sockets'[r] = now[r]
    BY <1>1, <2>1, <2>3 DEF Socket
  <2>5. /\ sockets'[ws].sub.addresses = ActiveAddresses
        /\ Active # {} => sockets'[ws].sub.types = ActiveTypes
    BY <1>1, <2>2, <2>4, ResubscribedInSync
  <2>6. InSync' /\ lastAddresses' = sockets'[ws'].sub.addresses
    BY <2>3, <2>5, ActiveKept DEF InSync
  <2>7. \A s \in Slots : sockets'[s].state = "connecting" => sockets'[s].sub = NoSub
    BY <2>4
  <2>8. QED
    BY <2>3, <2>6, <2>7 DEF SyncInv
<1>2. CASE ~(ws # 0 /\ now[ws].state = "open")
  BY <1>2 DEF FullResync, SyncInv
<1>3. QED
  BY <1>1, <1>2

LEMMA DropSync ==
  ConnectionTypeOK /\ SyncInv /\ DropConnection => SyncInv'
<1> SUFFICES ASSUME ConnectionTypeOK, SyncInv, DropConnection PROVE SyncInv'
  OBVIOUS
<1>1. ws' = 0
  BY DEF DropConnection
<1>2. ASSUME NEW s \in Slots, sockets'[s].state = "connecting" PROVE sockets'[s].sub = NoSub
  <2>1. CASE ws = 0
    BY <1>2, <2>1 DEF DropConnection, SyncInv
  <2>2. CASE ws # 0
    <3>1. sockets'[ws].state = "closing" /\ \A r \in Slots \ {ws} : sockets'[r] = sockets[r]
      BY <2>2 DEF DropConnection, ConnectionTypeOK, Socket
    <3>2. QED
      BY <1>2, <3>1 DEF SyncInv
  <2>3. QED
    BY <2>1, <2>2
<1>3. QED
  BY <1>1, <1>2 DEF SyncInv

LEMMA SyncKept ==
  StreamingTypeOK /\ SyncInv /\ [StreamingNext]_streamingVars => SyncInv'
<1> SUFFICES ASSUME SubscriptionTypeOK, ConnectionTypeOK, SyncInv,
                    [StreamingNext]_streamingVars
             PROVE  SyncInv'
  BY TypesSplit
<1>0. timers \in SUBSET Timers /\ ws \in Slots \cup {0} /\ 0 \notin Slots
      /\ sockets \in [Slots -> Socket]
  BY DEF ConnectionTypeOK, Slots
<1>1. ASSUME NEW k \in Keys, NEW callback \in Watches, Watch(k, callback) PROVE SyncInv'
  <2>1. UNCHANGED <<isConnected, lastAddresses>>
    BY <1>1 DEF Watch
  <2>2. CASE EnsureConnected(timers \cup {"sync"})
    <3>1. CASE isConnected \/ Connecting
      <4>1. timers' = timers \cup {"sync"} /\ sockets' = sockets /\ ws' = ws
        BY <2>2, <3>1 DEF EnsureConnected, socketVars
      <4>2. QED
        BY <2>1, <4>1 DEF SyncInv
    <3>2. CASE ~(isConnected \/ Connecting)
      <4>1. OpenConnection(timers \cup {"sync"})
        BY <2>2, <3>2 DEF EnsureConnected
      <4>2. timers \cup {"sync"} \in SUBSET Timers
        BY <1>0 DEF Timers
      <4>3. QED
        BY <2>1, <3>2, <4>1, <4>2, OpenSync
    <3>3. QED
      BY <3>1, <3>2
  <2>3. CASE map[k] # 0 /\ UNCHANGED <<socketVars, timers, paused>>
    <3>1. map' = map
      BY <1>1, <2>3 DEF Watch, SetFor, SubscriptionTypeOK
    <3>2. QED
      BY <2>1, <2>3, <3>1, SameSync DEF socketVars
  <2>4. QED
    BY <1>1, <2>2, <2>3 DEF Watch
<1>2. ASSUME NEW w \in Watches, Unwatch(w) PROVE SyncInv'
  <2>1. /\ UNCHANGED <<sockets, ws, isConnected, lastAddresses>>
        /\ \/ map' = map /\ timers' = timers
           \/ timers' = timers \cup {"sync", "closeCheck"}
    BY <1>2 DEF Unwatch, socketVars
  <2>2. CASE map' = map /\ timers' = timers
    BY <2>1, <2>2, SameSync
  <2>3. CASE timers' = timers \cup {"sync", "closeCheck"}
    BY <2>1, <2>3 DEF SyncInv
  <2>4. QED
    BY <2>1, <2>2, <2>3
<1>3. CASE Connect
  <2>1. UNCHANGED <<map, isConnected, lastAddresses>> /\ EnsureConnected(timers)
    BY <1>3 DEF Connect, subscriptionVars
  <2>2. CASE isConnected \/ Connecting
    BY <2>1, <2>2, SameSync DEF EnsureConnected, socketVars
  <2>3. CASE ~(isConnected \/ Connecting)
    BY <1>0, <2>1, <2>3, OpenSync DEF EnsureConnected
  <2>4. QED
    BY <2>2, <2>3
<1>4. CASE Disconnect
  BY <1>4, DropSync DEF Disconnect
<1>5. CASE SyncTimer
  <2>1. FullResync(sockets) /\ UNCHANGED <<ws, isConnected, map>>
    BY <1>5 DEF SyncTimer, subscriptionVars
  <2>2. QED
    BY <1>0, <2>1, ResyncSync DEF SyncInv
<1>6. CASE CloseCheckTimer
  <2>1. CASE Active = {}
    BY <1>6, <2>1, DropSync DEF CloseCheckTimer
  <2>2. CASE Active # {}
    <3>1. /\ timers' = timers \ {"closeCheck"}
          /\ UNCHANGED <<sockets, ws, isConnected, lastAddresses, map>>
      BY <1>6, <2>2 DEF CloseCheckTimer, subscriptionVars
    <3>2. QED
      BY <3>1, SameSync
  <2>3. QED
    BY <2>1, <2>2
<1>7. CASE ReconnectTimer
  <2>1. OpenConnection(timers) /\ UNCHANGED <<isConnected, lastAddresses, map>>
    BY <1>7 DEF ReconnectTimer, subscriptionVars
  <2>2. QED
    BY <1>0, <2>1, OpenSync
<1>8. ASSUME NEW s \in Slots, Opened(s) PROVE SyncInv'
  <2> DEFINE now == [sockets EXCEPT ![s].state = "open"]
  <2>1. /\ sockets[s].state = "connecting" /\ FullResync(now)
        /\ isConnected' /\ UNCHANGED <<ws, map>>
    BY <1>8 DEF Opened, subscriptionVars
  <2>2. /\ now \in [Slots -> Socket]
        /\ now[s].state = "open" /\ now[s].sub = sockets[s].sub
        /\ \A r \in Slots \ {s} : now[r] = sockets[r]
    BY <1>0 DEF Socket
  <2> HIDE DEF now
  <2>3. now[s].sub = NoSub
    BY <2>1, <2>2 DEF SyncInv
  <2>4. \A r \in Slots : now[r].state = "connecting" => now[r].sub = NoSub
    BY <2>2 DEF SyncInv
  <2>5. ws # 0 /\ now[ws].state = "open"
        => lastAddresses = now[ws].sub.addresses \/ now[ws].sub = NoSub
    BY <1>0, <2>2, <2>3 DEF SyncInv
  <2>6. QED
    BY <2>1, <2>2, <2>4, <2>5, ResyncSync
<1>9. ASSUME NEW s \in Slots, Closing(s) \/ Closed(s) PROVE SyncInv'
  <2>1. /\ sockets'[s].state \in {"closing", "none"}
        /\ \A r \in Slots \ {s} : sockets'[r] = sockets[r]
    BY <1>0, <1>9 DEF Closing, Closed, Socket, NoSocket
  <2>2. /\ UNCHANGED <<map, lastAddresses>> /\ (ws' = ws \/ ws' = 0)
        /\ ws' = ws =>
               \/ ws = 0
               \/ isConnected' = isConnected /\ ("sync" \in timers' <=> "sync" \in timers)
    <3>1. UNCHANGED <<map, lastAddresses>>
      BY <1>9 DEF Closing, Closed, subscriptionVars
    <3>2. CASE Closing(s)
      BY <3>1, <3>2 DEF Closing
    <3>3. CASE Closed(s)
      BY <3>1, <3>3 DEF Closed
    <3>4. QED
      BY <1>9, <3>2, <3>3
  <2>3. \A r \in Slots : sockets'[r].state = "connecting" => sockets'[r].sub = NoSub
    BY <2>1 DEF SyncInv
  <2>4. CASE ws' # 0 /\ sockets'[ws'].state = "open"
    <3>1. ws' = ws /\ ws # 0 /\ ws # s
      BY <2>1, <2>2, <2>4
    <3>2. /\ sockets'[ws] = sockets[ws] /\ isConnected' = isConnected
          /\ "sync" \in timers' <=> "sync" \in timers
      BY <1>0, <2>1, <2>2, <3>1
    <3>3. QED
      BY <2>2, <2>3, <2>4, <3>1, <3>2, ActiveKept DEF SyncInv, InSync
  <2>5. CASE ~(ws' # 0 /\ sockets'[ws'].state = "open")
    BY <2>3, <2>5 DEF SyncInv
  <2>6. QED
    BY <2>4, <2>5
<1>10. CASE CloseReported
  <2>1. /\ UNCHANGED <<sockets, ws, isConnected, map, lastAddresses>>
        /\ "sync" \in timers' <=> "sync" \in timers
    BY <1>10 DEF CloseReported, socketVars, subscriptionVars
  <2>2. QED
    BY <2>1, SameSync
<1>11. CASE UNCHANGED streamingVars
  BY <1>11, SameSync DEF streamingVars, socketVars, subscriptionVars
<1>12. QED
  BY <1>1, <1>2, <1>3, <1>4, <1>5, <1>6, <1>7, <1>8, <1>9, <1>10, <1>11 DEF StreamingNext

(* While this.ws is open and no resync is pending, the server's subscription on
   it is that of the active watches, in whatever order watches, closures, timers,
   callbacks and reconnections came, and beside a second socket, too. *)
THEOREM StreamingInSync == StreamingSpec => []ServerInSync
<1>1. StreamingInit => SyncInv
  <2> SUFFICES ASSUME StreamingInit PROVE SyncInv
    OBVIOUS
  <2>1. ws = 0 /\ \A s \in Slots : sockets[s] = NoSocket
    BY DEF StreamingInit
  <2>2. QED
    BY <2>1 DEF SyncInv, NoSocket
<1>2. SyncInv => ServerInSync
  BY DEF SyncInv, InSync, ServerInSync
<1>3. QED
  BY <1>1, <1>2, SyncKept, StreamingTypeCorrect, PTL DEF StreamingSpec

-----------------------------------------------------------------------------
(* The callbacks. *)

\* A set belongs to one key: the one of the watch that made it, which is the key
\* of every closure that keeps the set and of the map's entry for it.
OwnedSets ==
    /\ \A w \in DOMAIN closures : /\ closures[w].set \in DOMAIN closures
                                  /\ closures[closures[w].set].key = closures[w].key
    /\ \A k \in Keys : map[k] # 0 => map[k] \in DOMAIN closures /\ closures[map[k]].key = k

\* The watches of a key that were not ended have their functions in the key's
\* set, and a function that two of them have was watching already when one came.
HeardAt(k) ==
    /\ \A w \in DOMAIN closures : closures[w].key = k /\ calls[w] = 0 =>
            closures[w].callback \in members[closures[w].set] /\ map[k] = closures[w].set
    /\ \A u, v \in DOMAIN closures :
            /\ u # v /\ closures[u].key = k /\ closures[v].key = k
            /\ calls[u] = 0 /\ calls[v] = 0 /\ closures[u].callback = closures[v].callback
            => closures[u].again \/ closures[v].again

ClosureInv == OwnedSets /\ \A k \in Keys : Misused(k) \/ HeardAt(k)

LEMMA ClosureTypes ==
  ASSUME SubscriptionTypeOK
  PROVE  /\ Len(closures) \in Nat /\ DOMAIN closures = 1..Len(closures)
         /\ \A w \in DOMAIN closures : /\ closures[w].key \in Keys /\ closures[w].set \in Watches
                                       /\ closures[w].callback \in Watches
                                       /\ closures[w].again \in BOOLEAN
         /\ DOMAIN closures \subseteq Watches /\ 0 \notin Watches
<1>1. closures \in Seq(Closure) /\ Len(closures) <= MaxWatches
  BY DEF SubscriptionTypeOK
<1>2. Len(closures) \in Nat /\ DOMAIN closures = 1..Len(closures)
  BY <1>1, LenProperties
<1>3. \A w \in DOMAIN closures : closures[w] \in Closure
  BY <1>1, <1>2, ElementOfSeq
<1>4. DOMAIN closures \subseteq Watches /\ 0 \notin Watches
  BY <1>1, <1>2, StreamingAssumption DEF Watches
<1>5. QED
  BY <1>2, <1>3, <1>4 DEF Closure

\* What addCallback leaves of the watches and the sets.
LEMMA Watched ==
  ASSUME SubscriptionTypeOK, ClosureInv, NEW k \in Keys, NEW callback \in Watches,
         Watch(k, callback)
  PROVE  LET w == Len(closures) + 1
             set == SetFor(k)
         IN /\ w \in Watches /\ w \notin DOMAIN closures /\ set \in Watches
            /\ DOMAIN closures' = DOMAIN closures \cup {w}
            /\ closures'[w] = [key |-> k, callback |-> callback, set |-> set,
                               again |-> callback \in members[set]]
            /\ \A u \in DOMAIN closures : closures'[u] = closures[u]
            /\ members' = [members EXCEPT ![set] = @ \cup {callback}]
            /\ map' = [map EXCEPT ![k] = set] /\ calls' = calls
            /\ map[k] # 0 => set = map[k]
            /\ map[k] = 0 => set = w
<1> DEFINE w == Len(closures) + 1
           set == SetFor(k)
           entry == [key |-> k, callback |-> callback, set |-> set,
                     again |-> callback \in members[set]]
<1>1. /\ closures' = Append(closures, entry) /\ w \in Watches /\ w \notin DOMAIN closures
      /\ members' = [members EXCEPT ![set] = @ \cup {callback}]
      /\ map' = [map EXCEPT ![k] = set] /\ calls' = calls
  <2>1. /\ closures' = Append(closures, entry) /\ w <= MaxWatches
        /\ members' = [members EXCEPT ![set] = @ \cup {callback}]
        /\ map' = [map EXCEPT ![k] = set] /\ calls' = calls
    BY DEF Watch
  <2>2. w \in Watches /\ w \notin DOMAIN closures
    BY <2>1, ClosureTypes, StreamingAssumption DEF Watches
  <2>3. QED
    BY <2>1, <2>2
<1>2. set \in Watches /\ (map[k] # 0 => set = map[k]) /\ (map[k] = 0 => set = w)
  BY <1>1 DEF SetFor, SubscriptionTypeOK
<1>3. closures \in Seq(Closure) /\ entry \in Closure
  BY <1>2 DEF SubscriptionTypeOK, Closure
<1> HIDE DEF entry
<1>4. /\ Len(closures') = Len(closures) + 1 /\ closures'[w] = entry
      /\ \A u \in 1..Len(closures) : closures'[u] = closures[u]
      /\ closures' \in Seq(Closure)
  BY <1>1, <1>3, AppendProperties
<1>5. DOMAIN closures' = 1..(Len(closures) + 1)
  BY <1>4, LenProperties
<1>6. /\ DOMAIN closures' = DOMAIN closures \cup {w}
      /\ \A u \in DOMAIN closures : closures'[u] = closures[u]
  BY <1>4, <1>5, ClosureTypes
<1>7. QED
  BY <1>1, <1>2, <1>4, <1>6 DEF entry

LEMMA WatchKeepsHeard ==
  ASSUME SubscriptionTypeOK, ClosureInv, NEW k \in Keys, NEW callback \in Watches,
         Watch(k, callback)
  PROVE  ClosureInv'
<1> DEFINE w == Len(closures) + 1
           set == SetFor(k)
<1>1. /\ w \in Watches /\ w \notin DOMAIN closures /\ set \in Watches
      /\ DOMAIN closures' = DOMAIN closures \cup {w}
      /\ closures'[w] = [key |-> k, callback |-> callback, set |-> set,
                         again |-> callback \in members[set]]
      /\ \A u \in DOMAIN closures : closures'[u] = closures[u]
      /\ members' = [members EXCEPT ![set] = @ \cup {callback}]
      /\ map' = [map EXCEPT ![k] = set] /\ calls' = calls
      /\ map[k] # 0 => set = map[k]
      /\ map[k] = 0 => set = w
  BY Watched
<1> HIDE DEF w, set
<1>2. /\ closures'[w].key = k /\ closures'[w].set = set /\ closures'[w].callback = callback
      /\ closures'[w].again = (callback \in members[set])
  BY <1>1
<1>3. /\ \A u \in DOMAIN closures : closures[u].set \in Watches /\ closures[u].key \in Keys
      /\ members \in [Watches -> SUBSET Watches] /\ map \in [Keys -> Watches \cup {0}]
      /\ 0 \notin Watches
  BY ClosureTypes DEF SubscriptionTypeOK
<1>4. OwnedSets'
  <2>1. /\ set \in DOMAIN closures' /\ closures'[set].key = k
    BY <1>1, <1>2 DEF ClosureInv, OwnedSets
  <2>2. ASSUME NEW u \in DOMAIN closures'
        PROVE  /\ closures'[u].set \in DOMAIN closures'
               /\ closures'[closures'[u].set].key = closures'[u].key
    BY <1>1, <1>2, <2>1 DEF ClosureInv, OwnedSets
  <2>3. ASSUME NEW x \in Keys, map'[x] # 0
        PROVE  map'[x] \in DOMAIN closures' /\ closures'[map'[x]].key = x
    <3>1. CASE x = k
      BY <1>1, <1>3, <2>1, <3>1
    <3>2. CASE x # k
      BY <1>1, <1>3, <2>3, <3>2 DEF ClosureInv, OwnedSets
    <3>3. QED
      BY <3>1, <3>2
  <2>4. QED
    BY <2>2, <2>3 DEF OwnedSets
<1>5. ASSUME NEW x \in Keys, Misused(x) PROVE Misused(x)'
  BY <1>1, <1>5 DEF Misused
<1>6. ASSUME NEW x \in Keys, HeardAt(x) PROVE HeardAt(x)'
  <2>1. ASSUME NEW u \in DOMAIN closures', closures'[u].key = x, calls'[u] = 0
        PROVE  closures'[u].callback \in members'[closures'[u].set] /\ map'[x] = closures'[u].set
    <3>1. CASE u = w
      BY <1>1, <1>2, <1>3, <2>1, <3>1
    <3>2. CASE u # w
      <4>1. /\ u \in DOMAIN closures /\ closures'[u] = closures[u]
            /\ closures[u].callback \in members[closures[u].set] /\ map[x] = closures[u].set
        BY <1>1, <1>6, <2>1, <3>2 DEF HeardAt
      <4>2. closures[u].callback \in members'[closures[u].set]
        BY <1>1, <1>3, <4>1
      <4>3. map'[x] = map[x]
        BY <1>1, <1>3, <4>1
      <4>4. QED
        BY <4>1, <4>2, <4>3
    <3>3. QED
      BY <3>1, <3>2
  <2>2. ASSUME NEW u \in DOMAIN closures, closures[u].key = x, k = x, calls[u] = 0,
               closures[u].callback = callback
        PROVE  closures'[w].again
    <3>1. callback \in members[closures[u].set] /\ map[k] = closures[u].set
      BY <1>6, <2>2 DEF HeardAt
    <3>2. map[k] # 0
      BY <1>3, <3>1
    <3>3. callback \in members[set]
      BY <1>1, <3>1, <3>2
    <3>4. QED
      BY <1>2, <3>3
  <2>3. QED
    BY <1>1, <1>2, <1>6, <2>1, <2>2 DEF HeardAt
<1>7. QED
  BY <1>4, <1>5, <1>6 DEF ClosureInv

LEMMA UnwatchKeepsHeard ==
  ASSUME SubscriptionTypeOK, ClosureInv, NEW w \in Watches, Unwatch(w)
  PROVE  ClosureInv'
<1> DEFINE k == closures[w].key
           set == closures[w].set
           left == members[set] \ {closures[w].callback}
<1>1. /\ w \in DOMAIN closures /\ closures' = closures
      /\ members' = [members EXCEPT ![set] = left]
      /\ calls' = [calls EXCEPT ![w] = @ + 1]
      /\ IF left = {} THEN map' = [map EXCEPT ![k] = 0] ELSE map' = map
  BY DEF Unwatch
<1>2. k \in Keys /\ set \in Watches /\ DOMAIN closures \subseteq Watches
      /\ \A u \in DOMAIN closures : closures[u].set \in Watches /\ closures[u].key \in Keys
      /\ members \in [Watches -> SUBSET Watches] /\ map \in [Keys -> Watches \cup {0}]
  BY <1>1, ClosureTypes DEF SubscriptionTypeOK
<1>3. /\ calls[w] \in Nat /\ calls'[w] = calls[w] + 1
      /\ \A u \in Watches \ {w} : calls'[u] = calls[u]
      /\ \A u \in Watches : calls[u] \in Nat
  BY <1>1, StreamingAssumption DEF SubscriptionTypeOK
<1>4. OwnedSets'
  <2>1. \A x \in Keys : map'[x] = map[x] \/ map'[x] = 0
    BY <1>1, <1>2
  <2>2. QED
    BY <1>1, <2>1 DEF ClosureInv, OwnedSets
<1>5. ASSUME NEW x \in Keys, Misused(x) PROVE Misused(x)'
  <2>1. \A u \in DOMAIN closures : /\ calls[u] > 1 => calls'[u] > 1
                                   /\ calls[u] > 0 => calls'[u] > 0
    BY <1>2, <1>3
  <2>2. QED
    BY <1>1, <1>5, <2>1 DEF Misused
<1>6. ASSUME NEW x \in Keys, HeardAt(x), ~Misused(x)' PROVE HeardAt(x)'
  <2>1. ASSUME NEW u \in DOMAIN closures, closures[u].key = x, calls'[u] = 0
        PROVE  closures[u].callback \in members'[closures[u].set] /\ map'[x] = closures[u].set
    <3>1. u # w /\ calls[u] = 0
      BY <1>2, <1>3, <2>1
    <3>2. closures[u].callback \in members[closures[u].set] /\ map[x] = closures[u].set
      BY <1>6, <2>1, <3>1 DEF HeardAt
    <3>3. CASE x # k
      <4>1. closures[u].set # set
        BY <1>1, <2>1, <3>3 DEF ClosureInv, OwnedSets
      <4>2. QED
        BY <1>1, <1>2, <3>2, <3>3, <4>1
    <3>4. CASE x = k
      <4>1. calls[w] = 0
        <5>1. ~(calls'[w] > 1)
          BY <1>1, <1>6, <3>4 DEF Misused
        <5>2. QED
          BY <1>3, <5>1
      <4>2. closures[w].callback \in members[set] /\ map[k] = set
        BY <1>1, <1>6, <3>4, <4>1 DEF HeardAt
      <4>3. closures[u].callback # closures[w].callback
        <5>1. SUFFICES ASSUME closures[u].callback = closures[w].callback PROVE FALSE
          OBVIOUS
        <5>2. closures[u].again \/ closures[w].again
          BY <1>1, <1>6, <2>1, <3>1, <3>4, <4>1, <5>1 DEF HeardAt
        <5>3. PICK v \in DOMAIN closures :
                 closures[v].key = k /\ closures[v].again
                 /\ closures[v].callback = closures[w].callback
          BY <1>1, <2>1, <3>4, <5>1, <5>2
        <5>4. calls'[w] > 0
          BY <1>3
        <5>5. QED
          BY <1>1, <1>6, <3>4, <5>3, <5>4 DEF Misused
      <4>4. closures[u].set = set /\ closures[u].callback \in left
        BY <3>2, <3>4, <4>2, <4>3
      <4>5. map' = map
        BY <1>1, <4>4
      <4>6. QED
        BY <1>1, <1>2, <3>2, <4>4, <4>5
    <3>5. QED
      BY <3>3, <3>4
  <2>2. \A u \in DOMAIN closures : calls'[u] = 0 => calls[u] = 0
    BY <1>2, <1>3
  <2>3. QED
    BY <1>1, <1>6, <2>1, <2>2 DEF HeardAt
<1>7. QED
  BY <1>4, <1>5, <1>6 DEF ClosureInv

LEMMA ClosuresKept ==
  StreamingTypeOK /\ ClosureInv /\ [StreamingNext]_streamingVars => ClosureInv'
<1> SUFFICES ASSUME SubscriptionTypeOK, ClosureInv, [StreamingNext]_streamingVars
             PROVE  ClosureInv'
  BY TypesSplit
<1>1. ASSUME NEW k \in Keys, NEW callback \in Watches, Watch(k, callback) PROVE ClosureInv'
  BY <1>1, WatchKeepsHeard
<1>2. ASSUME NEW w \in Watches, Unwatch(w) PROVE ClosureInv'
  BY <1>2, UnwatchKeepsHeard
<1>3. CASE UNCHANGED subscriptionVars
  BY <1>3 DEF subscriptionVars, ClosureInv, OwnedSets, HeardAt, Misused
<1>4. QED
  BY <1>1, <1>2, <1>3
     DEF StreamingNext, Connect, Disconnect, SyncTimer, CloseCheckTimer, ReconnectTimer,
         Opened, Closing, Closed, CloseReported, streamingVars

(* A watch that was not ended has its function in the set its key's updates go
   to, unless a closure of the same key was called twice, or one was called while
   the key was watched twice with its function. *)
THEOREM StreamingHeard == StreamingSpec => []WatchIsHeard
<1>1. StreamingInit => ClosureInv
  BY DEF StreamingInit, ClosureInv, OwnedSets, HeardAt
<1>2. StreamingTypeOK /\ ClosureInv => WatchIsHeard
  <2> SUFFICES ASSUME SubscriptionTypeOK, ClosureInv PROVE WatchIsHeard
    BY TypesSplit
  <2>1. \A w \in DOMAIN closures : closures[w].key \in Keys
    BY ClosureTypes
  <2>2. QED
    BY <2>1 DEF ClosureInv, HeardAt, WatchIsHeard
<1>3. QED
  BY <1>1, <1>2, ClosuresKept, StreamingTypeCorrect, PTL DEF StreamingSpec

-----------------------------------------------------------------------------
(* The trace cache.  What the watchers are told holds whatever entry the cache
   chooses to evict, so that nothing is needed of the order in `recent`; the
   order comes after. *)

Entry == [score : Scores \cup {Nothing}, accounts : SUBSET Accounts]

\* The types, but for the order of use.
TellingTypes ==
    /\ watched \in SUBSET Accounts
    /\ traceCache \in [Traces -> Entry]
    /\ told \in [Accounts -> [Traces -> Scores \cup {Nothing, Invalidated}]]

\* Nobody else than a watcher is remembered as told.
OnlyWatchersTold == \A a \in Accounts \ watched, t \in Traces : ~Told(a, t)

TellingInv == TellingTypes /\ OnlyWatchersTold /\ UndoReaches

LEMMA ScoreOrder ==
  /\ Scores \subseteq Int /\ Nothing \in Int /\ Invalidated \in Int
  /\ Nothing \notin Scores /\ Invalidated \notin Scores
  /\ \A s \in Scores : Nothing < s
  BY DEF Scores, Nothing, Invalidated

LEMMA InitialTelling == FeedInit => TellingInv
  BY DEF FeedInit, TellingInv, TellingTypes, OnlyWatchersTold, UndoReaches, Told, Entry, NoEntry,
         Scores, Nothing

\* What a notification leaves of one account and one trace.
LEMMA NotifyTells ==
  ASSUME TellingInv, NEW t \in Traces, NEW score \in Scores, NEW accounts \in SUBSET Accounts,
         Notify(t, score, accounts), NEW a \in Accounts, NEW u \in Traces
  PROVE  /\ watched' = watched /\ watched \in SUBSET Accounts
         /\ told'[a][u] = IF a \in accounts \cap watched /\ u = t THEN score ELSE told[a][u]
         /\ u = t => traceCache'[u] = [score |-> score,
                                      accounts |-> traceCache[t].accounts \cup accounts]
         /\ u # t => \/ traceCache'[u] = traceCache[u]
                     \/ Told(a, u) => <<a, u>> \in forgotten'
         /\ <<a, u>> \in forgotten /\ ~(a \in accounts /\ u = t) => <<a, u>> \in forgotten'
         /\ ~Lower(t, score)
<1> DEFINE evicted == IF ~Cached(t) /\ Len(recent) = CacheSize THEN {Head(recent)} ELSE {}
<1>1. /\ ~Lower(t, score) /\ watched' = watched
      /\ traceCache' = [v \in Traces |->
           IF v = t THEN Merged(t, score, accounts)
           ELSE IF v \in evicted THEN NoEntry ELSE traceCache[v]]
      /\ told' = [b \in Accounts |->
           IF b \in accounts \cap watched THEN [told[b] EXCEPT ![t] = score] ELSE told[b]]
      /\ forgotten' = (forgotten \ (accounts \X {t}))
                      \cup {p \in Accounts \X evicted : Told(p[1], p[2])}
  BY DEF Notify
<1> HIDE DEF evicted
<1>2. watched \in SUBSET Accounts /\ told[a] \in [Traces -> Scores \cup {Nothing, Invalidated}]
  BY DEF TellingInv, TellingTypes
<1>3. told'[a][u] = IF a \in accounts \cap watched /\ u = t THEN score ELSE told[a][u]
  BY <1>1, <1>2
<1>4. u = t => traceCache'[u] = [score |-> score,
                                accounts |-> traceCache[t].accounts \cup accounts]
  BY <1>1 DEF Merged
<1>5. u # t => traceCache'[u] = traceCache[u] \/ (Told(a, u) => <<a, u>> \in forgotten')
  <2>1. CASE u \in evicted /\ Told(a, u)
    BY <1>1, <2>1
  <2>2. CASE u \notin evicted
    BY <1>1, <2>2
  <2>3. QED
    BY <2>1, <2>2
<1>6. <<a, u>> \in forgotten /\ ~(a \in accounts /\ u = t) => <<a, u>> \in forgotten'
  BY <1>1
<1>7. QED
  BY <1>1, <1>2, <1>3, <1>4, <1>5, <1>6

LEMMA NotifyKeeps ==
  ASSUME TellingInv, NEW t \in Traces, NEW score \in Scores, NEW accounts \in SUBSET Accounts,
         Notify(t, score, accounts)
  PROVE  TellingInv'
<1>1. TellingTypes'
  <2>1. Merged(t, score, accounts) \in Entry /\ NoEntry \in Entry
    BY DEF Merged, NoEntry, Entry, TellingInv, TellingTypes
  <2>2. traceCache' \in [Traces -> Entry]
    BY <2>1 DEF Notify, TellingInv, TellingTypes
  <2>3. told' \in [Accounts -> [Traces -> Scores \cup {Nothing, Invalidated}]]
    BY DEF Notify, TellingInv, TellingTypes
  <2>4. watched' = watched
    BY DEF Notify
  <2>5. QED
    BY <2>2, <2>3, <2>4 DEF TellingInv, TellingTypes
<1>2. ASSUME NEW a \in Accounts \ watched', NEW u \in Traces PROVE ~Told(a, u)'
  <2>1. watched' = watched
    BY DEF Notify
  <2>2. told'[a][u] = IF a \in accounts \cap watched /\ u = t THEN score ELSE told[a][u]
    BY DEF Notify, TellingInv, TellingTypes
  <2>3. QED
    BY <1>2, <2>1, <2>2 DEF TellingInv, OnlyWatchersTold, Told
<1>3. ASSUME NEW a \in watched', NEW u \in Traces, told'[a][u] \in Scores
      PROVE  \/ a \in traceCache'[u].accounts /\ told'[a][u] <= traceCache'[u].score
             \/ <<a, u>> \in forgotten'
  <2>1. a \in watched /\ a \in Accounts
    BY <1>3 DEF Notify, TellingInv, TellingTypes
  <2>2. /\ told'[a][u] = IF a \in accounts \cap watched /\ u = t THEN score ELSE told[a][u]
        /\ u = t => traceCache'[u] = [score |-> score,
                                     accounts |-> traceCache[t].accounts \cup accounts]
        /\ u # t => \/ traceCache'[u] = traceCache[u]
                    \/ Told(a, u) => <<a, u>> \in forgotten'
        /\ <<a, u>> \in forgotten /\ ~(a \in accounts /\ u = t) => <<a, u>> \in forgotten'
        /\ ~Lower(t, score)
    BY <2>1, NotifyTells
  <2>3. CASE a \in accounts /\ u = t
    BY <2>1, <2>2, <2>3, ScoreOrder
  <2>4. CASE ~(a \in accounts /\ u = t)
    <3>1. told'[a][u] = told[a][u] /\ Told(a, u)
      BY <1>3, <2>2, <2>4 DEF Told
    <3>2. \/ a \in traceCache[u].accounts /\ told[a][u] <= traceCache[u].score
          \/ <<a, u>> \in forgotten
      BY <2>1, <3>1 DEF TellingInv, UndoReaches
    <3>3. CASE u # t
      BY <2>2, <2>4, <3>1, <3>2, <3>3
    <3>4. CASE u = t /\ a \in traceCache[u].accounts /\ told[a][u] <= traceCache[u].score
      <4>1. traceCache[t].score \in Int /\ told[a][u] \in Int /\ Nothing < told[a][u]
        BY <3>1, ScoreOrder DEF TellingInv, TellingTypes, Entry, Told
      <4>2. Nothing \in Int /\ score \in Int
        BY ScoreOrder
      <4>3. traceCache[t].score # Nothing
        BY <3>4, <4>1, <4>2
      <4>4. ~(score < traceCache[t].score)
        BY <2>2, <4>3 DEF Lower, Cached
      <4>5. told[a][u] <= score
        BY <3>4, <4>1, <4>2, <4>4
      <4>6. QED
        BY <2>2, <3>1, <3>4, <4>5
    <3>5. QED
      BY <2>2, <2>4, <3>2, <3>3, <3>4
  <2>5. QED
    BY <2>3, <2>4
<1>4. OnlyWatchersTold' /\ UndoReaches'
  BY <1>2, <1>3 DEF OnlyWatchersTold, UndoReaches, Told
<1>5. QED
  BY <1>1, <1>4 DEF TellingInv

LEMMA TellingKept == TellingInv /\ [FeedNext]_feedVars => TellingInv'
<1> SUFFICES ASSUME TellingInv, [FeedNext]_feedVars PROVE TellingInv'
  OBVIOUS
<1>0. TellingTypes /\ OnlyWatchersTold /\ UndoReaches
  BY DEF TellingInv
<1>1. ASSUME NEW a \in Accounts, WatchAccount(a) PROVE TellingInv'
  BY <1>0, <1>1
     DEF WatchAccount, TellingInv, TellingTypes, OnlyWatchersTold, UndoReaches, Told
<1>2. ASSUME NEW a \in Accounts, UnwatchAccount(a) PROVE TellingInv'
  <2>1. /\ watched' = watched \ {a} /\ traceCache' = traceCache
        /\ forgotten' = {p \in forgotten : p[1] # a}
        /\ told' = [told EXCEPT ![a] = [t \in Traces |-> Nothing]]
    BY <1>2 DEF UnwatchAccount
  <2>2. \A t \in Traces : told'[a][t] = Nothing
    BY <1>0, <2>1 DEF TellingTypes
  <2>3. \A b \in Accounts \ {a} : told'[b] = told[b]
    BY <1>0, <2>1 DEF TellingTypes
  <2>4. TellingTypes'
    BY <1>0, <2>1 DEF TellingTypes
  <2>5. OnlyWatchersTold'
    BY <1>0, <2>1, <2>2, <2>3, ScoreOrder DEF OnlyWatchersTold, Told
  <2>6. \A b \in watched', t \in Traces : <<b, t>> \in forgotten => <<b, t>> \in forgotten'
    BY <2>1
  <2>7. UndoReaches'
    BY <1>0, <2>1, <2>3, <2>6 DEF UndoReaches, Told, TellingTypes
  <2>8. QED
    BY <2>4, <2>5, <2>7 DEF TellingInv
<1>3. ASSUME NEW t \in Traces, NEW score \in Scores, IgnoreLower(t, score) PROVE TellingInv'
  BY <1>0, <1>3
     DEF IgnoreLower, TellingInv, TellingTypes, OnlyWatchersTold, UndoReaches, Told
<1>4. ASSUME NEW t \in Traces, Invalidate(t) PROVE TellingInv'
  <2>1. /\ watched' = watched /\ forgotten' = forgotten
        /\ traceCache' = [traceCache EXCEPT ![t] = NoEntry]
        /\ told' = [a \in Accounts |->
             IF a \in traceCache[t].accounts \cap watched THEN [told[a] EXCEPT ![t] = Invalidated]
             ELSE told[a]]
    BY <1>4 DEF Invalidate
  <2>2. NoEntry \in Entry
    BY DEF NoEntry, Entry
  <2>3. TellingTypes'
    BY <1>0, <2>1, <2>2 DEF TellingTypes
  <2>4. \A a \in Accounts, u \in Traces :
          told'[a][u] = IF a \in traceCache[t].accounts \cap watched /\ u = t THEN Invalidated
                        ELSE told[a][u]
    BY <1>0, <2>1 DEF TellingTypes
  <2>5. OnlyWatchersTold'
    BY <1>0, <2>1, <2>4 DEF OnlyWatchersTold, Told
  <2>6. \A u \in Traces \ {t} : traceCache'[u] = traceCache[u]
    BY <1>0, <2>1 DEF TellingTypes
  <2>7. ASSUME NEW a \in watched, NEW u \in Traces, told'[a][u] \in Scores
        PROVE  \/ a \in traceCache'[u].accounts /\ told'[a][u] <= traceCache'[u].score
               \/ <<a, u>> \in forgotten'
    <3>1. a \in Accounts
      BY <1>0 DEF TellingTypes
    <3>2. told'[a][u] = told[a][u] /\ ~(a \in traceCache[t].accounts /\ u = t)
      BY <2>4, <2>7, <3>1, ScoreOrder
    <3>3. \/ a \in traceCache[u].accounts /\ told[a][u] <= traceCache[u].score
          \/ <<a, u>> \in forgotten
      BY <1>0, <2>7, <3>2 DEF UndoReaches, Told
    <3>4. QED
      BY <2>1, <2>6, <3>2, <3>3
  <2>8. UndoReaches'
    BY <2>1, <2>7 DEF UndoReaches, Told
  <2>9. QED
    BY <2>3, <2>5, <2>8 DEF TellingInv
<1>5. CASE ClearCache
  <2>1. /\ watched' = watched /\ told' = told /\ traceCache' = [t \in Traces |-> NoEntry]
        /\ forgotten' = forgotten \cup {p \in Accounts \X Traces : Told(p[1], p[2])}
    BY <1>5 DEF ClearCache
  <2>2. NoEntry \in Entry
    BY DEF NoEntry, Entry
  <2>3. TellingTypes' /\ OnlyWatchersTold'
    BY <1>0, <2>1, <2>2 DEF TellingTypes, OnlyWatchersTold, Told
  <2>4. \A a \in Accounts, t \in Traces : Told(a, t) => <<a, t>> \in forgotten'
    BY <2>1
  <2>5. UndoReaches'
    BY <1>0, <2>1, <2>4 DEF UndoReaches, Told, TellingTypes
  <2>6. QED
    BY <2>3, <2>5 DEF TellingInv
<1>6. CASE UNCHANGED feedVars
  BY <1>0, <1>6 DEF feedVars, TellingInv, TellingTypes, OnlyWatchersTold, UndoReaches, Told
<1>7. QED
  BY <1>1, <1>2, <1>3, <1>4, <1>5, <1>6, NotifyKeeps DEF FeedNext

LEMMA TellingInvariant == FeedSpec => []TellingInv
  BY InitialTelling, TellingKept, PTL DEF FeedSpec

(* Whoever was told of a transaction can still be told that it was undone,
   unless the cache has had to forget the trace. *)
THEOREM FeedUndoReaches == FeedSpec => []UndoReaches
  BY TellingInvariant, PTL DEF TellingInv

(* What a watcher is told of a trace never becomes less final, but for an
   invalidation and for a trace the cache forgot. *)
THEOREM FeedNeverLessFinal == FeedSpec => NeverLessFinal
<1> DEFINE NotLess == \A a \in Accounts, t \in Traces :
        (Told(a, t) /\ <<a, t>> \notin forgotten /\ told'[a][t] \in Scores)
        => told'[a][t] >= told[a][t]
<1>1. ASSUME TellingInv, [FeedNext]_feedVars
      PROVE  [NotLess]_feedVars
  <2> SUFFICES ASSUME TellingInv, FeedNext, NEW a \in Accounts, NEW u \in Traces,
                      Told(a, u), <<a, u>> \notin forgotten, told'[a][u] \in Scores
               PROVE  told'[a][u] >= told[a][u]
    BY <1>1
  <2>0. a \in watched
    BY DEF TellingInv, OnlyWatchersTold
  <2>1. told[a][u] \in Int /\ Nothing < told[a][u] /\ Nothing \in Int
    BY ScoreOrder DEF Told
  <2>2. ASSUME NEW t \in Traces, NEW score \in Scores, NEW accounts \in SUBSET Accounts,
               Notify(t, score, accounts)
        PROVE  told'[a][u] >= told[a][u]
    <3>1. /\ told'[a][u] = IF a \in accounts \cap watched /\ u = t THEN score ELSE told[a][u]
          /\ ~Lower(t, score)
      BY <2>2 DEF Notify, TellingInv, TellingTypes
    <3>2. told[a][u] <= traceCache[u].score
      BY <2>0 DEF TellingInv, UndoReaches
    <3>3. traceCache[u].score \in Int
      BY ScoreOrder DEF TellingInv, TellingTypes, Entry
    <3>4. traceCache[u].score # Nothing /\ score \in Int
      BY <2>1, <3>2, <3>3, ScoreOrder
    <3>5. u = t => ~(score < traceCache[u].score)
      BY <3>1, <3>4 DEF Lower, Cached
    <3>6. QED
      BY <2>1, <3>1, <3>2, <3>3, <3>4, <3>5
  <2>3. ASSUME NEW b \in Accounts, WatchAccount(b) \/ UnwatchAccount(b)
        PROVE  told'[a][u] >= told[a][u]
    <3>1. told'[a][u] \in {told[a][u], Nothing}
      BY <2>3 DEF WatchAccount, UnwatchAccount, TellingInv, TellingTypes
    <3>2. QED
      BY <2>1, <3>1, ScoreOrder
  <2>4. ASSUME NEW t \in Traces, Invalidate(t) PROVE told'[a][u] >= told[a][u]
    <3>1. told'[a][u] \in {told[a][u], Invalidated}
      BY <2>4 DEF Invalidate, TellingInv, TellingTypes
    <3>2. QED
      BY <2>1, <3>1, ScoreOrder
  <2>5. ASSUME NEW t \in Traces, NEW score \in Scores, IgnoreLower(t, score)
        PROVE  told'[a][u] >= told[a][u]
    BY <2>1, <2>5 DEF IgnoreLower
  <2>6. CASE ClearCache
    BY <2>1, <2>6 DEF ClearCache
  <2>7. QED
    BY <2>2, <2>3, <2>4, <2>5, <2>6 DEF FeedNext
<1>2. QED
  BY <1>1, TellingInvariant, PTL DEF FeedSpec, NeverLessFinal

-----------------------------------------------------------------------------
(* The size of the trace cache. *)

\* The order of use has each of the cached traces once, and no other.
OrderOfUse ==
    /\ Distinct(recent)
    /\ ElementsOf(recent) = {t \in Traces : Cached(t)}

FeedInv == FeedTypeOK /\ OrderOfUse

LEMMA UsedOrder ==
  ASSUME FeedInv, NEW t \in Traces
  PROVE  /\ Used(t) \in Seq(Traces) /\ Distinct(Used(t))
         /\ ElementsOf(Used(t)) = ElementsOf(recent) \cup {t}
         /\ Cached(t) => Len(Used(t)) = Len(recent)
         /\ ~Cached(t) => Used(t) = Append(recent, t) /\ Len(Used(t)) = Len(recent) + 1
<1>1. PICK s : s = recent
  OBVIOUS
<1>2. s \in Seq(Traces) /\ Distinct(s) /\ (t \in ElementsOf(s) <=> Cached(t))
  BY <1>1 DEF FeedInv, FeedTypeOK, OrderOfUse
<1>3. PICK r : r = RemoveFirst(s, t)
  OBVIOUS
<1>4. Len(s) \in Nat /\ DOMAIN s = 1..Len(s)
  BY <1>2, LenProperties
<1>5. /\ r \in Seq(Traces) /\ Distinct(r) /\ ElementsOf(r) = ElementsOf(s) \ {t}
      /\ Cached(t) => Len(r) = Len(s) - 1
      /\ ~Cached(t) => r = s
  <2>1. CASE Cached(t)
    BY <1>2, <1>3, <2>1, RemovedElements
  <2>2. CASE ~Cached(t)
    <3>1. ~ \E i \in 1..Len(s) : s[i] = t
      BY <1>2, <1>4, <2>2 DEF ElementsOf
    <3>2. r = s
      BY <1>3, <3>1 DEF RemoveFirst
    <3>3. QED
      BY <1>2, <2>2, <3>2
  <2>3. QED
    BY <2>1, <2>2
<1>6. /\ Append(r, t) \in Seq(Traces) /\ Len(Append(r, t)) = Len(r) + 1
      /\ Distinct(Append(r, t)) /\ ElementsOf(Append(r, t)) = ElementsOf(s) \cup {t}
  BY <1>5, AppendProperties, AppendElements
<1>7. Used(t) = Append(r, t)
  BY <1>1, <1>3 DEF Used
<1>8. /\ Used(t) \in Seq(Traces) /\ Distinct(Used(t))
      /\ ElementsOf(Used(t)) = ElementsOf(recent) \cup {t}
  BY <1>1, <1>6, <1>7
<1>9. ASSUME Cached(t) PROVE Len(Used(t)) = Len(recent)
  <2>1. Len(Append(r, t)) = Len(s)
    <3>1. Len(r) = Len(s) - 1
      BY <1>5, <1>9
    <3>2. Len(Append(r, t)) = Len(r) + 1
      BY <1>6
    <3>3. (Len(s) - 1) + 1 = Len(s)
      BY <1>4
    <3>4. QED
      BY <3>1, <3>2, <3>3, Zenon
  <2>2. QED
    BY <1>1, <1>7, <2>1
<1>10. ASSUME ~Cached(t) PROVE Used(t) = Append(recent, t) /\ Len(Used(t)) = Len(recent) + 1
  <2>1. Len(Append(r, t)) = Len(s) + 1 /\ Append(r, t) = Append(s, t)
    BY <1>5, <1>6, <1>10
  <2>2. QED
    BY <1>1, <1>7, <2>1
<1>11. QED
  BY <1>8, <1>9, <1>10

\* A cache that is full gives up the trace that was used least recently.
LEMMA NotifyOrder ==
  ASSUME FeedInv, TellingTypes', NEW t \in Traces, NEW score \in Scores,
         NEW accounts \in SUBSET Accounts, Notify(t, score, accounts)
  PROVE  /\ recent' \in Seq(Traces) /\ Len(recent') <= CacheSize
         /\ OrderOfUse' /\ forgotten' \in SUBSET (Accounts \X Traces)
<1> DEFINE evicted == IF ~Cached(t) /\ Len(recent) = CacheSize THEN {Head(recent)} ELSE {}
<1>1. /\ traceCache' = [u \in Traces |->
           IF u = t THEN Merged(t, score, accounts)
           ELSE IF u \in evicted THEN NoEntry ELSE traceCache[u]]
      /\ recent' = IF evicted = {} THEN Used(t) ELSE Tail(Used(t))
      /\ forgotten' = (forgotten \ (accounts \X {t}))
                      \cup {p \in Accounts \X evicted : Told(p[1], p[2])}
  BY DEF Notify
<1>2. /\ recent \in Seq(Traces) /\ Len(recent) <= CacheSize /\ CacheSize \in Nat \ {0}
      /\ Len(recent) \in Nat /\ Distinct(recent)
      /\ ElementsOf(recent) = {u \in Traces : Cached(u)}
      /\ forgotten \in SUBSET (Accounts \X Traces)
  BY TraceFeedAssumption, LenProperties DEF FeedInv, FeedTypeOK, OrderOfUse
<1>3. Merged(t, score, accounts).score # Nothing /\ NoEntry.score = Nothing
  BY ScoreOrder DEF Merged, NoEntry
<1>4. CASE evicted = {}
  <2>1. ~Cached(t) => Len(recent) < CacheSize
    BY <1>2, <1>4
  <2>2. recent' \in Seq(Traces) /\ Len(recent') <= CacheSize /\ Distinct(recent')
    BY <1>1, <1>2, <1>4, <2>1, UsedOrder
  <2>3. ElementsOf(recent') = ElementsOf(recent) \cup {t}
    BY <1>1, <1>4, UsedOrder
  <2>4. \A u \in Traces : Cached(u)' <=> Cached(u) \/ u = t
    BY <1>1, <1>3, <1>4 DEF Cached
  <2>5. OrderOfUse'
    BY <1>2, <2>2, <2>3, <2>4 DEF OrderOfUse
  <2>6. forgotten' \in SUBSET (Accounts \X Traces)
    BY <1>1, <1>2, <1>4
  <2>7. QED
    BY <2>2, <2>5, <2>6
<1>5. CASE evicted # {}
  <2>1. ~Cached(t) /\ Len(recent) = CacheSize /\ evicted = {Head(recent)}
    BY <1>5
  <2>2. recent # <<>> /\ Head(recent) = recent[1] /\ recent[1] \in Traces
    BY <1>2, <2>1, EmptySeq, HeadTailProperties
  <2>3. PICK u : u = Used(t)
    OBVIOUS
  <2>4. /\ u \in Seq(Traces) /\ Distinct(u) /\ Len(u) = Len(recent) + 1
        /\ u = Append(recent, t) /\ ElementsOf(u) = ElementsOf(recent) \cup {t}
    BY <2>1, <2>3, UsedOrder
  <2>5. u # <<>> /\ Head(u) = recent[1]
    <3>1. u[1] = recent[1]
      BY <1>2, <2>1, <2>4, AppendProperties
    <3>2. u # <<>>
      BY <1>2, <2>4, EmptySeq
    <3>3. QED
      BY <3>1, <3>2
  <2>6. /\ Tail(u) \in Seq(Traces) /\ Len(Tail(u)) = Len(u) - 1 /\ Distinct(Tail(u))
        /\ ElementsOf(u) = {recent[1]} \cup ElementsOf(Tail(u))
        /\ recent[1] \notin ElementsOf(Tail(u))
    BY <2>4, <2>5, TailElements, HeadTailProperties
  <2>7. recent' = Tail(u)
    BY <1>1, <1>5, <2>3
  <2>8. recent' \in Seq(Traces) /\ Len(recent') <= CacheSize /\ Distinct(recent')
    BY <1>2, <2>1, <2>4, <2>6, <2>7
  <2>9. ElementsOf(recent') = (ElementsOf(recent) \cup {t}) \ {recent[1]}
    BY <2>4, <2>6, <2>7
  <2>10. recent[1] # t
    <3>1. recent[1] \in ElementsOf(recent)
      BY <1>2, <2>1, LenProperties DEF ElementsOf
    <3>2. QED
      BY <1>2, <2>1, <3>1
  <2>11. \A v \in Traces : Cached(v)' <=> v # recent[1] /\ (Cached(v) \/ v = t)
    BY <1>1, <1>3, <2>1, <2>2, <2>10 DEF Cached
  <2>12. OrderOfUse'
    BY <1>2, <2>8, <2>9, <2>11 DEF OrderOfUse
  <2>13. forgotten' \in SUBSET (Accounts \X Traces)
    BY <1>1, <1>2, <2>1, <2>2
  <2>14. QED
    BY <2>8, <2>12, <2>13
<1>6. QED
  BY <1>4, <1>5

LEMMA FeedInvKept ==
  ASSUME FeedInv, TellingInv, [FeedNext]_feedVars
  PROVE  FeedInv'
<1>1. TellingTypes'
  BY TellingKept DEF TellingInv
<1>2. /\ recent \in Seq(Traces) /\ Len(recent) <= CacheSize
      /\ CacheSize \in Nat /\ Len(recent) \in Nat /\ Distinct(recent)
      /\ ElementsOf(recent) = {t \in Traces : Cached(t)}
      /\ forgotten \in SUBSET (Accounts \X Traces)
      /\ traceCache \in [Traces -> Entry]
  BY TraceFeedAssumption, LenProperties
     DEF FeedInv, FeedTypeOK, OrderOfUse, TellingInv, TellingTypes
<1>3. SUFFICES /\ recent' \in Seq(Traces) /\ Len(recent') <= CacheSize
               /\ OrderOfUse' /\ forgotten' \in SUBSET (Accounts \X Traces)
  BY <1>1 DEF FeedInv, FeedTypeOK, TellingTypes, Entry
<1>4. ASSUME NEW a \in Accounts, WatchAccount(a) \/ UnwatchAccount(a)
      PROVE  UNCHANGED <<recent, traceCache>> /\ forgotten' \subseteq forgotten
  BY <1>4 DEF WatchAccount, UnwatchAccount
<1>5. ASSUME UNCHANGED <<recent, traceCache>>, forgotten' \subseteq forgotten
      PROVE  /\ recent' \in Seq(Traces) /\ Len(recent') <= CacheSize
             /\ OrderOfUse' /\ forgotten' \in SUBSET (Accounts \X Traces)
  BY <1>2, <1>5 DEF OrderOfUse, Cached
<1>6. ASSUME NEW t \in Traces, NEW score \in Scores, IgnoreLower(t, score)
      PROVE  /\ recent' \in Seq(Traces) /\ Len(recent') <= CacheSize
             /\ OrderOfUse' /\ forgotten' \in SUBSET (Accounts \X Traces)
  <2>1. Cached(t) /\ recent' = Used(t) /\ UNCHANGED <<traceCache, forgotten>>
    BY <1>6 DEF IgnoreLower, Lower
  <2>2. /\ recent' \in Seq(Traces) /\ Distinct(recent') /\ Len(recent') = Len(recent)
        /\ ElementsOf(recent') = ElementsOf(recent) \cup {t}
    BY <2>1, UsedOrder
  <2>3. QED
    BY <1>2, <2>1, <2>2 DEF OrderOfUse, Cached
<1>7. ASSUME NEW t \in Traces, Invalidate(t)
      PROVE  /\ recent' \in Seq(Traces) /\ Len(recent') <= CacheSize
             /\ OrderOfUse' /\ forgotten' \in SUBSET (Accounts \X Traces)
  <2>1. /\ Cached(t) /\ recent' = RemoveFirst(recent, t) /\ forgotten' = forgotten
        /\ traceCache' = [traceCache EXCEPT ![t] = NoEntry]
    BY <1>7 DEF Invalidate
  <2>2. /\ recent' \in Seq(Traces) /\ Distinct(recent') /\ Len(recent') = Len(recent) - 1
        /\ ElementsOf(recent') = ElementsOf(recent) \ {t}
    BY <1>2, <2>1, RemovedElements
  <2>3. \A u \in Traces : Cached(u)' <=> Cached(u) /\ u # t
    BY <1>2, <2>1 DEF Cached, NoEntry
  <2>4. QED
    BY <1>2, <2>1, <2>2, <2>3 DEF OrderOfUse
<1>8. ASSUME ClearCache
      PROVE  /\ recent' \in Seq(Traces) /\ Len(recent') <= CacheSize
             /\ OrderOfUse' /\ forgotten' \in SUBSET (Accounts \X Traces)
  <2>1. /\ recent' = <<>> /\ traceCache' = [t \in Traces |-> NoEntry]
        /\ forgotten' = forgotten \cup {p \in Accounts \X Traces : Told(p[1], p[2])}
    BY <1>8 DEF ClearCache
  <2>2. \A t \in Traces : ~Cached(t)'
    BY <2>1 DEF Cached, NoEntry
  <2>3. OrderOfUse'
    BY <2>1, <2>2, EmptyElements DEF OrderOfUse
  <2>4. recent' \in Seq(Traces) /\ Len(recent') = 0
    BY <2>1
  <2>5. forgotten' \in SUBSET (Accounts \X Traces)
    BY <1>2, <2>1
  <2>6. QED
    BY <1>2, <2>3, <2>4, <2>5
<1>9. CASE UNCHANGED feedVars
  BY <1>5, <1>9 DEF feedVars
<1>10. QED
  BY <1>1, <1>4, <1>5, <1>6, <1>7, <1>8, <1>9, NotifyOrder DEF FeedNext

LEMMA FeedStart ==
  ASSUME FeedInit
  PROVE  FeedInv
<1>1. TellingTypes
  BY InitialTelling DEF TellingInv
<1>2. recent \in Seq(Traces) /\ Len(recent) = 0 /\ forgotten = {}
  BY DEF FeedInit
<1>3. OrderOfUse
  BY EmptyElements DEF FeedInit, OrderOfUse, Cached, NoEntry
<1>4. QED
  BY <1>1, <1>2, <1>3, TraceFeedAssumption DEF FeedInv, FeedTypeOK, TellingTypes, Entry

(* The variables keep their types, and the cache its maximum: each trace in it
   is in the order of use exactly once. *)
THEOREM FeedTypeCorrect == FeedSpec => []FeedTypeOK
<1>1. FeedInv /\ TellingInv /\ [FeedNext]_feedVars => FeedInv'
  BY FeedInvKept
<1>2. FeedInv => FeedTypeOK
  BY DEF FeedInv
<1>3. QED
  BY <1>1, <1>2, FeedStart, TellingInvariant, PTL DEF FeedSpec
=============================================================================
