----------------------------- MODULE EdgesProofs -----------------------------
(***************************************************************************)
(* Theorems about Analytics, for any number of events and any sizes of     *)
(* batch and queue, and about ExtensionRpc, for any set of requests and    *)
(* any number of senders; and what MCEdges, which runs both beside three   *)
(* more parts, has from their theorems.                                    *)
(***************************************************************************)
EXTENDS MCEdges, StreamingProofs, RequestQueueProofs

-----------------------------------------------------------------------------
(* Analytics. *)

\* No event is twice in the queue and the batch, and a batch is being sent.
EachOnce ==
    /\ Distinct(events) /\ Distinct(batch)
    /\ QueuedEvents \cap BatchEvents = {}
    /\ ~isProcessing => batch = <<>>

-----------------------------------------------------------------------------
(* What the operations do with the queue. *)

AnalyticsInv == AnalyticsTypeOK /\ QueueHasAttention /\ EachOnce /\ NoEventVanishes

\* emit() keeps a queue that is not too long; what it drops leaves the queue.
LEMMA EmittedQueue ==
  ASSUME AnalyticsInv, emitted < MaxEvents
  PROVE  LET longer == Append(events, emitted + 1)
             overflow == Len(longer) > MaxQueueSize
             queue == IF overflow THEN Tail(longer) ELSE longer
             lost == IF overflow THEN {Head(longer)} ELSE {}
         IN /\ queue \in Seq(1..MaxEvents) /\ Len(queue) <= MaxQueueSize /\ Len(queue) > 0
            /\ Distinct(queue) /\ lost \subseteq 1..MaxEvents
            /\ ElementsOf(queue) \cup lost = QueuedEvents \cup {emitted + 1}
            /\ ElementsOf(queue) \cap lost = {}
<1> DEFINE longer == Append(events, emitted + 1)
           queue == IF Len(longer) > MaxQueueSize THEN Tail(longer) ELSE longer
           lost == IF Len(longer) > MaxQueueSize THEN {Head(longer)} ELSE {}
<1>1. /\ emitted + 1 \in 1..MaxEvents /\ emitted + 1 \notin Emitted
      /\ MaxQueueSize \in Nat \ {0}
  BY AnalyticsAssumption DEF AnalyticsInv, AnalyticsTypeOK, Emitted
<1>2. /\ events \in Seq(1..MaxEvents) /\ Len(events) \in Nat /\ Len(events) <= MaxQueueSize
      /\ Distinct(events) /\ QueuedEvents = ElementsOf(events) /\ QueuedEvents \subseteq Emitted
  BY LenProperties
     DEF AnalyticsInv, AnalyticsTypeOK, EachOnce, NoEventVanishes, QueuedEvents, ElementsOf
<1>3. /\ longer \in Seq(1..MaxEvents) /\ Len(longer) = Len(events) + 1 /\ longer # <<>>
      /\ ElementsOf(longer) = QueuedEvents \cup {emitted + 1} /\ Distinct(longer)
  <2>1. /\ ElementsOf(longer) = ElementsOf(events) \cup {emitted + 1}
        /\ Distinct(events) /\ emitted + 1 \notin ElementsOf(events) => Distinct(longer)
    BY <1>1, <1>2, AppendElements, Zenon
  <2>2. longer \in Seq(1..MaxEvents) /\ Len(longer) = Len(events) + 1
    BY <1>1, <1>2, AppendProperties
  <2>3. longer # <<>>
    BY <1>2, <2>2
  <2>4. emitted + 1 \notin ElementsOf(events)
    BY <1>1, <1>2
  <2>5. QED
    BY <1>2, <2>1, <2>2, <2>3, <2>4
<1> HIDE DEF longer
<1>4. CASE Len(longer) > MaxQueueSize
  <2>1. /\ Tail(longer) \in Seq(1..MaxEvents) /\ Len(Tail(longer)) = Len(longer) - 1
        /\ Head(longer) \in 1..MaxEvents
    BY <1>3, HeadTailProperties
  <2>2. /\ ElementsOf(longer) = {Head(longer)} \cup ElementsOf(Tail(longer))
        /\ Distinct(Tail(longer)) /\ Head(longer) \notin ElementsOf(Tail(longer))
    BY <1>3, TailElements
  <2>3. queue = Tail(longer) /\ lost = {Head(longer)}
    BY <1>4
  <2>4. Len(queue) <= MaxQueueSize /\ Len(queue) > 0
    BY <1>1, <1>2, <1>3, <1>4, <2>1, <2>3
  <2>5. QED
    BY <1>3, <2>1, <2>2, <2>3, <2>4 DEF longer
<1>5. CASE ~(Len(longer) > MaxQueueSize)
  BY <1>1, <1>2, <1>3, <1>5 DEF longer
<1>6. QED
  BY <1>4, <1>5

\* flush() splits the queue into the batch and the rest.
LEMMA FlushSplits ==
  ASSUME NEW queue \in Seq(1..MaxEvents), Len(queue) <= MaxQueueSize, Distinct(queue),
         Flush(queue)
  PROVE  /\ events' \in Seq(1..MaxEvents) /\ Len(events') <= MaxQueueSize
         /\ batch' \in Seq(1..MaxEvents) /\ Len(batch') <= MaxBatchSize
         /\ Distinct(events)' /\ Distinct(batch)'
         /\ QueuedEvents' \cup BatchEvents' = ElementsOf(queue)
         /\ QueuedEvents' \cap BatchEvents' = {}
         /\ ~isProcessing /\ isProcessing' /\ ~timeout'
         /\ isProcessing' \in BOOLEAN /\ timeout' \in BOOLEAN
<1> DEFINE size == Smaller(Len(queue), MaxBatchSize)
<1>1. Len(queue) \in Nat /\ MaxQueueSize \in Nat /\ MaxBatchSize \in Nat
  BY LenProperties, AnalyticsAssumption
<1>2. size \in 0..Len(queue) /\ size <= MaxBatchSize
  BY <1>1 DEF Smaller
<1>3. batch' = SubSeq(queue, 1, size) /\ events' = SubSeq(queue, size + 1, Len(queue))
  BY DEF Flush
<1> HIDE DEF size
<1>4. /\ batch' \in Seq(1..MaxEvents) /\ events' \in Seq(1..MaxEvents)
      /\ Len(batch') = size /\ Len(events') = Len(queue) - size
      /\ ElementsOf(batch') \cup ElementsOf(events') = ElementsOf(queue)
      /\ Distinct(batch') /\ Distinct(events') /\ ElementsOf(batch') \cap ElementsOf(events') = {}
  <2> DEFINE front == SubSeq(queue, 1, size)
             rest == SubSeq(queue, size + 1, Len(queue))
  <2>1. /\ front \in Seq(1..MaxEvents) /\ rest \in Seq(1..MaxEvents)
        /\ Len(front) = size /\ Len(rest) = Len(queue) - size
        /\ ElementsOf(front) \cup ElementsOf(rest) = ElementsOf(queue)
        /\ Distinct(queue) => /\ Distinct(front) /\ Distinct(rest)
                              /\ ElementsOf(front) \cap ElementsOf(rest) = {}
    BY <1>2, SplitElements, Zenon
  <2>2. batch' = front /\ events' = rest
    BY <1>3
  <2> HIDE DEF front, rest
  <2>3. QED
    BY <2>1, <2>2
<1>5. Len(events') <= MaxQueueSize /\ Len(batch') <= MaxBatchSize
  BY <1>1, <1>2, <1>4
<1>6. Distinct(events)' /\ Distinct(batch)'
  BY <1>4 DEF Distinct
<1>7. QueuedEvents' = ElementsOf(events') /\ BatchEvents' = ElementsOf(batch')
  BY DEF QueuedEvents, BatchEvents, ElementsOf
<1>8. ~isProcessing /\ isProcessing' = TRUE /\ timeout' = FALSE
  BY DEF Flush
<1>9. QED
  BY <1>4, <1>5, <1>6, <1>7, <1>8

\* A batch that is put back and cut keeps the types and repeats nothing.
LEMMA RestoredQueue ==
  ASSUME AnalyticsInv
  PROVE  /\ Restored \in Seq(1..MaxEvents) /\ Len(Restored) <= MaxQueueSize
         /\ Distinct(Restored)
         /\ ElementsOf(Restored) \subseteq BatchEvents \cup QueuedEvents
<1> DEFINE whole == batch \o events
           size == Smaller(Len(whole), MaxQueueSize)
<1>1. /\ events \in Seq(1..MaxEvents) /\ batch \in Seq(1..MaxEvents)
      /\ Distinct(events) /\ Distinct(batch)
      /\ QueuedEvents = ElementsOf(events) /\ BatchEvents = ElementsOf(batch)
      /\ ElementsOf(batch) \cap ElementsOf(events) = {}
  BY DEF AnalyticsInv, AnalyticsTypeOK, EachOnce, QueuedEvents, BatchEvents, ElementsOf
<1>2. /\ whole \in Seq(1..MaxEvents)
      /\ ElementsOf(whole) = BatchEvents \cup QueuedEvents /\ Distinct(whole)
  BY <1>1, ConcatElements, ConcatProperties
<1>3. Restored = SubSeq(whole, 1, size)
  BY DEF Restored
<1> HIDE DEF whole
<1>4. size \in 0..Len(whole) /\ size <= MaxQueueSize
  BY <1>2, LenProperties, AnalyticsAssumption DEF Smaller
<1> HIDE DEF size
<1>5. /\ Restored \in Seq(1..MaxEvents) /\ Len(Restored) = size /\ Distinct(Restored)
      /\ ElementsOf(Restored) \subseteq ElementsOf(whole)
  <2> DEFINE front == SubSeq(whole, 1, size)
             rest == SubSeq(whole, size + 1, Len(whole))
  <2>1. /\ front \in Seq(1..MaxEvents) /\ Len(front) = size
        /\ ElementsOf(front) \cup ElementsOf(rest) = ElementsOf(whole)
        /\ Distinct(whole) => Distinct(front)
    BY <1>2, <1>4, SplitElements, Zenon
  <2>2. Restored = front
    BY <1>3
  <2> HIDE DEF front, rest
  <2>3. QED
    BY <1>2, <2>1, <2>2
<1>6. QED
  BY <1>2, <1>4, <1>5

\* After a request the timer runs exactly if events wait.
LEMMA EndedFlush ==
  ASSUME AnalyticsInv,
         NEW queue \in Seq(1..MaxEvents), Len(queue) <= MaxQueueSize, Distinct(queue),
         EndFlush(queue)
  PROVE  /\ events' \in Seq(1..MaxEvents) /\ Len(events') <= MaxQueueSize
         /\ batch' \in Seq(1..MaxEvents) /\ Len(batch') <= MaxBatchSize
         /\ QueuedEvents' = ElementsOf(queue) /\ BatchEvents' = {}
         /\ isProcessing' \in BOOLEAN /\ timeout' \in BOOLEAN
         /\ QueueHasAttention' /\ EachOnce'
<1>1. events' = queue /\ batch' = <<>> /\ isProcessing' = FALSE
      /\ timeout' = (timeout \/ queue # <<>>) /\ isProcessing
  BY DEF EndFlush
<1>2. ~timeout
  BY <1>1 DEF AnalyticsInv, QueueHasAttention
<1>3. <<>> \in Seq(1..MaxEvents) /\ Len(<<>>) <= MaxBatchSize
  BY AnalyticsAssumption
<1>4. QueuedEvents' = ElementsOf(queue) /\ BatchEvents' = {}
  BY <1>1 DEF QueuedEvents, BatchEvents, ElementsOf
<1>5. QueueHasAttention'
  BY <1>1, <1>2 DEF QueueHasAttention
<1>6. Distinct(events)' /\ Distinct(batch)'
  BY <1>1 DEF Distinct
<1>7. EachOnce'
  BY <1>1, <1>4, <1>6 DEF EachOnce
<1>8. QED
  BY <1>1, <1>3, <1>4, <1>5, <1>7

-----------------------------------------------------------------------------
(* The invariant: initially, and through every operation. *)

LEMMA InitialAnalytics == AnalyticsInit => AnalyticsInv
<1> SUFFICES ASSUME AnalyticsInit PROVE AnalyticsInv
  OBVIOUS
<1>1. AnalyticsTypeOK
  <2>1. /\ <<>> \in Seq(1..MaxEvents) /\ Len(<<>>) <= MaxQueueSize /\ Len(<<>>) <= MaxBatchSize
        /\ 0 \in 0..MaxEvents /\ 1 \in 1..MaxBackoff
    BY AnalyticsAssumption
  <2>2. QED
    BY <2>1, Zenon DEF AnalyticsInit, AnalyticsTypeOK
<1>2. QueueHasAttention
  BY DEF AnalyticsInit, QueueHasAttention
<1>3. QueuedEvents = {} /\ BatchEvents = {} /\ Emitted = {}
  BY DEF AnalyticsInit, QueuedEvents, BatchEvents, Emitted
<1>4. EachOnce /\ NoEventVanishes
  BY <1>3 DEF AnalyticsInit, EachOnce, NoEventVanishes, Distinct
<1>5. QED
  BY <1>1, <1>2, <1>4 DEF AnalyticsInv

LEMMA EmitKeeps == AnalyticsInv /\ Emit => AnalyticsInv'
<1> SUFFICES ASSUME AnalyticsInv, Emit PROVE AnalyticsInv'
  OBVIOUS
<1> DEFINE longer == Append(events, emitted + 1)
           queue == IF Len(longer) > MaxQueueSize THEN Tail(longer) ELSE longer
           lost == IF Len(longer) > MaxQueueSize THEN {Head(longer)} ELSE {}
<1>1. /\ emitted < MaxEvents /\ emitted' = emitted + 1 /\ overflowed' = overflowed \cup lost
      /\ UNCHANGED <<backoff, received, givenUp>>
  BY DEF Emit
<1>2. \/ Flush(queue)
      \/ isProcessing /\ events' = queue /\ UNCHANGED <<flushVars, timeout>>
      \/ events' = queue /\ StartTimeout /\ UNCHANGED flushVars
  BY DEF Emit
<1>3. /\ queue \in Seq(1..MaxEvents) /\ Len(queue) <= MaxQueueSize /\ Len(queue) > 0
      /\ Distinct(queue) /\ lost \subseteq 1..MaxEvents
      /\ ElementsOf(queue) \cup lost = QueuedEvents \cup {emitted + 1}
      /\ ElementsOf(queue) \cap lost = {}
  BY <1>1, EmittedQueue, Zenon
<1> HIDE DEF queue, lost
<1>4. /\ emitted' \in 0..MaxEvents /\ backoff' \in 1..MaxBackoff
      /\ received' \in SUBSET (1..MaxEvents) /\ givenUp' \in SUBSET (1..MaxEvents)
      /\ overflowed' \in SUBSET (1..MaxEvents)
      /\ Emitted' = Emitted \cup {emitted + 1} /\ emitted + 1 \notin Emitted
  <2>1. emitted \in Nat /\ emitted \in 0..MaxEvents /\ MaxEvents \in Nat
    BY AnalyticsAssumption DEF AnalyticsInv, AnalyticsTypeOK
  <2>2. Emitted' = Emitted \cup {emitted + 1} /\ emitted + 1 \notin Emitted
    BY <1>1, <2>1 DEF Emitted
  <2>3. emitted' \in 0..MaxEvents
    BY <1>1, <2>1
  <2>4. QED
    BY <1>1, <1>3, <2>2, <2>3 DEF AnalyticsInv, AnalyticsTypeOK
<1>5. /\ events' \in Seq(1..MaxEvents) /\ Len(events') <= MaxQueueSize
      /\ batch' \in Seq(1..MaxEvents) /\ Len(batch') <= MaxBatchSize
      /\ isProcessing' \in BOOLEAN /\ timeout' \in BOOLEAN
      /\ QueueHasAttention' /\ EachOnce'
      /\ QueuedEvents' \cup BatchEvents' = ElementsOf(queue) \cup BatchEvents
  <2>1. queue # <<>>
    BY <1>3
  <2>2. /\ batch \in Seq(1..MaxEvents) /\ Len(batch) <= MaxBatchSize
        /\ isProcessing \in BOOLEAN /\ timeout \in BOOLEAN
        /\ timeout => ~isProcessing
        /\ ~isProcessing => batch = <<>>
        /\ Distinct(batch) /\ QueuedEvents \cap BatchEvents = {}
        /\ BatchEvents \subseteq Emitted
    BY DEF AnalyticsInv, AnalyticsTypeOK, QueueHasAttention, EachOnce, NoEventVanishes
  <2>3. CASE Flush(queue)
    <3>1. /\ events' \in Seq(1..MaxEvents) /\ Len(events') <= MaxQueueSize
          /\ batch' \in Seq(1..MaxEvents) /\ Len(batch') <= MaxBatchSize
          /\ Distinct(events)' /\ Distinct(batch)'
          /\ QueuedEvents' \cup BatchEvents' = ElementsOf(queue)
          /\ QueuedEvents' \cap BatchEvents' = {}
          /\ ~isProcessing /\ isProcessing' /\ ~timeout'
          /\ isProcessing' \in BOOLEAN /\ timeout' \in BOOLEAN
      BY <1>3, <2>3, FlushSplits, Zenon
    <3>2. BatchEvents = {}
      BY <2>2, <3>1 DEF BatchEvents
    <3>3. QueueHasAttention' /\ EachOnce'
      BY <3>1 DEF QueueHasAttention, EachOnce
    <3>4. QED
      BY <3>1, <3>2, <3>3
  <2>4. ASSUME events' = queue, UNCHANGED flushVars,
               timeout' \in BOOLEAN, isProcessing \/ timeout', timeout' => ~isProcessing
        PROVE  /\ events' \in Seq(1..MaxEvents) /\ Len(events') <= MaxQueueSize
               /\ batch' \in Seq(1..MaxEvents) /\ Len(batch') <= MaxBatchSize
               /\ isProcessing' \in BOOLEAN
               /\ QueueHasAttention' /\ EachOnce'
               /\ QueuedEvents' \cup BatchEvents' = ElementsOf(queue) \cup BatchEvents
    <3>1. QueuedEvents' = ElementsOf(queue) /\ BatchEvents' = BatchEvents
          /\ batch' = batch /\ isProcessing' = isProcessing
      BY <2>4 DEF flushVars, QueuedEvents, BatchEvents, ElementsOf
    <3>2. Distinct(events)' /\ Distinct(batch)'
      BY <1>3, <2>2, <2>4, <3>1 DEF Distinct
    <3>3. ElementsOf(queue) \cap BatchEvents = {}
      BY <1>3, <1>4, <2>2
    <3>4. EachOnce'
      BY <2>2, <3>1, <3>2, <3>3 DEF EachOnce
    <3>5. QueueHasAttention'
      BY <2>1, <2>4, <3>1 DEF QueueHasAttention
    <3>6. QED
      BY <1>3, <2>2, <2>4, <3>1, <3>4, <3>5
  <2>5. CASE isProcessing /\ events' = queue /\ UNCHANGED <<flushVars, timeout>>
    BY <2>2, <2>4, <2>5
  <2>6. CASE events' = queue /\ StartTimeout /\ UNCHANGED flushVars
    <3>1. timeout' = (timeout \/ ~isProcessing)
      BY <2>6 DEF StartTimeout
    <3>2. timeout' \in BOOLEAN /\ (isProcessing \/ timeout') /\ (timeout' => ~isProcessing)
      BY <2>2, <3>1, Zenon
    <3>3. QED
      BY <2>4, <2>6, <3>2
  <2>7. QED
    BY <1>2, <2>3, <2>5, <2>6
<1>6. NoEventVanishes'
  <2>1. /\ Emitted = QueuedEvents \cup BatchEvents \cup received \cup givenUp \cup overflowed
        /\ (QueuedEvents \cup BatchEvents) \cap (givenUp \cup overflowed) = {}
        /\ QueuedEvents \cap BatchEvents = {}
    BY DEF AnalyticsInv, EachOnce, NoEventVanishes
  <2> DEFINE waiting == QueuedEvents' \cup BatchEvents'
  <2>2. waiting = ElementsOf(queue) \cup BatchEvents
    BY <1>5
  <2> HIDE DEF waiting
  <2>3. Emitted' = waiting \cup received \cup givenUp \cup overflowed'
    BY <1>1, <1>3, <1>4, <2>1, <2>2
  <2>4. waiting \cap (givenUp \cup overflowed') = {}
    BY <1>1, <1>3, <1>4, <2>1, <2>2
  <2>5. received' = received /\ givenUp' = givenUp
    BY <1>1
  <2>6. QED
    BY <2>3, <2>4, <2>5 DEF NoEventVanishes, waiting
<1>7. QED
  BY <1>4, <1>5, <1>6 DEF AnalyticsInv, AnalyticsTypeOK

LEMMA FlushKeeps ==
  AnalyticsInv /\ Flush(events) /\ UNCHANGED <<emitted, backoff, fateVars>> => AnalyticsInv'
<1> SUFFICES ASSUME AnalyticsInv, Flush(events), UNCHANGED <<emitted, backoff, fateVars>>
             PROVE  AnalyticsInv'
  OBVIOUS
<1>1. /\ events \in Seq(1..MaxEvents) /\ Len(events) <= MaxQueueSize /\ Distinct(events)
      /\ QueuedEvents = ElementsOf(events)
      /\ ~isProcessing => batch = <<>>
  BY DEF AnalyticsInv, AnalyticsTypeOK, EachOnce, QueuedEvents, ElementsOf
<1>2. /\ events' \in Seq(1..MaxEvents) /\ Len(events') <= MaxQueueSize
      /\ batch' \in Seq(1..MaxEvents) /\ Len(batch') <= MaxBatchSize
      /\ Distinct(events)' /\ Distinct(batch)'
      /\ QueuedEvents' \cup BatchEvents' = ElementsOf(events)
      /\ QueuedEvents' \cap BatchEvents' = {}
      /\ ~isProcessing /\ isProcessing' /\ ~timeout'
      /\ isProcessing' \in BOOLEAN /\ timeout' \in BOOLEAN
  BY <1>1, FlushSplits, Zenon
<1>3. BatchEvents = {}
  BY <1>1, <1>2 DEF BatchEvents
<1>4. /\ emitted' = emitted /\ backoff' = backoff /\ received' = received
      /\ givenUp' = givenUp /\ overflowed' = overflowed /\ Emitted' = Emitted
  BY DEF fateVars, Emitted
<1>5. AnalyticsTypeOK'
  BY <1>2, <1>4 DEF AnalyticsInv, AnalyticsTypeOK
<1>6. QueueHasAttention' /\ EachOnce'
  BY <1>2 DEF QueueHasAttention, EachOnce
<1>7. NoEventVanishes'
  BY <1>1, <1>2, <1>3, <1>4 DEF AnalyticsInv, NoEventVanishes
<1>8. QED
  BY <1>5, <1>6, <1>7 DEF AnalyticsInv

\* The end of a request that leaves `queue`, the rest of what waited being
\* accounted for.
LEMMA EndKeeps ==
  ASSUME AnalyticsInv,
         NEW queue \in Seq(1..MaxEvents), Len(queue) <= MaxQueueSize, Distinct(queue),
         EndFlush(queue), emitted' = emitted, backoff' \in 1..MaxBackoff,
         ElementsOf(queue) \subseteq QueuedEvents \cup BatchEvents,
         received \subseteq received', received' \subseteq received \cup BatchEvents,
         givenUp \subseteq givenUp', givenUp' \subseteq givenUp \cup BatchEvents,
         overflowed \subseteq overflowed',
         overflowed' \subseteq overflowed \cup QueuedEvents \cup BatchEvents,
         QueuedEvents \cup BatchEvents
            \subseteq ElementsOf(queue) \cup received' \cup givenUp' \cup overflowed',
         ElementsOf(queue) \cap (givenUp' \cup overflowed') = {}
  PROVE  AnalyticsInv'
<1>1. /\ events' \in Seq(1..MaxEvents) /\ Len(events') <= MaxQueueSize
      /\ batch' \in Seq(1..MaxEvents) /\ Len(batch') <= MaxBatchSize
      /\ QueuedEvents' = ElementsOf(queue) /\ BatchEvents' = {}
      /\ isProcessing' \in BOOLEAN /\ timeout' \in BOOLEAN
      /\ QueueHasAttention' /\ EachOnce'
  BY EndedFlush
<1>2. /\ Emitted = QueuedEvents \cup BatchEvents \cup received \cup givenUp \cup overflowed
      /\ Emitted' = Emitted
  BY DEF AnalyticsInv, NoEventVanishes, Emitted
<1>3. Emitted \subseteq 1..MaxEvents
  BY AnalyticsAssumption DEF AnalyticsInv, AnalyticsTypeOK, Emitted
<1>4. /\ received' \subseteq Emitted /\ givenUp' \subseteq Emitted /\ overflowed' \subseteq Emitted
  BY <1>2
<1>5. AnalyticsTypeOK'
  BY <1>1, <1>3, <1>4 DEF AnalyticsInv, AnalyticsTypeOK
<1>6. NoEventVanishes'
  <2>1. Emitted' = ElementsOf(queue) \cup received' \cup givenUp' \cup overflowed'
    BY <1>2, <1>4
  <2>2. QED
    BY <1>1, <2>1 DEF NoEventVanishes
<1>7. QED
  BY <1>1, <1>5, <1>6 DEF AnalyticsInv

LEMMA EndsKeep == AnalyticsInv /\ (Accepted \/ Retry \/ GiveUp) => AnalyticsInv'
<1> SUFFICES ASSUME AnalyticsInv, Accepted \/ Retry \/ GiveUp PROVE AnalyticsInv'
  OBVIOUS
<1>1. /\ events \in Seq(1..MaxEvents) /\ Len(events) <= MaxQueueSize /\ Distinct(events)
      /\ backoff \in 1..MaxBackoff /\ MaxBackoff \in Nat \ {0}
      /\ QueuedEvents = ElementsOf(events) /\ QueuedEvents \cap BatchEvents = {}
      /\ (QueuedEvents \cup BatchEvents) \cap (givenUp \cup overflowed) = {}
  BY AnalyticsAssumption
     DEF AnalyticsInv, AnalyticsTypeOK, EachOnce, NoEventVanishes, QueuedEvents, ElementsOf
<1>2. CASE Accepted
  BY <1>1, <1>2, EndKeeps DEF Accepted
<1>3. CASE Retry
  <2>1. /\ Restored \in Seq(1..MaxEvents) /\ Len(Restored) <= MaxQueueSize
        /\ Distinct(Restored)
        /\ ElementsOf(Restored) \subseteq BatchEvents \cup QueuedEvents
    BY RestoredQueue
  <2>2. /\ EndFlush(Restored)
        /\ overflowed' = overflowed \cup ((BatchEvents \cup QueuedEvents) \ ElementsOf(Restored))
    BY <1>3 DEF Retry, Restore, ElementsOf
  <2>3. emitted' = emitted /\ givenUp' = givenUp /\ backoff' \in 1..MaxBackoff
    BY <1>1, <1>3 DEF Retry
  <2>4. received \subseteq received' /\ received' \subseteq received \cup BatchEvents
    BY <1>3 DEF Retry, ServerSide
  <2>5. /\ QueuedEvents \cup BatchEvents
              \subseteq ElementsOf(Restored) \cup received' \cup givenUp' \cup overflowed'
        /\ ElementsOf(Restored) \cap (givenUp' \cup overflowed') = {}
    BY <1>1, <2>1, <2>2, <2>3
  <2>6. QED
    BY <2>1, <2>2, <2>3, <2>4, <2>5, EndKeeps
<1>4. CASE GiveUp
  <2>1. /\ EndFlush(events) /\ givenUp' = givenUp \cup BatchEvents
        /\ emitted' = emitted /\ overflowed' = overflowed /\ backoff' \in 1..MaxBackoff
    BY <1>1, <1>4 DEF GiveUp
  <2>2. received \subseteq received' /\ received' \subseteq received \cup BatchEvents
    BY <1>4 DEF GiveUp, ServerSide
  <2>3. /\ QueuedEvents \cup BatchEvents
              \subseteq ElementsOf(events) \cup received' \cup givenUp' \cup overflowed'
        /\ ElementsOf(events) \cap (givenUp' \cup overflowed') = {}
    BY <1>1, <2>1
  <2>4. QED
    BY <1>1, <2>1, <2>2, <2>3, EndKeeps
<1>5. QED
  BY <1>2, <1>3, <1>4

LEMMA AnalyticsInvariant == AnalyticsSpec => []AnalyticsInv
<1>1. AnalyticsInit => AnalyticsInv
  BY InitialAnalytics
<1>2. AnalyticsInv /\ [AnalyticsNext]_analyticsVars => AnalyticsInv'
  <2> SUFFICES ASSUME AnalyticsInv, [AnalyticsNext]_analyticsVars PROVE AnalyticsInv'
    OBVIOUS
  <2>1. CASE Emit
    BY <2>1, EmitKeeps
  <2>2. CASE BatchTimer \/ FlushNow
    BY <2>2, FlushKeeps DEF BatchTimer, FlushNow
  <2>3. CASE Accepted \/ Retry \/ GiveUp
    BY <2>3, EndsKeep
  <2>4. CASE UNCHANGED analyticsVars
    <3>1. /\ emitted' = emitted /\ events' = events /\ batch' = batch /\ backoff' = backoff
          /\ isProcessing' = isProcessing /\ timeout' = timeout
          /\ received' = received /\ givenUp' = givenUp /\ overflowed' = overflowed
      BY <2>4 DEF analyticsVars, flushVars, fateVars
    <3>2. Emitted' = Emitted /\ QueuedEvents' = QueuedEvents /\ BatchEvents' = BatchEvents
      BY <3>1 DEF Emitted, QueuedEvents, BatchEvents
    <3>3. AnalyticsTypeOK' /\ QueueHasAttention'
      BY <3>1 DEF AnalyticsInv, AnalyticsTypeOK, QueueHasAttention
    <3>4. Distinct(events)' /\ Distinct(batch)'
      BY <3>1 DEF AnalyticsInv, EachOnce, Distinct
    <3>5. EachOnce' /\ NoEventVanishes'
      BY <3>1, <3>2, <3>4 DEF AnalyticsInv, EachOnce, NoEventVanishes
    <3>6. QED
      BY <3>3, <3>5 DEF AnalyticsInv
  <2>5. QED
    BY <2>1, <2>2, <2>3, <2>4 DEF AnalyticsNext
<1>3. QED
  BY <1>1, <1>2, PTL DEF AnalyticsSpec

-----------------------------------------------------------------------------
(* Whatever the server answers and whenever the timer and the callers of
   flush() come, the queue and the batch keep their maximum lengths. *)
THEOREM AnalyticsTypeCorrect == AnalyticsSpec => []AnalyticsTypeOK
  BY AnalyticsInvariant, PTL DEF AnalyticsInv

(* Events that wait always have a request under way or a timer set, and a timer
   is never set that could fire into a flush() which returns at once. *)
THEOREM AnalyticsAttention == AnalyticsSpec => []QueueHasAttention
  BY AnalyticsInvariant, PTL DEF AnalyticsInv

(* Every emitted event is accounted for: it waits, is being sent, was received,
   was given up with its batch or was dropped by a full queue; and nothing waits
   that was given up or dropped. *)
THEOREM AnalyticsNothingVanishes == AnalyticsSpec => []NoEventVanishes
  BY AnalyticsInvariant, PTL DEF AnalyticsInv

-----------------------------------------------------------------------------
(* ExtensionRpc. *)

Copies == RpcRequests \X (1..MaxSenders)

\* The disjuncts of RpcNext, each with its variables named.
LEMMA RpcCases ==
  ASSUME RpcNext, NEW P,
         AddSender => P, DestroyTransport => P,
         \A r \in RpcRequests : (SendRequest(r) => P) /\ (TimedOut(r) => P),
         \A c \in Copies : /\ Relayed(c) => P
                           /\ SenderFailed(c) => P
                           /\ AnswerLost(c) => P
                           /\ \A outcome \in {"resolved", "refused"} : Answered(c, outcome) => P
  PROVE  P
  BY DEF RpcNext, Copies

-----------------------------------------------------------------------------
\* Settling a request leaves a promise in each.
LEMMA SettleType ==
  ASSUME RpcTypeOK, NEW r \in RpcRequests,
         NEW outcome \in {"resolved", "refused", "rejected", "timed out"}, Settle(r, outcome)
  PROVE  promise' \in [RpcRequests -> {"none", "waiting", "resolved", "refused", "rejected", "timed out"}]
  BY DEF Settle, RpcTypeOK

\* Whatever a step does, the variables keep their types.
LEMMA RpcTypeStep ==
  ASSUME RpcTypeOK, [RpcNext]_rpcVars
  PROVE  RpcTypeOK'
<1> USE RpcAssumption DEF RpcAssumption
<1>0. CASE UNCHANGED rpcVars
  BY <1>0 DEF rpcVars, RpcTypeOK
<1>1. AddSender => RpcTypeOK'
  <2>1. AddSender => messageSenders' \in 1..MaxSenders
    <3> SUFFICES ASSUME AddSender PROVE messageSenders' \in 1..MaxSenders
      OBVIOUS
    <3>1. messageSenders \in 1..MaxSenders
      BY DEF RpcTypeOK
    <3>2. QED
      BY <3>1 DEF AddSender
  <2>2. QED
    BY <2>1 DEF AddSender, RpcTypeOK
<1>2. DestroyTransport => RpcTypeOK'
  BY DEF DestroyTransport, RpcTypeOK
<1>3. ASSUME NEW r \in RpcRequests
      PROVE  (SendRequest(r) => RpcTypeOK') /\ (TimedOut(r) => RpcTypeOK')
  <2>1. ASSUME SendRequest(r) PROVE RpcTypeOK'
    <3>1. relayed' \in SUBSET (RpcRequests \X (1..MaxSenders))
      <4>1. 1..messageSenders \subseteq 1..MaxSenders
        <5>1. messageSenders \in 1..MaxSenders
          BY DEF RpcTypeOK
        <5>2. QED
          BY <5>1
      <4>2. {r} \X (1..messageSenders) \subseteq RpcRequests \X (1..MaxSenders)
        BY <4>1
      <4>3. relayed \subseteq RpcRequests \X (1..MaxSenders)
        BY DEF RpcTypeOK
      <4>4. QED
        BY <2>1, <4>2, <4>3 DEF SendRequest
    <3>2. QED
      BY <2>1, <3>1 DEF SendRequest, RpcTypeOK
  <2>2. ASSUME TimedOut(r) PROVE RpcTypeOK'
    <3>1. CASE r \in pendingRequests
      BY <2>2, <3>1, SettleType DEF TimedOut, RpcTypeOK
    <3>2. CASE r \notin pendingRequests
      BY <2>2, <3>2 DEF TimedOut, RpcTypeOK
    <3>3. QED
      BY <3>1, <3>2
  <2>3. QED
    BY <2>1, <2>2
<1>4. ASSUME NEW c \in Copies
      PROVE  /\ Relayed(c) => RpcTypeOK'
             /\ SenderFailed(c) => RpcTypeOK'
             /\ AnswerLost(c) => RpcTypeOK'
             /\ \A outcome \in {"resolved", "refused"} : Answered(c, outcome) => RpcTypeOK'
  <2>1. c[1] \in RpcRequests
    BY <1>4 DEF Copies
  <2>2. Relayed(c) => RpcTypeOK'
    BY DEF Relayed, RpcTypeOK, Copies
  <2>3. ASSUME SenderFailed(c) PROVE RpcTypeOK'
    BY <2>1, <2>3, SettleType DEF SenderFailed, Forget, RpcTypeOK, Copies
  <2>4. AnswerLost(c) => RpcTypeOK'
    BY DEF AnswerLost, RpcTypeOK
  <2>5. ASSUME NEW outcome \in {"resolved", "refused"}, Answered(c, outcome)
        PROVE  RpcTypeOK'
    <3>1. CASE c[1] \in pendingRequests
      BY <2>1, <2>5, <3>1, SettleType DEF Answered, Forget, RpcTypeOK
    <3>2. CASE c[1] \notin pendingRequests
      BY <2>5, <3>2 DEF Answered, RpcTypeOK
    <3>3. QED
      BY <3>1, <3>2
  <2>6. QED
    BY <2>2, <2>3, <2>4, <2>5
<1>5. CASE RpcNext
  BY <1>1, <1>2, <1>3, <1>4, <1>5, RpcCases
<1>6. QED
  BY <1>0, <1>5

\* The variables of the transport (ExtensionTransport.ts) keep their types, for
\* any requests, senders and failures.
THEOREM RpcTypeCorrect == RpcSpec => []RpcTypeOK
<1>1. RpcInit => RpcTypeOK
  BY RpcAssumption DEF RpcAssumption, RpcInit, RpcTypeOK
<1>2. QED
  BY <1>1, RpcTypeStep, PTL DEF RpcSpec

-----------------------------------------------------------------------------
\* The end of a request: it leaves the map and its timer is gone.
LEMMA RequestEnds ==
  ASSUME RpcTypeOK, WaitingIsTimed, NEW r \in RpcRequests, UNCHANGED destroyed,
         NEW outcome \in {"resolved", "refused", "rejected", "timed out"}, Settle(r, outcome),
         pendingRequests' = pendingRequests \ {r}, timeouts' = timeouts \ {r}
  PROVE  WaitingIsTimed'
<1>1. \A q \in RpcRequests : promise'[q] = IF q = r /\ promise[q] = "waiting" THEN outcome ELSE promise[q]
  BY DEF Settle, RpcTypeOK
<1>2. WaitingRequests' = WaitingRequests \ {r}
  BY <1>1 DEF WaitingRequests
<1>3. QED
  BY <1>2 DEF WaitingIsTimed

\* A request that waits keeps its place in the map and its timer.
LEMMA WaitingStep ==
  ASSUME RpcTypeOK, WaitingIsTimed, [RpcNext]_rpcVars
  PROVE  WaitingIsTimed'
<1>0. CASE UNCHANGED rpcVars
  BY <1>0 DEF rpcVars, WaitingIsTimed, WaitingRequests
<1>1. AddSender => WaitingIsTimed'
  BY DEF AddSender, WaitingIsTimed, WaitingRequests
<1>2. DestroyTransport => WaitingIsTimed'
  BY DEF DestroyTransport, WaitingIsTimed, WaitingRequests
<1>3. ASSUME NEW r \in RpcRequests
      PROVE  (SendRequest(r) => WaitingIsTimed') /\ (TimedOut(r) => WaitingIsTimed')
  <2>1. ASSUME SendRequest(r) PROVE WaitingIsTimed'
    <3>1. \A q \in RpcRequests : promise'[q] = IF q = r THEN "waiting" ELSE promise[q]
      BY <2>1 DEF SendRequest, RpcTypeOK
    <3>2. WaitingRequests' = WaitingRequests \cup {r}
      BY <3>1 DEF WaitingRequests
    <3>3. QED
      BY <2>1, <3>2 DEF SendRequest, WaitingIsTimed
  <2>2. ASSUME TimedOut(r) PROVE WaitingIsTimed'
    <3>1. r \in pendingRequests
      BY <2>2 DEF TimedOut, WaitingIsTimed
    <3>2. QED
      BY <2>2, <3>1, RequestEnds DEF TimedOut
  <2>3. QED
    BY <2>1, <2>2
<1>4. ASSUME NEW c \in Copies
      PROVE  /\ Relayed(c) => WaitingIsTimed'
             /\ SenderFailed(c) => WaitingIsTimed'
             /\ AnswerLost(c) => WaitingIsTimed'
             /\ \A outcome \in {"resolved", "refused"} : Answered(c, outcome) => WaitingIsTimed'
  <2>1. c[1] \in RpcRequests
    BY <1>4 DEF Copies
  <2>2. Relayed(c) => WaitingIsTimed'
    BY DEF Relayed, WaitingIsTimed, WaitingRequests
  <2>3. SenderFailed(c) => WaitingIsTimed'
    BY <2>1, RequestEnds DEF SenderFailed, Forget
  <2>4. AnswerLost(c) => WaitingIsTimed'
    BY DEF AnswerLost, WaitingIsTimed, WaitingRequests
  <2>5. ASSUME NEW outcome \in {"resolved", "refused"}, Answered(c, outcome)
        PROVE  WaitingIsTimed'
    <3>1. CASE c[1] \in pendingRequests
      BY <2>1, <2>5, <3>1, RequestEnds DEF Answered, Forget
    <3>2. CASE c[1] \notin pendingRequests
      BY <2>5, <3>2 DEF Answered, WaitingIsTimed, WaitingRequests
    <3>3. QED
      BY <3>1, <3>2
  <2>6. QED
    BY <2>2, <2>3, <2>4, <2>5
<1>5. CASE RpcNext
  BY <1>1, <1>2, <1>3, <1>4, <1>5, RpcCases
<1>6. QED
  BY <1>0, <1>5

\* Whatever order senders, answers, timers and destroy() come in, a request
\* that waits has its timer, and one that is settled has left none behind
\* (send, handleResponse and destroy of ExtensionTransport.ts).
THEOREM RpcWaitingIsTimed == RpcSpec => []WaitingIsTimed
<1>1. RpcInit => WaitingIsTimed
  BY DEF RpcInit, WaitingIsTimed, WaitingRequests
<1>2. QED
  BY <1>1, RpcTypeCorrect, WaitingStep, PTL DEF RpcSpec

-----------------------------------------------------------------------------
(* The parts side by side. *)

\* A behaviour of the five parts side by side is a behaviour of each of them:
\* what is proved of a part holds of the composition, whatever the others do.
THEOREM EdgesRunTheirParts ==
  FairEdgesSpec =>
      StreamingSpec /\ AnalyticsSpec /\ RpcSpec /\ RequestsSpec /\ Store!StoreSpec
<1>1. EdgesInit =>
          StreamingInit /\ AnalyticsInit /\ RpcInit /\ RequestsInit /\ Store!StoreInit
  BY DEF EdgesInit
<1>2. [EdgesNext]_<<part, streamingVars, analyticsVars, rpcVars, requestVars, theStoreVars>>
      => /\ [StreamingNext]_streamingVars /\ [AnalyticsNext]_analyticsVars
         /\ [RpcNext]_rpcVars /\ [RequestsNext]_requestVars
         /\ [Store!StoreNext]_(Store!storeVars)
  BY DEF EdgesNext, theStoreVars, Store!storeVars, Store!callVars
<1>3. QED
  BY <1>1, <1>2, PTL
     DEF FairEdgesSpec, StreamingSpec, AnalyticsSpec, RpcSpec, RequestsSpec, Store!StoreSpec

\* The variables of analytics and the injected bridge keep their types.
THEOREM EdgesTypeCorrect == FairEdgesSpec => []EdgesTypeOK
  BY EdgesRunTheirParts, AnalyticsTypeCorrect, RpcTypeCorrect, PTL DEF EdgesTypeOK
=============================================================================
