------------------------------ MODULE Analytics ------------------------------
(* The queue of analytics events (AnalyticsManager.ts): batches, one request
   at a time, a timer, and what happens to a batch that is not accepted.  The
   events are numbered in the order they are emitted; the server is external.
   The generated client throws whatever answer is not a success, so that every
   refusal, 4xx and 429 included, ends in handleUnknownError. *)
EXTENDS Naturals, Sequences

CONSTANTS
    MaxEvents,      \* bound: events emitted
    MaxBatchSize,   \* maxBatchSize
    MaxQueueSize,   \* maxQueueSize
    MaxBackoff      \* MAX_BACKOFF_ATTEMPTS

ASSUME AnalyticsAssumption ==
    /\ MaxEvents \in Nat
    /\ MaxBatchSize \in Nat \ {0} /\ MaxQueueSize \in Nat \ {0} /\ MaxBackoff \in Nat \ {0}

VARIABLES
    emitted,        \* history: events emitted so far
    events,         \* the queue
    batch,          \* the events of the request under way
    isProcessing,
    timeout,        \* timeoutId is not null
    backoff,
    received,       \* history: events the server has
    givenUp,        \* history: events of batches that were given up
    overflowed      \* history: events dropped from a full queue

flushVars == <<batch, isProcessing>>
fateVars == <<received, givenUp, overflowed>>
analyticsVars == <<emitted, events, flushVars, timeout, backoff, fateVars>>

Emitted == 1..emitted
QueuedEvents == {events[i] : i \in DOMAIN events}
BatchEvents == {batch[i] : i \in DOMAIN batch}
Smaller(m, n) == IF m < n THEN m ELSE n

AnalyticsInit ==
    /\ emitted = 0 /\ events = <<>> /\ batch = <<>>
    /\ isProcessing = FALSE /\ timeout = FALSE /\ backoff = 1
    /\ received = {} /\ givenUp = {} /\ overflowed = {}

-----------------------------------------------------------------------------
(* flush() with the events of `queue`: up to a batch of them is taken out of
   the queue, and a request is sent. *)
Flush(queue) ==
    LET size == Smaller(Len(queue), MaxBatchSize)
    IN /\ ~isProcessing /\ queue # <<>>
       /\ timeout' = FALSE /\ isProcessing' = TRUE
       /\ batch' = SubSeq(queue, 1, size)
       /\ events' = SubSeq(queue, size + 1, Len(queue))

StartTimeout == timeout' = (timeout \/ ~isProcessing)

(* emit(): the oldest event leaves a queue that is too long; a full batch is
   sent at once, unless a request is under way. *)
Emit ==
    LET longer == Append(events, emitted + 1)
        overflow == Len(longer) > MaxQueueSize
        queue == IF overflow THEN Tail(longer) ELSE longer
        full == Len(queue) >= MaxBatchSize
    IN /\ emitted < MaxEvents /\ emitted' = emitted + 1
       /\ overflowed' = overflowed \cup (IF overflow THEN {Head(longer)} ELSE {})
       /\ \/ full /\ Flush(queue)
          \/ full /\ isProcessing /\ events' = queue /\ UNCHANGED <<flushVars, timeout>>
          \/ ~full /\ events' = queue /\ StartTimeout /\ UNCHANGED flushVars
       /\ UNCHANGED <<backoff, received, givenUp>>

\* The timer runs flush(), which anyone may also call.
BatchTimer ==
    /\ timeout
    /\ Flush(events)
    /\ UNCHANGED <<emitted, backoff, fateVars>>

FlushNow ==
    /\ Flush(events)
    /\ UNCHANGED <<emitted, backoff, fateVars>>

-----------------------------------------------------------------------------
\* Mutant of EndFlush: the timer is asked for before isProcessing is reset.
EndFlushEarly(queue) ==
    /\ isProcessing /\ isProcessing' = FALSE
    /\ events' = queue /\ batch' = <<>>
    /\ UNCHANGED timeout

(* The end of flush(), the queue being `queue`: isProcessing is reset before
   the timer is set. *)
EndFlush(queue) ==
    /\ isProcessing /\ isProcessing' = FALSE
    /\ events' = queue /\ batch' = <<>>
    /\ timeout' = (timeout \/ queue # <<>>)

\* Mutant of Restored: nothing is cut off.
RestoredWhole == batch \o events

(* restoreEvents(): the batch goes back to the head of the queue, and what is
   beyond the maximum is cut off at its end. *)
Restored == SubSeq(batch \o events, 1, Smaller(Len(batch \o events), MaxQueueSize))
Restore ==
    /\ EndFlush(Restored)
    /\ overflowed' = overflowed \cup ((BatchEvents \cup QueuedEvents) \ {Restored[i] : i \in DOMAIN Restored})

Accepted ==
    /\ EndFlush(events)
    /\ received' = received \cup BatchEvents
    /\ UNCHANGED <<emitted, backoff, givenUp, overflowed>>

\* The server may have the batch though its answer is an error or is lost.
ServerSide == \E got \in {{}, BatchEvents} : received' = received \cup got

\* Mutant of Retry: the batch is not put back.
RetryRest ==
    /\ backoff < MaxBackoff /\ backoff' = backoff + 1
    /\ EndFlush(events) /\ ServerSide
    /\ UNCHANGED <<emitted, givenUp, overflowed>>

\* Mutant of GiveUp: the delay starts anew, with the batch put back.
GiveUpNothing ==
    /\ backoff >= MaxBackoff /\ backoff' = 1
    /\ Restore /\ ServerSide
    /\ UNCHANGED <<emitted, givenUp>>

(* handleUnknownError(): the delay grows and the batch is put back; once the
   delay is at its limit the batch is dropped and the delay reset.  A batch
   that is accepted leaves the delay as it is. *)
Retry ==
    /\ backoff < MaxBackoff /\ backoff' = backoff + 1
    /\ Restore /\ ServerSide
    /\ UNCHANGED <<emitted, givenUp>>

GiveUp ==
    /\ backoff >= MaxBackoff /\ backoff' = 1
    /\ EndFlush(events) /\ ServerSide
    /\ givenUp' = givenUp \cup BatchEvents
    /\ UNCHANGED <<emitted, overflowed>>

AnalyticsNext == Emit \/ BatchTimer \/ FlushNow \/ Accepted \/ Retry \/ GiveUp

\* The timer fires, and a request is answered or fails.
AnalyticsFairness ==
    WF_analyticsVars(BatchTimer) /\ WF_analyticsVars(Accepted \/ Retry \/ GiveUp)
AnalyticsSpec == AnalyticsInit /\ [][AnalyticsNext]_analyticsVars
FairAnalyticsSpec == AnalyticsSpec /\ AnalyticsFairness

-----------------------------------------------------------------------------
(* The types of the variables; neither the queue nor a batch is longer than
   its maximum. *)
AnalyticsTypeOK ==
    /\ emitted \in 0..MaxEvents
    /\ events \in Seq(1..MaxEvents) /\ Len(events) <= MaxQueueSize
    /\ batch \in Seq(1..MaxEvents) /\ Len(batch) <= MaxBatchSize
    /\ isProcessing \in BOOLEAN /\ timeout \in BOOLEAN
    /\ backoff \in 1..MaxBackoff
    /\ received \in SUBSET (1..MaxEvents) /\ givenUp \in SUBSET (1..MaxEvents)
    /\ overflowed \in SUBSET (1..MaxEvents)

(* Events in the queue are always attended to: a request is under way, whose
   end looks at the queue again, or the timer is set.  And a timer is never
   left set without events, or beside a request: it would fire into a flush()
   that returns at once, and since nothing but flush() clears timeoutId, no
   timer would ever be set again. *)
QueueHasAttention ==
    /\ events # <<>> => isProcessing \/ timeout
    /\ timeout => ~isProcessing /\ events # <<>>

(* Every event is somewhere: waiting, being sent, received, given up or dropped
   by a full queue; and no event waits that was given up or dropped. *)
NoEventVanishes ==
    /\ Emitted = QueuedEvents \cup BatchEvents \cup received \cup givenUp \cup overflowed
    /\ (QueuedEvents \cup BatchEvents) \cap (givenUp \cup overflowed) = {}

(* Once no more events come, the queue is empty in the end, also when the
   server never accepts anything: the attempts are bounded. *)
QueueDrains == (emitted = MaxEvents) ~> (events = <<>> /\ batch = <<>>)
=============================================================================
