------------------------- MODULE RequestQueueProofs -------------------------
(***************************************************************************)
(* Theorems about RequestQueue, for any set of requests, of any kinds, and *)
(* any size of the queue.                                                  *)
(***************************************************************************)
EXTENDS RequestQueue, SequenceFacts

\* A modal shows requests of its kind.
ModalsByKind == \A k \in Kinds : pending[k] # NoRequest => KindOf[pending[k]] = k

\* Nothing is shown, queued, handled or broadcast that has not arrived.
ArrivedFirst ==
    \A r \in Requests :
        r \in InQueue \/ r \in OnScreen \/ UnderWay(r) \/ r \in queueHistory.sent =>
            r \in queueHistory.arrived

\* Of the requests in the queue only the current one is decided on.
OnlyCurrent == \A r \in InQueue : r \in OnScreen \/ UnderWay(r) => r = current

\* A transaction that was broadcast is not signed again: once its approval has
\* ended, it is neither queued nor on the screen.
SentIsOver ==
    /\ \A r \in queueHistory.sent :
          /\ approving[r] # "signing"
          /\ approving[r] = "no" => r \notin OnScreen /\ r \notin InQueue
    /\ BroadcastOnce

\* Until there is trouble, all that happens is about the current request.
Orderly ==
    /\ OnScreen \subseteq {current}
    /\ \A r \in Requests :
          /\ UnderWay(r) => r = current
          /\ approving[r] # "no" => rejecting[r] = 0
          /\ rejecting[r] <= 1
    /\ queueHistory.cutOff = {}

RequestInv ==
    /\ ModalsByKind
    /\ ArrivedFirst
    /\ OnlyCurrent
    /\ ShownIsOnScreen
    /\ SentIsOver
    /\ queueHistory.doubled = {} /\ queueHistory.troubles = 0 => Orderly

-----------------------------------------------------------------------------
(* Keep: what it computes, by its least counterexample.                    *)

\* The function Keep computes with is there for every queue.
LEMMA KeepComputes ==
  ASSUME NEW S, NEW q \in Seq(S), NEW kept
  PROVE  \E upTo : /\ Keep(q, kept) = upTo[Len(q)]
                   /\ upTo[0] = <<>>
                   /\ \A n \in 1..Len(q) :
                        upTo[n] = IF q[n] \in kept THEN Append(upTo[n - 1], q[n]) ELSE upTo[n - 1]
<1> DEFINE Body(f, n) == IF n = 0 THEN <<>>
                         ELSE IF q[n] \in kept THEN Append(f[n - 1], q[n]) ELSE f[n - 1]
           Defined(m) == \E f : f = [n \in 0..m |-> Body(f, n)]
           Undefined == {m \in 0..Len(q) : ~Defined(m)}
<1>1. Len(q) \in Nat
  BY LenProperties
<1>2. Defined(0)
  <2> DEFINE f == [n \in 0..0 |-> <<>>]
  <2>1. f = [n \in 0..0 |-> Body(f, n)]
    OBVIOUS
  <2>2. QED
    BY <2>1
<1>3. ASSUME NEW m \in 1..Len(q), Defined(m - 1)
      PROVE  Defined(m)
  <2>1. PICK f : \A n \in 0..(m - 1) : f[n] = Body(f, n)
    <3>1. PICK f : f = [n \in 0..(m - 1) |-> Body(f, n)]
      BY <1>3
    <3> HIDE DEF Body
    <3>2. \A n \in 0..(m - 1) : f[n] = Body(f, n)
      BY <3>1
    <3>3. QED
      BY <3>2
  <2> DEFINE g == [n \in 0..m |-> IF n = m THEN Body(f, m) ELSE f[n]]
  <2>2. \A n \in 0..m : g[n] = Body(g, n)
    <3> SUFFICES ASSUME NEW n \in 0..m
                 PROVE  g[n] = Body(g, n)
      OBVIOUS
    <3>1. n # 0 => n - 1 \in 0..(m - 1) /\ g[n - 1] = f[n - 1]
      BY <1>1
    <3>2. n # m => n \in 0..(m - 1) /\ f[n] = Body(f, n)
      BY <1>1, <2>1
    <3>3. QED
      BY <3>1, <3>2
  <2> HIDE DEF Body
  <2>3. g = [n \in 0..m |-> Body(g, n)]
    BY <2>2
  <2>4. QED
    BY <2>3
<1> HIDE DEF Defined
<1>4. Undefined = {}
  <2> SUFFICES ASSUME Undefined # {}
               PROVE  FALSE
    OBVIOUS
  <2>1. PICK m \in Undefined : \A k \in Undefined : m <= k
    <3>1. Undefined \subseteq Nat
      BY <1>1
    <3> HIDE DEF Undefined
    <3>2. QED
      BY <3>1, Least
  <2>2. m \in 1..Len(q) /\ m - 1 \in 0..Len(q) /\ ~(m <= m - 1)
    BY <1>1, <1>2, <2>1
  <2>3. Defined(m - 1)
    BY <2>1, <2>2
  <2>4. QED
    BY <1>3, <2>1, <2>2, <2>3
<1>5. Defined(Len(q))
  BY <1>1, <1>4
<1> DEFINE upTo == CHOOSE f : f = [n \in 0..Len(q) |-> Body(f, n)]
<1>6. upTo = [n \in 0..Len(q) |-> Body(upTo, n)]
  BY <1>5 DEF Defined
<1>7. Keep(q, kept) = upTo[Len(q)]
  BY DEF Keep
<1> HIDE DEF upTo
<1>8. \A n \in 0..Len(q) : upTo[n] = Body(upTo, n)
  <2> HIDE DEF Body
  <2>1. QED
    BY <1>6
<1>9. QED
  BY <1>1, <1>7, <1>8

\* It keeps, of the elements of the queue, those in the set.
LEMMA KeepFacts ==
  ASSUME NEW S, NEW q \in Seq(S), NEW kept
  PROVE  /\ Keep(q, kept) \in Seq(S)
         /\ Len(Keep(q, kept)) <= Len(q)
         /\ Range(Keep(q, kept)) = Range(q) \cap kept
<1> DEFINE Of(s) == {s[i] : i \in 1..Len(s)}
           Passed(n) == {q[i] : i \in 1..n}
<1>1. Len(q) \in Nat /\ \A i \in 1..Len(q) : q[i] \in S
  BY LenProperties, ElementOfSeq
<1>2. PICK upTo : /\ Keep(q, kept) = upTo[Len(q)]
                  /\ upTo[0] = <<>>
                  /\ \A n \in 1..Len(q) :
                       upTo[n] = IF q[n] \in kept THEN Append(upTo[n - 1], q[n]) ELSE upTo[n - 1]
  BY KeepComputes
<1> DEFINE Right(n) == /\ upTo[n] \in Seq(S) /\ Len(upTo[n]) <= n
                       /\ Of(upTo[n]) = Passed(n) \cap kept
           Wrong == {n \in 0..Len(q) : ~Right(n)}
<1>3. Right(0)
  <2>1. upTo[0] \in Seq(S) /\ Len(upTo[0]) = 0
    BY <1>2
  <2>2. Of(upTo[0]) = {} /\ Passed(0) = {}
    BY <2>1
  <2>3. QED
    BY <2>1, <2>2
<1>4. ASSUME NEW n \in 1..Len(q), Right(n - 1)
      PROVE  Right(n)
  <2>1. Passed(n) = Passed(n - 1) \cup {q[n]}
    <3>1. 1..n = (1..(n - 1)) \cup {n}
      BY <1>1
    <3>2. QED
      BY <3>1
  <2>2. CASE q[n] \notin kept
    <3>1. upTo[n] = upTo[n - 1]
      BY <1>2, <2>2
    <3>2. Of(upTo[n]) = Passed(n) \cap kept
      BY <1>4, <2>1, <2>2, <3>1
    <3>3. upTo[n] \in Seq(S) /\ Len(upTo[n]) <= n
      BY <1>1, <1>4, <3>1, LenProperties
    <3>4. QED
      BY <3>2, <3>3
  <2>3. CASE q[n] \in kept
    <3> DEFINE t == upTo[n - 1]
    <3>1. upTo[n] = Append(t, q[n]) /\ q[n] \in S /\ t \in Seq(S) /\ Len(t) <= n - 1
      BY <1>1, <1>2, <1>4, <2>3
    <3> HIDE DEF t
    <3>2. /\ upTo[n] \in Seq(S) /\ Len(t) \in Nat /\ Len(upTo[n]) = Len(t) + 1
          /\ \A i \in 1..Len(t) : upTo[n][i] = t[i]
          /\ upTo[n][Len(t) + 1] = q[n]
      BY <3>1, AppendProperties, LenProperties
    <3>3. 1..Len(upTo[n]) = (1..Len(t)) \cup {Len(t) + 1}
      BY <3>2
    <3>4. Of(upTo[n]) = Of(t) \cup {q[n]}
      BY <3>2, <3>3
    <3>5. Of(t) = Passed(n - 1) \cap kept
      BY <1>4 DEF t
    <3>6. Of(upTo[n]) = Passed(n) \cap kept
      BY <2>1, <2>3, <3>4, <3>5
    <3>7. Len(upTo[n]) <= n
      BY <1>1, <3>1, <3>2
    <3>8. QED
      BY <3>2, <3>6, <3>7
  <2>4. QED
    BY <2>2, <2>3
<1> HIDE DEF Right
<1>5. Wrong = {}
  <2> SUFFICES ASSUME Wrong # {}
               PROVE  FALSE
    OBVIOUS
  <2>1. PICK m \in Wrong : \A k \in Wrong : m <= k
    <3>1. Wrong \subseteq Nat
      BY <1>1
    <3> HIDE DEF Wrong
    <3>2. QED
      BY <3>1, Least
  <2>2. m \in 1..Len(q) /\ m - 1 \in 0..Len(q) /\ ~(m <= m - 1)
    BY <1>1, <1>3, <2>1
  <2>3. Right(m - 1)
    BY <2>1, <2>2
  <2>4. QED
    BY <1>4, <2>1, <2>2, <2>3
<1>6. Right(Len(q))
  BY <1>1, <1>5
<1>7. \A s \in Seq(S) : Range(s) = Of(s)
  <2>1. \A s \in Seq(S) : DOMAIN s = 1..Len(s)
    BY LenProperties
  <2>2. QED
    BY <2>1 DEF Range
<1>8. QED
  BY <1>2, <1>6, <1>7 DEF Right
-----------------------------------------------------------------------------
(* The queue and the screen, after a step.                                 *)

LEMMA QueueRange ==
  ASSUME NEW S, NEW q \in Seq(S)
  PROVE  /\ Len(q) \in Nat /\ DOMAIN q = 1..Len(q) /\ Range(q) \subseteq S
         /\ q # <<>> => Len(q) > 0 /\ Head(q) = q[1] /\ Head(q) \in Range(q)
         /\ \A r \in S : Append(q, r) \in Seq(S) /\ Len(Append(q, r)) = Len(q) + 1
                         /\ Range(Append(q, r)) \subseteq Range(q) \cup {r}
<1>1. Len(q) \in Nat /\ DOMAIN q = 1..Len(q) /\ \A i \in 1..Len(q) : q[i] \in S
  BY LenProperties, ElementOfSeq
<1>2. Range(q) \subseteq S
  BY <1>1 DEF Range
<1>3. q # <<>> => Len(q) > 0 /\ Head(q) = q[1] /\ Head(q) \in Range(q)
  <2>1. q # <<>> => Len(q) > 0 /\ Head(q) = q[1]
    BY <1>1, EmptySeq, HeadTailProperties
  <2>2. Len(q) > 0 => 1 \in 1..Len(q)
    BY <1>1
  <2>3. QED
    BY <1>1, <2>1, <2>2 DEF Range
<1>4. ASSUME NEW r \in S
      PROVE  /\ Append(q, r) \in Seq(S) /\ Len(Append(q, r)) = Len(q) + 1
             /\ Range(Append(q, r)) \subseteq Range(q) \cup {r}
  <2>1. /\ Append(q, r) \in Seq(S) /\ Len(Append(q, r)) = Len(q) + 1
        /\ \A i \in 1..Len(q) : Append(q, r)[i] = q[i]
        /\ Append(q, r)[Len(q) + 1] = r
    BY AppendProperties
  <2>2. DOMAIN Append(q, r) = 1..(Len(q) + 1)
    BY <2>1, LenProperties
  <2>3. \A i \in 1..(Len(q) + 1) : i \in 1..Len(q) \/ i = Len(q) + 1
    BY <1>1
  <2>4. QED
    BY <1>1, <2>1, <2>2, <2>3 DEF Range
<1>5. QED
  BY <1>1, <1>2, <1>3, <1>4

\* Nothing new is shown, and the modals are those of `screen`.
Stays(showing, screen) ==
    /\ isShowing' = showing /\ pending' = screen
    /\ current' = IF showing THEN current ELSE NoRequest

\* The first request of the queue is put on the screen.
Shows(screen) ==
    /\ isShowing' = TRUE
    /\ current' \in Requests /\ current' \in Range(items')
    /\ pending' = [screen EXCEPT ![KindOf[current']] = current']

\* What is left in the queue is among the requests `from`.
Moves(from, showing, screen) ==
    /\ items' \in Seq(Requests) /\ Len(items') <= MaxQueue /\ Range(items') \subseteq from
    /\ Stays(showing, screen) \/ (~showing /\ Shows(screen))

LEMMA ShowNextMoves ==
  ASSUME NEW queue \in Seq(Requests), Len(queue) <= MaxQueue, NEW screen, ShowNext(queue, screen)
  PROVE  Moves(Range(queue), FALSE, screen)
<1> DEFINE live == {i \in DOMAIN queue : ~Expired(queue[i])}
           rest == IF live = {} THEN <<>> ELSE SubSeq(queue, Min(live), Len(queue))
<1>1. /\ items' = rest /\ isShowing' = (rest # <<>>)
      /\ current' = IF rest = <<>> THEN NoRequest ELSE Head(rest)
      /\ pending' = IF rest = <<>> THEN screen ELSE [screen EXCEPT ![KindOf[Head(rest)]] = Head(rest)]
  BY DEF ShowNext
<1>2. /\ Len(queue) \in Nat /\ DOMAIN queue = 1..Len(queue)
      /\ \A i \in 1..Len(queue) : queue[i] \in Requests
  BY QueueRange, ElementOfSeq
<1>3. rest \in Seq(Requests) /\ Len(rest) <= Len(queue) /\ Range(rest) \subseteq Range(queue)
  <2>1. CASE live = {}
    <3>1. rest = <<>> /\ rest \in Seq(Requests) /\ Len(rest) = 0
      BY <2>1
    <3> HIDE DEF rest
    <3>2. DOMAIN rest = {}
      BY <3>1, QueueRange
    <3>3. Range(rest) = {}
      BY <3>2 DEF Range
    <3>4. QED
      BY <1>2, <3>1, <3>3
  <2>2. CASE live # {}
    <3>1. live \subseteq Nat /\ live \subseteq 1..Len(queue)
      BY <1>2
    <3> DEFINE m == Min(live)
    <3>2. m \in live
      <4>1. \E x \in live : \A y \in live : x <= y
        BY <2>2, <3>1, Least
      <4> HIDE DEF live
      <4>2. QED
        BY <4>1 DEF Min
    <3>3. m \in 1..Len(queue) /\ rest = SubSeq(queue, m, Len(queue))
      BY <2>2, <3>1, <3>2
    <3> HIDE DEF m, live, rest
    <3>4. /\ rest \in Seq(Requests) /\ Len(rest) = Len(queue) - m + 1
          /\ \A i \in 1..(Len(queue) - m + 1) : rest[i] = queue[m + i - 1]
      <4>1. \A i \in m..Len(queue) : queue[i] \in Requests
        BY <1>2, <3>3
      <4>2. m \in Int /\ Len(queue) \in Int /\ m <= Len(queue) + 1 /\ m..Len(queue) \subseteq DOMAIN queue
        BY <1>2, <3>3
      <4>3. QED
        BY <1>2, <3>3, <4>1, <4>2, SubSeqProperties
    <3>5. DOMAIN rest = 1..(Len(queue) - m + 1)
      BY <3>4, LenProperties
    <3>6. \A i \in 1..(Len(queue) - m + 1) : m + i - 1 \in 1..Len(queue)
      BY <1>2, <3>3
    <3>7. Range(rest) \subseteq Range(queue)
      BY <1>2, <3>4, <3>5, <3>6 DEF Range
    <3>8. QED
      BY <1>2, <3>3, <3>4, <3>7
  <2>3. QED
    BY <2>1, <2>2
<1> HIDE DEF rest
<1>4. Len(rest) <= MaxQueue
  BY <1>2, <1>3, QueueRange, QueueAssumption
<1>5. CASE rest = <<>>
  BY <1>1, <1>3, <1>4, <1>5 DEF Moves, Stays
<1>6. CASE rest # <<>>
  <2>1. Head(rest) \in Range(rest) /\ Head(rest) \in Requests
    BY <1>3, <1>6, QueueRange
  <2>2. QED
    BY <1>1, <1>3, <1>4, <1>6, <2>1 DEF Moves, Shows
<1>7. QED
  BY <1>5, <1>6

LEMMA EnqueueMoves ==
  ASSUME NEW r \in Requests, NEW queue \in Seq(Requests), Len(queue) <= MaxQueue,
         NEW showing \in BOOLEAN, NEW screen, Enqueue(r, queue, showing, screen)
  PROVE  Moves(Range(queue) \cup {r}, showing, screen)
<1> DEFINE open == IF Full(queue) THEN Unexpired(queue) ELSE queue
<1>1. open \in Seq(Requests) /\ Len(open) <= MaxQueue /\ Range(open) \subseteq Range(queue)
  <2>1. /\ Unexpired(queue) \in Seq(Requests) /\ Len(Unexpired(queue)) <= Len(queue)
        /\ Range(Unexpired(queue)) \subseteq Range(queue)
    BY KeepFacts DEF Unexpired
  <2>2. Len(Unexpired(queue)) <= MaxQueue
    BY <2>1, QueueRange, QueueAssumption
  <2>3. QED
    BY <2>1, <2>2
<1>2. /\ Full(open) \/ showing =>
            /\ items' = IF Full(open) THEN open ELSE Append(open, r)
            /\ isShowing' = showing /\ pending' = screen
            /\ current' = IF showing THEN current ELSE NoRequest
      /\ ~(Full(open) \/ showing) => ShowNext(Append(open, r), screen)
  BY DEF Enqueue
<1> HIDE DEF open
<1>3. ~Full(open) => /\ Append(open, r) \in Seq(Requests) /\ Len(Append(open, r)) <= MaxQueue
                     /\ Range(Append(open, r)) \subseteq Range(queue) \cup {r}
  BY <1>1, QueueRange, QueueAssumption DEF Full
<1>4. CASE Full(open) \/ showing
  <2>1. Stays(showing, screen)
    BY <1>2, <1>4 DEF Stays
  <2>2. items' \in Seq(Requests) /\ Len(items') <= MaxQueue /\ Range(items') \subseteq Range(queue) \cup {r}
    BY <1>1, <1>2, <1>3, <1>4
  <2>3. QED
    BY <2>1, <2>2 DEF Moves
<1>5. CASE ~(Full(open) \/ showing)
  <2>1. Moves(Range(Append(open, r)), FALSE, screen)
    BY <1>2, <1>3, <1>5, ShowNextMoves
  <2>2. QED
    BY <1>3, <1>5, <2>1 DEF Moves
<1>6. QED
  BY <1>4, <1>5

\* The current request leaves the queue, and the embedded one enters it.
LEMMA ClearCurrentMoves ==
  ASSUME RequestsTypeOK, NEW screen, NEW next \in Slot, ClearCurrent(screen, next)
  PROVE  /\ Moves((InQueue \ {current}) \cup ({next} \ {NoRequest}), FALSE, screen)
         /\ closeTimers' \in Nat
<1> DEFINE waiting == Keep(items, Requests \ {current})
<1>1. /\ waiting \in Seq(Requests) /\ Len(waiting) <= MaxQueue
      /\ Range(waiting) \subseteq InQueue \ {current}
  <2>1. /\ waiting \in Seq(Requests) /\ Len(waiting) <= Len(items)
        /\ Range(waiting) = Range(items) \cap (Requests \ {current})
    BY KeepFacts DEF RequestsTypeOK
  <2>2. Len(waiting) <= MaxQueue
    BY <2>1, QueueRange, QueueAssumption DEF RequestsTypeOK
  <2>3. QED
    BY <2>1, <2>2 DEF InQueue, Range
<1>2. /\ next = NoRequest => items' = waiting /\ current' = NoRequest /\ isShowing' = FALSE /\ pending' = screen
      /\ next # NoRequest => Enqueue(next, waiting, FALSE, screen)
      /\ closeTimers' = closeTimers + 1
  BY DEF ClearCurrent
<1>3. closeTimers' \in Nat
  BY <1>2 DEF RequestsTypeOK
<1> HIDE DEF waiting
<1>4. CASE next = NoRequest
  BY <1>1, <1>2, <1>3, <1>4 DEF Moves, Stays
<1>5. CASE next # NoRequest
  <2>1. Moves(Range(waiting) \cup {next}, FALSE, screen)
    BY <1>1, <1>2, <1>5, EnqueueMoves DEF Slot
  <2>2. QED
    BY <1>1, <1>3, <1>5, <2>1 DEF Moves
<1>6. QED
  BY <1>4, <1>5

LEMMA ProcessMoves ==
  ASSUME RequestsTypeOK, ProcessNextRequest
  PROVE  /\ Moves(InQueue, isShowing, pending) \/ UNCHANGED screenVars
         /\ ~isShowing => Moves(InQueue, isShowing, pending)
         /\ isShowing => UNCHANGED <<screenVars, queueHistory>>
         /\ ~isShowing => queueHistory' = [queueHistory EXCEPT !.cutOff = @ \cup CutOff(NoRequest)]
<1>1. CASE isShowing
  BY <1>1 DEF ProcessNextRequest
<1>2. CASE ~isShowing
  <2>1. ShowNext(items, pending) /\ queueHistory' = [queueHistory EXCEPT !.cutOff = @ \cup CutOff(NoRequest)]
    BY <1>2 DEF ProcessNextRequest
  <2>2. Moves(Range(items), FALSE, pending)
    BY <2>1, ShowNextMoves DEF RequestsTypeOK
  <2>3. isShowing = FALSE /\ Range(items) = InQueue
    BY <1>2 DEF RequestsTypeOK, InQueue, Range
  <2>4. QED
    BY <1>2, <2>1, <2>2, <2>3
<1>3. QED
  BY <1>1, <1>2
-----------------------------------------------------------------------------
(* Types. *)

HistoryType == [arrived : SUBSET Requests, expired : SUBSET Requests,
                cutOff : SUBSET Requests, doubled : SUBSET Requests,
                sent : SUBSET Requests, sentAgain : SUBSET Requests,
                troubles : 0..MaxTroubles]

LEMMA MovesType ==
  ASSUME RequestsTypeOK, NEW from, NEW showing \in BOOLEAN,
         NEW screen \in [Kinds -> Slot], Moves(from, showing, screen)
  PROVE  /\ items' \in Seq(Requests) /\ Len(items') <= MaxQueue
         /\ current' \in Slot /\ isShowing' \in BOOLEAN
         /\ pending' \in [Kinds -> Slot]
  BY DEF RequestsTypeOK, Moves, Stays, Shows, Slot

LEMMA SmallTypes ==
  ASSUME RequestsTypeOK
  PROVE  /\ \A own : CutOff(own) \in SUBSET Requests
         /\ \A r \in Requests : Cleared(r) \in [Kinds -> Slot]
         /\ \A r, screen : Unbusy(r, screen) => busy' \in [Kinds -> Slot]
         /\ [k \in Kinds |-> NoRequest] \in [Kinds -> Slot]
         /\ \A r \in Requests : KindOf[r] \in Kinds
<1>1. \A own : CutOff(own) \in SUBSET Requests
  BY DEF CutOff, OnScreen, RequestsTypeOK, Slot
<1>2. \A r \in Requests : KindOf[r] \in Kinds
  BY QueueAssumption
<1>3. \A r \in Requests : Cleared(r) \in [Kinds -> Slot]
  BY <1>2 DEF Cleared, RequestsTypeOK, Slot
<1>4. \A r, screen : Unbusy(r, screen) => busy' \in [Kinds -> Slot]
  BY DEF Unbusy, RequestsTypeOK, Slot
<1>5. QED
  BY <1>1, <1>2, <1>3, <1>4 DEF Slot

\* Each step adds to some histories and counts at most one trouble.
LEMMA HistoryTypes ==
  ASSUME RequestsTypeOK
  PROVE  /\ queueHistory \in HistoryType
         /\ \A r \in Requests :
              /\ [queueHistory EXCEPT !.arrived = @ \cup {r}] \in HistoryType
              /\ [queueHistory EXCEPT !.expired = @ \cup {r}] \in HistoryType
              /\ [queueHistory EXCEPT !.doubled = @ \cup {r}] \in HistoryType
              /\ [queueHistory EXCEPT !.sentAgain = @ \cup (queueHistory.sent \cap {r}),
                                      !.sent = @ \cup {r}] \in HistoryType
         /\ \A C \in SUBSET Requests :
              /\ [queueHistory EXCEPT !.cutOff = @ \cup C] \in HistoryType
              /\ \A R \in SUBSET Requests :
                   [queueHistory EXCEPT !.arrived = @ \cup R, !.cutOff = @ \cup C] \in HistoryType
         /\ queueHistory.troubles < MaxTroubles =>
              /\ [queueHistory EXCEPT !.troubles = @ + 1] \in HistoryType
              /\ [queueHistory EXCEPT !.troubles = @ + 1, !.sent = {}] \in HistoryType
              /\ \A r, C : C \in SUBSET Requests =>
                   [queueHistory EXCEPT !.troubles = @ + 1, !.sent = @ \ {r},
                                        !.cutOff = @ \cup C] \in HistoryType
<1>1. queueHistory \in HistoryType
  BY DEF RequestsTypeOK, HistoryType
<1>2. queueHistory.troubles < MaxTroubles => queueHistory.troubles + 1 \in 0..MaxTroubles
  BY <1>1, QueueAssumption DEF HistoryType
<1>3. QED
  BY <1>1, <1>2 DEF HistoryType

LEMMA RequestsTypeStep ==
  ASSUME RequestsTypeOK, [RequestsNext]_requestVars
  PROVE  RequestsTypeOK'
<1>1. ASSUME NEW r \in Requests, Arrive(r)
      PROVE  RequestsTypeOK'
  <2>1. UNCHANGED <<closeTimers, polling, busy, callVars>>
    BY <1>1 DEF Arrive
  <2>2. CASE /\ Enqueue(r, items, isShowing, pending)
             /\ queueHistory' = [queueHistory EXCEPT !.arrived = @ \cup {r},
                                                     !.cutOff = @ \cup CutOff(NoRequest)]
    <3>1. Moves(Range(items) \cup {r}, isShowing, pending)
      BY <2>2, EnqueueMoves DEF RequestsTypeOK
    <3>2. queueHistory' \in HistoryType
      BY <2>2, SmallTypes, HistoryTypes
    <3>3. /\ items' \in Seq(Requests) /\ Len(items') <= MaxQueue
          /\ current' \in Slot /\ isShowing' \in BOOLEAN /\ pending' \in [Kinds -> Slot]
      BY <3>1, MovesType DEF RequestsTypeOK
    <3>4. QED
      BY <2>1, <3>2, <3>3 DEF RequestsTypeOK, HistoryType, callVars
  <2>3. CASE /\ queueHistory' = [queueHistory EXCEPT !.arrived = @ \cup {r}]
             /\ UNCHANGED screenVars
    <3>1. queueHistory' \in HistoryType
      BY <2>3, HistoryTypes
    <3>2. QED
      BY <2>1, <2>3, <3>1 DEF RequestsTypeOK, HistoryType, screenVars, callVars
  <2>4. QED
    BY <1>1, <2>2, <2>3 DEF Arrive
<1>2. ASSUME NEW r \in Requests, Expire(r)
      PROVE  RequestsTypeOK'
  <2>1. queueHistory' \in HistoryType
    BY <1>2, HistoryTypes DEF Expire
  <2>2. QED
    BY <1>2, <2>1 DEF Expire, RequestsTypeOK, HistoryType, screenVars, callVars
<1>3. ASSUME NEW r \in Requests, PressApprove(r) \/ PressReject(r)
      PROVE  RequestsTypeOK'
  <2>1. queueHistory' \in HistoryType
    BY <1>3, HistoryTypes DEF PressApprove, PressReject, Pressed
  <2>2. approving' \in [Requests -> {"no", "signing", "sent"}] /\ busy' \in [Kinds -> Slot]
    BY <1>3, SmallTypes DEF PressApprove, PressReject, RequestsTypeOK, Slot
  <2>3. rejecting' \in [Requests -> 0..MaxRejects]
    <3>1. CASE UNCHANGED rejecting
      BY <3>1 DEF RequestsTypeOK
    <3>2. CASE rejecting[r] < MaxRejects /\ rejecting' = [rejecting EXCEPT ![r] = @ + 1]
      <4>1. rejecting[r] + 1 \in 0..MaxRejects
        BY <3>2, QueueAssumption DEF RequestsTypeOK
      <4>2. QED
        BY <3>2, <4>1 DEF RequestsTypeOK
    <3>3. QED
      BY <1>3, <3>1, <3>2 DEF PressApprove, PressReject
  <2>4. QED
    BY <1>3, <2>1, <2>2, <2>3
       DEF PressApprove, PressReject, RequestsTypeOK, HistoryType, screenVars
<1>4. ASSUME NEW r \in Requests, Broadcast(r)
      PROVE  RequestsTypeOK'
  <2>1. queueHistory' \in HistoryType
    BY <1>4, HistoryTypes DEF Broadcast
  <2>2. QED
    BY <1>4, <2>1 DEF Broadcast, RequestsTypeOK, HistoryType, screenVars
<1>5. ASSUME NEW r \in Requests, NEW screen \in [Kinds -> Slot], NEW next \in Slot,
             ClearCurrent(screen, next), Unbusy(r, screen), UNCHANGED polling,
             approving' \in [Requests -> {"no", "signing", "sent"}],
             rejecting' \in [Requests -> 0..MaxRejects], queueHistory' \in HistoryType
      PROVE  RequestsTypeOK'
  <2>1. /\ Moves((InQueue \ {current}) \cup ({next} \ {NoRequest}), FALSE, screen)
        /\ closeTimers' \in Nat
    BY <1>5, ClearCurrentMoves
  <2>2. /\ items' \in Seq(Requests) /\ Len(items') <= MaxQueue
        /\ current' \in Slot /\ isShowing' \in BOOLEAN /\ pending' \in [Kinds -> Slot]
    BY <2>1, MovesType
  <2>3. busy' \in [Kinds -> Slot]
    BY <1>5, SmallTypes
  <2>4. QED
    BY <1>5, <2>1, <2>2, <2>3 DEF RequestsTypeOK, HistoryType
<1>6. ASSUME NEW r \in Requests, ApproveSucceeds(r)
      PROVE  RequestsTypeOK'
  <2> DEFINE next == IF Embedded[r] \in queueHistory.arrived THEN NoRequest ELSE Embedded[r]
  <2>1. next \in Slot /\ {next} \ {NoRequest} \in SUBSET Requests
    BY QueueAssumption DEF Slot
  <2>2. /\ ClearCurrent(Cleared(r), next) /\ Unbusy(r, Cleared(r)) /\ UNCHANGED <<polling, rejecting>>
        /\ approving' = [approving EXCEPT ![r] = "no"]
        /\ queueHistory' = [queueHistory EXCEPT !.arrived = @ \cup ({next} \ {NoRequest}),
                                                !.cutOff = @ \cup CutOff(r)]
    BY <1>6 DEF ApproveSucceeds
  <2> HIDE DEF next
  <2>3. queueHistory' \in HistoryType
    BY <2>1, <2>2, SmallTypes, HistoryTypes
  <2>4. approving' \in [Requests -> {"no", "signing", "sent"}] /\ rejecting' \in [Requests -> 0..MaxRejects]
    BY <2>2 DEF RequestsTypeOK
  <2>5. QED
    BY <1>5, <2>1, <2>2, <2>3, <2>4, SmallTypes
<1>7. ASSUME NEW r \in Requests, ApproveFails(r)
      PROVE  RequestsTypeOK'
  <2>1. /\ ClearCurrent(pending, NoRequest) /\ Unbusy(r, pending) /\ UNCHANGED <<polling, rejecting>>
        /\ approving' = [approving EXCEPT ![r] = "no"]
    BY <1>7 DEF ApproveFails
  <2>2. queueHistory' \in HistoryType
    BY <1>7, SmallTypes, HistoryTypes DEF ApproveFails
  <2>3. /\ approving' \in [Requests -> {"no", "signing", "sent"}] /\ rejecting' \in [Requests -> 0..MaxRejects]
        /\ pending \in [Kinds -> Slot] /\ NoRequest \in Slot
    BY <2>1 DEF RequestsTypeOK, Slot
  <2>4. QED
    BY <1>5, <2>1, <2>2, <2>3
<1>8. ASSUME NEW r \in Requests, RejectEnds(r)
      PROVE  RequestsTypeOK'
  <2>1. /\ ClearCurrent(Cleared(r), NoRequest) /\ Unbusy(r, Cleared(r)) /\ UNCHANGED <<polling, approving>>
        /\ rejecting[r] > 0 /\ rejecting' = [rejecting EXCEPT ![r] = @ - 1]
    BY <1>8 DEF RejectEnds
  <2>2. queueHistory' \in HistoryType
    BY <1>8, SmallTypes, HistoryTypes DEF RejectEnds
  <2>3. rejecting' \in [Requests -> 0..MaxRejects]
    BY <2>1, QueueAssumption DEF RequestsTypeOK
  <2>4. approving' \in [Requests -> {"no", "signing", "sent"}] /\ NoRequest \in Slot
    BY <2>1 DEF RequestsTypeOK, Slot
  <2>5. QED
    BY <1>5, <2>1, <2>2, <2>3, <2>4, SmallTypes
<1>9. CASE CloseTimer \/ Poll
  <2>1. /\ ProcessNextRequest /\ UNCHANGED <<polling, busy, callVars>>
        /\ closeTimers' \in Nat
    BY <1>9 DEF CloseTimer, Poll, RequestsTypeOK
  <2>2. queueHistory' \in HistoryType
    <3>1. isShowing => UNCHANGED queueHistory
      BY <2>1, ProcessMoves
    <3>2. ~isShowing => queueHistory' = [queueHistory EXCEPT !.cutOff = @ \cup CutOff(NoRequest)]
      BY <2>1, ProcessMoves
    <3>3. QED
      BY <3>1, <3>2, SmallTypes, HistoryTypes
  <2>3. CASE UNCHANGED screenVars
    BY <2>1, <2>2, <2>3 DEF RequestsTypeOK, HistoryType, screenVars, callVars
  <2>4. CASE Moves(InQueue, isShowing, pending)
    <3>1. /\ items' \in Seq(Requests) /\ Len(items') <= MaxQueue
          /\ current' \in Slot /\ isShowing' \in BOOLEAN /\ pending' \in [Kinds -> Slot]
      BY <2>4, MovesType DEF RequestsTypeOK
    <3>2. QED
      BY <2>1, <2>2, <3>1 DEF RequestsTypeOK, HistoryType, callVars
  <2>5. QED
    BY <2>1, <2>3, <2>4, ProcessMoves
<1>10. CASE RestartWallet
  <2>1. items' \in Seq(Requests) /\ Len(items') <= MaxQueue
    <3>1. items' \in Seq(Requests) /\ Len(items') <= Len(items)
      BY <1>10, KeepFacts DEF RestartWallet, Unexpired, RequestsTypeOK
    <3>2. QED
      BY <3>1, QueueRange, QueueAssumption DEF RequestsTypeOK
  <2>2. queueHistory' \in HistoryType
    BY <1>10, HistoryTypes DEF RestartWallet
  <2>3. /\ current' \in Slot /\ isShowing' \in BOOLEAN /\ closeTimers' \in Nat /\ polling' \in BOOLEAN
        /\ pending' \in [Kinds -> Slot] /\ busy' \in [Kinds -> Slot]
    BY <1>10 DEF RestartWallet, Slot
  <2>4. approving' \in [Requests -> {"no", "signing", "sent"}] /\ rejecting' \in [Requests -> 0..MaxRejects]
    BY <1>10, QueueAssumption DEF RestartWallet
  <2>5. QED
    BY <2>1, <2>2, <2>3, <2>4 DEF RequestsTypeOK, HistoryType
<1>11. CASE Logout
  <2>1. queueHistory' \in HistoryType
    BY <1>11, HistoryTypes DEF Logout
  <2>2. busy' \in [Kinds -> Slot]
    BY <1>11, SmallTypes DEF Logout
  <2>3. items' \in Seq(Requests) /\ Len(items') <= MaxQueue
    BY <1>11, QueueAssumption DEF Logout
  <2>4. pending' \in [Kinds -> Slot] /\ current' \in Slot /\ isShowing' \in BOOLEAN
    BY <1>11 DEF Logout, RequestsTypeOK, Slot
  <2>5. QED
    BY <1>11, <2>1, <2>2, <2>3, <2>4 DEF Logout, RequestsTypeOK, HistoryType, callVars
<1>12. CASE UNCHANGED requestVars
  BY <1>12 DEF RequestsTypeOK, requestVars, screenVars, callVars
<1>13. QED
  BY <1>1, <1>2, <1>3, <1>4, <1>6, <1>7, <1>8, <1>9, <1>10, <1>11, <1>12 DEF RequestsNext

\* The variables of the queue keep their types, and the queue its maximum size.
THEOREM RequestsTypeCorrect == RequestsSpec => []RequestsTypeOK
<1>1. ASSUME RequestsInit
      PROVE  RequestsTypeOK
  <2>1. items \in Seq(Requests) /\ Len(items) <= MaxQueue
    BY <1>1, QueueAssumption DEF RequestsInit
  <2>2. queueHistory \in HistoryType
    BY <1>1, QueueAssumption DEF RequestsInit, HistoryInit, HistoryType
  <2>3. /\ approving \in [Requests -> {"no", "signing", "sent"}]
        /\ rejecting \in [Requests -> 0..MaxRejects]
    BY <1>1, QueueAssumption DEF RequestsInit
  <2>4. QED
    BY <1>1, <2>1, <2>2, <2>3 DEF RequestsInit, RequestsTypeOK, HistoryType, Slot
<1>2. RequestsTypeOK /\ [RequestsNext]_requestVars => RequestsTypeOK'
  BY RequestsTypeStep
<1>3. QED
  BY <1>1, <1>2, PTL DEF RequestsSpec
-----------------------------------------------------------------------------
(* What is on the screen, in the queue, and broadcast.                     *)

LEMMA ScreenAndQueue ==
  ASSUME RequestsTypeOK
  PROVE  /\ \A r \in Requests : r \in OnScreen <=> \E k \in Kinds : pending[k] = r
         /\ OnScreen \subseteq Requests /\ InQueue \subseteq Requests
         /\ InQueue = Range(items)
         /\ NoRequest \notin Requests
<1>1. NoRequest \notin Requests
  BY QueueAssumption
<1>2. InQueue = Range(items)
  BY DEF InQueue, Range
<1>3. InQueue \subseteq Requests
  BY <1>2, QueueRange DEF RequestsTypeOK
<1>4. OnScreen \subseteq Requests /\ \A r \in Requests : r \in OnScreen <=> \E k \in Kinds : pending[k] = r
  BY <1>1 DEF OnScreen, RequestsTypeOK, Slot
<1>5. QED
  BY <1>1, <1>2, <1>3, <1>4

LEMMA NextScreenAndQueue ==
  ASSUME RequestsTypeOK, RequestsTypeOK'
  PROVE  /\ \A r \in Requests : r \in OnScreen' <=> \E k \in Kinds : pending'[k] = r
         /\ OnScreen' \subseteq Requests /\ InQueue' \subseteq Requests
         /\ InQueue' = Range(items')
<1>1. InQueue' = Range(items')
  BY DEF InQueue, Range
<1>2. InQueue' \subseteq Requests
  BY <1>1, QueueRange DEF RequestsTypeOK
<1>3. OnScreen' \subseteq Requests /\ \A r \in Requests : r \in OnScreen' <=> \E k \in Kinds : pending'[k] = r
  BY QueueAssumption DEF OnScreen, RequestsTypeOK, Slot
<1>4. QED
  BY <1>1, <1>2, <1>3

\* What enters the queue has just arrived, what leaves it is not decided on.
Fair(from, showing) ==
    \A q \in from :
        \/ q \notin queueHistory.arrived /\ q \in queueHistory'.arrived
        \/ q \in InQueue /\ (~showing => q # current)

\* A step that keeps the screen, or empties it, and may show the next request.
LEMMA MovesInv ==
  ASSUME RequestsTypeOK, RequestsTypeOK', ModalsByKind, ArrivedFirst, OnlyCurrent, ShownIsOnScreen,
         NEW from, NEW showing \in BOOLEAN, NEW screen \in [Kinds -> Slot],
         Moves(from, showing, screen), Fair(from, showing),
         \A k \in Kinds : screen[k] \in {pending[k], NoRequest},
         showing => isShowing /\ screen = pending,
         queueHistory.arrived \subseteq queueHistory'.arrived,
         \A r \in Requests : UnderWay(r)' => UnderWay(r),
         queueHistory'.sent \subseteq queueHistory.sent
  PROVE  /\ ModalsByKind' /\ ArrivedFirst' /\ OnlyCurrent' /\ ShownIsOnScreen'
         /\ \A r \in Requests : r \in OnScreen' => r \in from \/ \E k \in Kinds : screen[k] = r
         /\ \A r \in Requests : r \in InQueue' => r \in from
         /\ \A r \in OnScreen' : (\E k \in Kinds : screen[k] = r) \/ r = current'
<1>1. \A r \in Requests : r \in InQueue' => r \in from
  BY NextScreenAndQueue DEF Moves
<1>2. \A r \in OnScreen' : (\E k \in Kinds : screen[k] = r) \/ (~showing /\ Shows(screen) /\ r = current')
  BY NextScreenAndQueue DEF Moves, Stays, Shows
<1>3. ~showing /\ Shows(screen) => current' \in from
  BY DEF Moves, Shows
<1>4. \A r \in Requests : (\E k \in Kinds : screen[k] = r) => r \in OnScreen
  BY ScreenAndQueue
<1>5. \A r \in Requests : r \in OnScreen' => r \in from \/ \E k \in Kinds : screen[k] = r
  BY <1>2, <1>3
<1>6. \A r \in from : r \in Requests => r \in queueHistory'.arrived
  BY DEF Fair, ArrivedFirst
<1>7. ArrivedFirst'
  BY <1>1, <1>4, <1>5, <1>6 DEF ArrivedFirst
<1>8. ModalsByKind'
  <2>1. CASE pending' = screen
    BY <2>1 DEF ModalsByKind
  <2>2. CASE Shows(screen)
    BY <2>2 DEF Shows, ModalsByKind, RequestsTypeOK
  <2>3. QED
    BY <2>1, <2>2 DEF Moves, Stays
<1>9. OnlyCurrent'
  <2> SUFFICES ASSUME NEW r \in InQueue', r \in OnScreen' \/ UnderWay(r)'
               PROVE  r = current'
    BY DEF OnlyCurrent
  <2>1. r \in Requests /\ r \in from
    BY <1>1, NextScreenAndQueue
  <2>2. r = current' \/ r \in OnScreen \/ UnderWay(r)
    BY <1>2, <1>4, <2>1
  <2>3. CASE r \in OnScreen \/ UnderWay(r)
    <3>1. r \in InQueue /\ (~showing => r # current)
      BY <2>1, <2>3 DEF Fair, ArrivedFirst
    <3>2. r = current /\ showing
      BY <2>3, <3>1 DEF OnlyCurrent
    <3>3. current' = current
      BY <3>2 DEF Moves, Stays
    <3>4. QED
      BY <3>2, <3>3
  <2>4. QED
    BY <2>2, <2>3
<1>10. ShownIsOnScreen'
  <2>1. CASE Stays(showing, screen)
    BY <2>1 DEF Stays, ShownIsOnScreen
  <2>2. CASE Shows(screen)
    <3>1. KindOf[current'] \in Kinds /\ current' # NoRequest
      BY <2>2, QueueAssumption DEF Shows
    <3>2. QED
      BY <2>2, <3>1 DEF Shows, ShownIsOnScreen
  <2>3. QED
    BY <2>1, <2>2 DEF Moves
<1>11. QED
  BY <1>1, <1>2, <1>5, <1>7, <1>8, <1>9, <1>10

\* Nothing a step shows, or leaves in the queue, was broadcast before.
LEMMA MovesSent ==
  ASSUME RequestsTypeOK, RequestsTypeOK', ArrivedFirst, SentIsOver,
         NEW from, NEW showing, NEW screen, Fair(from, showing),
         \A k \in Kinds : screen[k] \in {pending[k], NoRequest},
         \A r \in Requests : r \in OnScreen' => r \in from \/ \E k \in Kinds : screen[k] = r,
         \A r \in Requests : r \in InQueue' => r \in from,
         queueHistory'.sent \subseteq queueHistory.sent,
         queueHistory'.sentAgain = queueHistory.sentAgain,
         \A r \in Requests : r \in queueHistory'.sent =>
            \/ approving'[r] = approving[r]
            \/ approving'[r] = "no" /\ r \notin from /\ \A k \in Kinds : screen[k] # r
  PROVE  SentIsOver'
<1> SUFFICES ASSUME NEW r \in queueHistory'.sent
             PROVE  /\ approving'[r] # "signing"
                    /\ approving'[r] = "no" => r \notin OnScreen' /\ r \notin InQueue'
  BY DEF SentIsOver, BroadcastOnce
<1>1. r \in Requests /\ r \in queueHistory.sent /\ r \in queueHistory.arrived
  BY DEF RequestsTypeOK, ArrivedFirst
<1>2. CASE approving'[r] = approving[r]
  <2>1. approving[r] = "no" => r \notin from /\ \A k \in Kinds : screen[k] # r
    BY <1>1, ScreenAndQueue DEF SentIsOver, Fair
  <2>2. QED
    BY <1>1, <1>2, <2>1 DEF SentIsOver
<1>3. CASE approving'[r] = "no" /\ r \notin from /\ \A k \in Kinds : screen[k] # r
  BY <1>1, <1>3
<1>4. QED
  BY <1>1, <1>2, <1>3

\* A step of the queue alone: a request arrives, or the next one is shown.
LEMMA QueueStep ==
  ASSUME RequestsTypeOK, RequestsTypeOK', RequestInv, NEW from,
         Moves(from, isShowing, pending), Fair(from, isShowing), UNCHANGED callVars,
         queueHistory.arrived \subseteq queueHistory'.arrived,
         queueHistory'.sent = queueHistory.sent,
         queueHistory'.sentAgain = queueHistory.sentAgain,
         queueHistory'.doubled = queueHistory.doubled,
         queueHistory'.troubles = queueHistory.troubles,
         queueHistory'.cutOff = queueHistory.cutOff \cup CutOff(NoRequest)
  PROVE  RequestInv'
<1> USE DEF RequestInv
<1>1. \A r \in Requests : UnderWay(r)' <=> UnderWay(r)
  BY DEF UnderWay, callVars
<1>2. isShowing \in BOOLEAN /\ pending \in [Kinds -> Slot]
  BY DEF RequestsTypeOK
<1>3. /\ ModalsByKind' /\ ArrivedFirst' /\ OnlyCurrent' /\ ShownIsOnScreen'
      /\ \A r \in Requests : r \in OnScreen' => r \in from \/ \E k \in Kinds : pending[k] = r
      /\ \A r \in Requests : r \in InQueue' => r \in from
      /\ \A r \in OnScreen' : (\E k \in Kinds : pending[k] = r) \/ r = current'
  BY <1>1, <1>2, MovesInv
<1>4. SentIsOver'
  BY <1>3, MovesSent DEF callVars
<1>5. ASSUME queueHistory'.doubled = {}, queueHistory'.troubles = 0
      PROVE  Orderly'
  <2>1. Orderly
    BY <1>5
  <2>2. CASE isShowing
    <3>1. current' = current /\ pending' = pending
      BY <2>2 DEF Moves, Stays
    <3>2. OnScreen' = OnScreen
      BY <3>1 DEF OnScreen
    <3>3. CutOff(NoRequest) = {}
      BY <2>1, <3>1, ScreenAndQueue DEF CutOff, Orderly, ModalsByKind, OnScreen
    <3>4. QED
      BY <1>1, <2>1, <3>1, <3>2, <3>3 DEF Orderly, callVars
  <2>3. CASE ~isShowing
    <3>1. current = NoRequest
      BY <2>3 DEF ShownIsOnScreen
    <3>2. OnScreen = {}
      BY <2>1, <3>1, ScreenAndQueue DEF Orderly
    <3>3. CutOff(NoRequest) = {}
      BY <3>1, <3>2 DEF CutOff
    <3>4. OnScreen' \subseteq {current'}
      BY <1>3, <3>2, ScreenAndQueue, NextScreenAndQueue
    <3>5. \A r \in Requests : ~UnderWay(r)
      BY <2>1, <3>1, ScreenAndQueue DEF Orderly
    <3>6. QED
      BY <1>1, <2>1, <3>3, <3>4, <3>5 DEF Orderly, callVars
  <2>4. QED
    BY <1>2, <2>2, <2>3
<1>6. QED
  BY <1>3, <1>4, <1>5

\* A call ends: the modal of its kind is closed, unless it failed, and the
\* current request leaves the queue.
LEMMA EndStep ==
  ASSUME RequestsTypeOK, RequestsTypeOK', RequestInv, NEW r \in Requests, UnderWay(r),
         NEW screen \in [Kinds -> Slot], screen = Cleared(r) \/ screen = pending,
         NEW next \in Slot, ClearCurrent(screen, next),
         next # NoRequest => next \notin queueHistory.arrived /\ next \in queueHistory'.arrived,
         queueHistory.arrived \subseteq queueHistory'.arrived,
         queueHistory'.sent \subseteq queueHistory.sent,
         queueHistory'.sentAgain = queueHistory.sentAgain,
         queueHistory'.doubled = queueHistory.doubled,
         \/ screen = Cleared(r) /\ queueHistory'.troubles = queueHistory.troubles
         \/ r \notin queueHistory'.sent /\ queueHistory'.troubles > 0,
         queueHistory'.cutOff = queueHistory.cutOff \cup CutOff(r),
         \/ approving' = [approving EXCEPT ![r] = "no"] /\ UNCHANGED rejecting /\ approving[r] # "no"
         \/ rejecting' = [rejecting EXCEPT ![r] = @ - 1] /\ UNCHANGED approving /\ rejecting[r] > 0
  PROVE  RequestInv'
<1> USE DEF RequestInv
<1> DEFINE from == (InQueue \ {current}) \cup ({next} \ {NoRequest})
<1>1. /\ \A k \in Kinds : screen[k] \in {pending[k], NoRequest}
      /\ screen = Cleared(r) => \A k \in Kinds : screen[k] # r
  <2>1. CASE screen = pending
    <3>1. screen # Cleared(r) \/ \A k \in Kinds : pending[k] # r
      <4>1. ASSUME NEW k \in Kinds, pending[k] = r
            PROVE  pending # Cleared(r)
        <5>1. KindOf[r] = k
          BY <4>1, ScreenAndQueue DEF ModalsByKind
        <5>2. Cleared(r)[k] = NoRequest
          BY <5>1 DEF Cleared, RequestsTypeOK
        <5>3. QED
          BY <4>1, <5>2, ScreenAndQueue
      <4>2. QED
        BY <2>1, <4>1
    <3>2. QED
      BY <2>1, <3>1
  <2>2. CASE screen = Cleared(r)
    <3>1. \A k \in Kinds : screen[k] = IF k = KindOf[r] THEN NoRequest ELSE pending[k]
      BY <2>2 DEF Cleared, RequestsTypeOK
    <3>2. \A k \in Kinds : pending[k] = r => k = KindOf[r]
      BY ScreenAndQueue DEF ModalsByKind
    <3>3. QED
      BY <3>1, <3>2, ScreenAndQueue
  <2>3. QED
    BY <2>1, <2>2
<1>2. Moves(from, FALSE, screen)
  BY ClearCurrentMoves
<1>3. Fair(from, FALSE)
  BY DEF Fair
<1>4. \A q \in Requests : UnderWay(q)' => UnderWay(q)
  BY DEF UnderWay, RequestsTypeOK
<1>5. r \notin from
  BY DEF ArrivedFirst, OnlyCurrent
<1> HIDE DEF from
<1>6. PICK showing \in BOOLEAN : showing = FALSE
  OBVIOUS
<1>7. /\ ModalsByKind' /\ ArrivedFirst' /\ OnlyCurrent' /\ ShownIsOnScreen'
      /\ \A q \in Requests : q \in OnScreen' => q \in from \/ \E k \in Kinds : screen[k] = q
      /\ \A q \in Requests : q \in InQueue' => q \in from
      /\ \A q \in OnScreen' : (\E k \in Kinds : screen[k] = q) \/ q = current'
  <2>1. Moves(from, showing, screen) /\ Fair(from, showing) /\ (showing => isShowing /\ screen = pending)
    BY <1>2, <1>3, <1>6
  <2> HIDE DEF RequestInv
  <2>2. ModalsByKind /\ ArrivedFirst /\ OnlyCurrent /\ ShownIsOnScreen
    BY DEF RequestInv
  <2>3. QED
    BY <1>1, <1>4, <2>1, <2>2, MovesInv
<1>8. SentIsOver'
  <2>1. \A q \in Requests : q \in queueHistory'.sent =>
           \/ approving'[q] = approving[q]
           \/ approving'[q] = "no" /\ q \notin from /\ \A k \in Kinds : screen[k] # q
    BY <1>1, <1>5 DEF RequestsTypeOK
  <2>2. Fair(from, showing)
    BY <1>3, <1>6
  <2>3. QED
    BY <1>1, <1>7, <2>1, <2>2, MovesSent
<1>9. ASSUME queueHistory'.doubled = {}, queueHistory'.troubles = 0
      PROVE  Orderly'
  <2>1. Orderly /\ screen = Cleared(r)
    BY <1>9
  <2>2. r = current /\ OnScreen \subseteq {r}
    BY <2>1 DEF Orderly
  <2>3. CutOff(r) = {}
    BY <2>2 DEF CutOff
  <2>4. \A q \in Requests, k \in Kinds : screen[k] # q
    BY <1>1, <2>1, <2>2, ScreenAndQueue
  <2>5. OnScreen' \subseteq {current'}
    BY <1>7, <2>4, NextScreenAndQueue
  <2>6. \A q \in Requests : q # r => approving'[q] = "no" /\ rejecting'[q] = 0
    <3> SUFFICES ASSUME NEW q \in Requests, q # r
                 PROVE  approving'[q] = "no" /\ rejecting'[q] = 0
      OBVIOUS
    <3>1. ~UnderWay(q)
      BY <2>1, <2>2 DEF Orderly
    <3>2. approving[q] = "no" /\ rejecting[q] = 0
      BY <3>1, QueueAssumption DEF UnderWay, RequestsTypeOK
    <3>3. QED
      BY <3>2 DEF RequestsTypeOK
  <2>7. approving'[r] = "no" /\ rejecting'[r] = 0
    <3>1. rejecting[r] \in Nat /\ rejecting[r] <= 1
      BY <2>1, QueueAssumption DEF Orderly, RequestsTypeOK
    <3>2. approving[r] # "no" => rejecting[r] = 0
      BY <2>1 DEF Orderly
    <3>3. CASE approving' = [approving EXCEPT ![r] = "no"] /\ UNCHANGED rejecting /\ approving[r] # "no"
      BY <3>2, <3>3 DEF RequestsTypeOK
    <3>4. CASE rejecting' = [rejecting EXCEPT ![r] = @ - 1] /\ UNCHANGED approving /\ rejecting[r] > 0
      <4>1. rejecting[r] = 1 /\ approving[r] = "no"
        BY <3>1, <3>2, <3>4
      <4>2. QED
        BY <3>4, <4>1 DEF RequestsTypeOK
    <3>5. QED
      BY <3>3, <3>4
  <2>8. \A q \in Requests : ~UnderWay(q)' /\ rejecting'[q] = 0
    BY <2>6, <2>7 DEF UnderWay
  <2>9. QED
    BY <2>1, <2>3, <2>5, <2>8 DEF Orderly
<1>10. QED
  BY <1>7, <1>8, <1>9

LEMMA RequestStep ==
  ASSUME RequestsTypeOK, RequestInv, [RequestsNext]_requestVars
  PROVE  RequestInv'
<1> USE DEF RequestInv
<1>1. RequestsTypeOK' /\ queueHistory \in HistoryType
  BY RequestsTypeStep DEF RequestsTypeOK, HistoryType
<1>2. ASSUME UNCHANGED screenVars, UNCHANGED callVars,
             queueHistory'.arrived \in SUBSET Requests,
             queueHistory.arrived \subseteq queueHistory'.arrived,
             queueHistory'.sent = queueHistory.sent,
             queueHistory'.sentAgain = queueHistory.sentAgain,
             queueHistory'.doubled = queueHistory.doubled,
             queueHistory'.troubles = queueHistory.troubles,
             queueHistory'.cutOff = queueHistory.cutOff
      PROVE  RequestInv'
  <2>1. OnScreen' = OnScreen /\ InQueue' = InQueue /\ \A r \in Requests : UnderWay(r)' <=> UnderWay(r)
    BY <1>2 DEF OnScreen, InQueue, UnderWay, screenVars, callVars
  <2>2. ModalsByKind' /\ ArrivedFirst' /\ ShownIsOnScreen'
    BY <1>2, <2>1 DEF ModalsByKind, ArrivedFirst, ShownIsOnScreen, screenVars
  <2>3. OnlyCurrent'
    BY <1>2, <2>1, ScreenAndQueue DEF OnlyCurrent, screenVars
  <2>4. SentIsOver'
    BY <1>2, <2>1 DEF SentIsOver, BroadcastOnce, callVars
  <2>5. Orderly => Orderly'
    BY <1>2, <2>1 DEF Orderly, screenVars, callVars
  <2>6. QED
    BY <1>2, <2>2, <2>3, <2>4, <2>5
<1>3. ASSUME NEW r \in Requests, Arrive(r)
      PROVE  RequestInv'
  <2>1. r \notin queueHistory.arrived /\ UNCHANGED callVars
    BY <1>3 DEF Arrive
  <2>2. CASE /\ Enqueue(r, items, isShowing, pending)
             /\ queueHistory' = [queueHistory EXCEPT !.arrived = @ \cup {r},
                                                     !.cutOff = @ \cup CutOff(NoRequest)]
    <3>1. Moves(InQueue \cup {r}, isShowing, pending)
      <4>1. Moves(Range(items) \cup {r}, isShowing, pending)
        BY <2>2, EnqueueMoves DEF RequestsTypeOK
      <4>2. QED
        BY <4>1, ScreenAndQueue
    <3>2. Fair(InQueue \cup {r}, isShowing)
      BY <1>1, <2>1, <2>2, ScreenAndQueue DEF Fair, ShownIsOnScreen, HistoryType
    <3>3. QED
      BY <1>1, <2>1, <2>2, <3>1, <3>2, QueueStep DEF HistoryType
  <2>3. CASE /\ queueHistory' = [queueHistory EXCEPT !.arrived = @ \cup {r}]
             /\ UNCHANGED screenVars
    BY <1>1, <1>2, <2>1, <2>3 DEF HistoryType
  <2>4. QED
    BY <1>3, <2>2, <2>3 DEF Arrive
<1>4. ASSUME NEW r \in Requests, Expire(r)
      PROVE  RequestInv'
  <2>1. /\ queueHistory' = [queueHistory EXCEPT !.expired = @ \cup {r}]
        /\ UNCHANGED screenVars /\ UNCHANGED callVars
    BY <1>4 DEF Expire
  <2>2. QED
    BY <1>1, <1>2, <2>1 DEF HistoryType
<1>5. ASSUME NEW r \in Requests, PressApprove(r) \/ PressReject(r)
      PROVE  RequestInv'
  <2>1. /\ UNCHANGED screenVars /\ r \in OnScreen /\ Pressed(r)
        /\ \/ /\ approving[r] = "no" /\ approving' = [approving EXCEPT ![r] = "signing"]
              /\ UNCHANGED rejecting
           \/ rejecting' = [rejecting EXCEPT ![r] = @ + 1] /\ UNCHANGED approving
    BY <1>5 DEF PressApprove, PressReject, Pressable
  <2>2. /\ OnScreen' = OnScreen /\ InQueue' = InQueue
        /\ \A q \in Requests : UnderWay(q)' => UnderWay(q) \/ q = r
    BY <2>1 DEF OnScreen, InQueue, UnderWay, screenVars, RequestsTypeOK
  <2>3. /\ queueHistory'.arrived = queueHistory.arrived
        /\ queueHistory'.sent = queueHistory.sent /\ queueHistory'.sentAgain = queueHistory.sentAgain
        /\ queueHistory'.troubles = queueHistory.troubles /\ queueHistory'.cutOff = queueHistory.cutOff
        /\ queueHistory'.doubled = {} => queueHistory.doubled = {} /\ ~UnderWay(r)
    BY <1>1, <2>1 DEF Pressed, HistoryType
  <2>4. ModalsByKind' /\ ArrivedFirst' /\ ShownIsOnScreen'
    BY <2>1, <2>2, <2>3 DEF ModalsByKind, ArrivedFirst, ShownIsOnScreen, screenVars
  <2>5. OnlyCurrent'
    BY <2>1, <2>2, ScreenAndQueue DEF OnlyCurrent, screenVars
  <2>6. SentIsOver'
    <3>1. \A q \in queueHistory.sent : approving'[q] = approving[q] \/ (q = r /\ approving'[q] = "signing" /\ approving[q] = "no")
      BY <2>1 DEF RequestsTypeOK
    <3>2. r \in queueHistory.sent => approving[r] # "no"
      BY <2>1 DEF SentIsOver
    <3>3. QED
      BY <2>2, <2>3, <3>1, <3>2 DEF SentIsOver, BroadcastOnce
  <2>7. ASSUME queueHistory'.doubled = {}, queueHistory'.troubles = 0
        PROVE  Orderly'
    <3>1. Orderly /\ ~UnderWay(r) /\ r = current
      BY <2>1, <2>3, <2>7 DEF Orderly
    <3>2. approving[r] = "no" /\ rejecting[r] = 0
      BY <3>1, QueueAssumption DEF UnderWay, RequestsTypeOK
    <3>3. approving'[r] = "no" \/ rejecting'[r] = 0
      BY <2>1, <3>2 DEF RequestsTypeOK
    <3>4. rejecting'[r] <= 1 /\ \A q \in Requests : q # r => approving'[q] = approving[q] /\ rejecting'[q] = rejecting[q]
      BY <2>1, <3>2 DEF RequestsTypeOK
    <3>5. QED
      BY <2>1, <2>2, <2>3, <3>1, <3>3, <3>4 DEF Orderly, screenVars
  <2>8. QED
    BY <2>4, <2>5, <2>6, <2>7
<1>6. ASSUME NEW r \in Requests, Broadcast(r)
      PROVE  RequestInv'
  <2>1. /\ UNCHANGED screenVars /\ UNCHANGED rejecting
        /\ approving[r] = "signing" /\ approving' = [approving EXCEPT ![r] = "sent"]
        /\ r \notin queueHistory.sent
    BY <1>6 DEF Broadcast, SentIsOver
  <2>2. /\ OnScreen' = OnScreen /\ InQueue' = InQueue
        /\ \A q \in Requests : UnderWay(q)' <=> UnderWay(q)
        /\ \A q \in Requests : approving'[q] # "no" <=> approving[q] # "no"
    BY <2>1 DEF OnScreen, InQueue, UnderWay, screenVars, RequestsTypeOK
  <2>3. /\ queueHistory'.arrived = queueHistory.arrived
        /\ queueHistory'.sent = queueHistory.sent \cup {r}
        /\ queueHistory'.sentAgain = queueHistory.sentAgain
        /\ queueHistory'.troubles = queueHistory.troubles /\ queueHistory'.cutOff = queueHistory.cutOff
        /\ queueHistory'.doubled = queueHistory.doubled
    BY <1>1, <1>6, <2>1 DEF Broadcast, HistoryType
  <2>4. ModalsByKind' /\ ShownIsOnScreen'
    BY <2>1 DEF ModalsByKind, ShownIsOnScreen, screenVars
  <2>5. ArrivedFirst'
    BY <2>1, <2>2, <2>3 DEF ArrivedFirst, UnderWay
  <2>6. OnlyCurrent'
    BY <2>1, <2>2, ScreenAndQueue DEF OnlyCurrent, screenVars
  <2>7. SentIsOver'
    <3>1. \A q \in queueHistory'.sent : (q = r /\ approving'[q] = "sent")
                                        \/ (q \in queueHistory.sent /\ approving'[q] = approving[q])
      BY <1>1, <2>1, <2>3 DEF RequestsTypeOK, HistoryType
    <3>2. QED
      BY <2>2, <2>3, <3>1 DEF SentIsOver, BroadcastOnce
  <2>8. Orderly => Orderly'
    BY <2>1, <2>2, <2>3 DEF Orderly, screenVars
  <2>9. QED
    BY <2>3, <2>4, <2>5, <2>6, <2>7, <2>8
<1>7. ASSUME NEW r \in Requests, ApproveSucceeds(r)
      PROVE  RequestInv'
  <2> DEFINE next == IF Embedded[r] \in queueHistory.arrived THEN NoRequest ELSE Embedded[r]
  <2>1. next \in Slot /\ (next # NoRequest => next \notin queueHistory.arrived)
    BY QueueAssumption DEF Slot
  <2>2. /\ ClearCurrent(Cleared(r), next) /\ approving[r] # "no" /\ UnderWay(r)
        /\ approving' = [approving EXCEPT ![r] = "no"] /\ UNCHANGED rejecting
        /\ queueHistory' = [queueHistory EXCEPT !.arrived = @ \cup ({next} \ {NoRequest}),
                                                !.cutOff = @ \cup CutOff(r)]
    BY <1>7 DEF ApproveSucceeds, UnderWay
  <2> HIDE DEF next
  <2>3. /\ queueHistory'.arrived = queueHistory.arrived \cup ({next} \ {NoRequest})
        /\ queueHistory'.sent = queueHistory.sent /\ queueHistory'.sentAgain = queueHistory.sentAgain
        /\ queueHistory'.troubles = queueHistory.troubles /\ queueHistory'.doubled = queueHistory.doubled
        /\ queueHistory'.cutOff = queueHistory.cutOff \cup CutOff(r)
    BY <1>1, <2>2 DEF HistoryType
  <2>4. QED
    BY <1>1, <2>1, <2>2, <2>3, EndStep, SmallTypes
<1>8. ASSUME NEW r \in Requests, ApproveFails(r)
      PROVE  RequestInv'
  <2>1. /\ ClearCurrent(pending, NoRequest) /\ approving[r] # "no" /\ UnderWay(r)
        /\ approving' = [approving EXCEPT ![r] = "no"] /\ UNCHANGED rejecting
        /\ pending \in [Kinds -> Slot] /\ NoRequest \in Slot
    BY <1>8 DEF ApproveFails, UnderWay, RequestsTypeOK, Slot
  <2>2. /\ queueHistory'.arrived = queueHistory.arrived
        /\ queueHistory'.sent = queueHistory.sent \ {r} /\ queueHistory'.sentAgain = queueHistory.sentAgain
        /\ queueHistory'.troubles = queueHistory.troubles + 1
        /\ queueHistory'.doubled = queueHistory.doubled
        /\ queueHistory'.cutOff = queueHistory.cutOff \cup CutOff(r)
    BY <1>1, <1>8 DEF ApproveFails, HistoryType
  <2>3. queueHistory'.troubles > 0
    BY <1>1, <2>2, QueueAssumption DEF HistoryType
  <2>4. QED
    BY <1>1, <2>1, <2>2, <2>3, EndStep
<1>9. ASSUME NEW r \in Requests, RejectEnds(r)
      PROVE  RequestInv'
  <2>1. /\ ClearCurrent(Cleared(r), NoRequest) /\ rejecting[r] > 0 /\ UnderWay(r)
        /\ rejecting' = [rejecting EXCEPT ![r] = @ - 1] /\ UNCHANGED approving
        /\ NoRequest \in Slot
    BY <1>9 DEF RejectEnds, UnderWay, Slot
  <2>2. /\ queueHistory'.arrived = queueHistory.arrived
        /\ queueHistory'.sent = queueHistory.sent /\ queueHistory'.sentAgain = queueHistory.sentAgain
        /\ queueHistory'.troubles = queueHistory.troubles /\ queueHistory'.doubled = queueHistory.doubled
        /\ queueHistory'.cutOff = queueHistory.cutOff \cup CutOff(r)
    BY <1>1, <1>9 DEF RejectEnds, HistoryType
  <2>3. QED
    BY <1>1, <2>1, <2>2, EndStep, SmallTypes
<1>10. CASE CloseTimer \/ Poll
  <2>1. ProcessNextRequest /\ UNCHANGED callVars
    BY <1>10 DEF CloseTimer, Poll
  <2>2. CASE isShowing
    <3>1. UNCHANGED screenVars /\ UNCHANGED queueHistory
      BY <2>1, <2>2, ProcessMoves
    <3>2. QED
      BY <1>1, <1>2, <2>1, <3>1 DEF HistoryType
  <2>3. CASE ~isShowing
    <3>1. queueHistory' = [queueHistory EXCEPT !.cutOff = @ \cup CutOff(NoRequest)]
      BY <2>1, <2>3, ProcessMoves
    <3>2. Moves(InQueue, isShowing, pending)
      BY <2>1, <2>3, ProcessMoves
    <3>3. Fair(InQueue, isShowing)
      BY ScreenAndQueue DEF Fair, ShownIsOnScreen
    <3>4. QED
      BY <1>1, <2>1, <3>1, <3>2, <3>3, QueueStep DEF HistoryType
  <2>4. QED
    BY <2>2, <2>3 DEF RequestsTypeOK
<1>11. CASE RestartWallet \/ Logout
  <2>1. /\ queueHistory'.arrived = queueHistory.arrived
        /\ queueHistory'.sent \subseteq queueHistory.sent /\ queueHistory'.sentAgain = queueHistory.sentAgain
        /\ queueHistory'.troubles = queueHistory.troubles + 1
    BY <1>1, <1>11 DEF RestartWallet, Logout, HistoryType
  <2>2. queueHistory'.troubles > 0
    BY <1>1, <2>1, QueueAssumption DEF HistoryType
  <2>3. /\ \A k \in Kinds : pending'[k] \in {pending[k], NoRequest}
        /\ isShowing' = FALSE /\ current' = NoRequest
    BY <1>11 DEF RestartWallet, Logout
  <2>4. ModalsByKind' /\ ShownIsOnScreen'
    BY <2>3 DEF ModalsByKind, ShownIsOnScreen
  <2>5. \A r \in Requests : r \in OnScreen' => r \in OnScreen
    BY <1>1, <2>3, ScreenAndQueue, NextScreenAndQueue
  <2>6. InQueue' \subseteq InQueue
    <3>1. CASE RestartWallet
      <4>1. Range(items') \subseteq Range(items)
        BY <3>1, KeepFacts DEF RestartWallet, Unexpired, RequestsTypeOK
      <4>2. QED
        BY <1>1, <4>1, ScreenAndQueue, NextScreenAndQueue
    <3>2. CASE Logout
      <4>1. items' = <<>>
        BY <3>2 DEF Logout
      <4>2. QED
        BY <4>1 DEF InQueue
    <3>3. QED
      BY <1>11, <3>1, <3>2
  <2>7. \A r \in Requests : UnderWay(r)' => UnderWay(r)
    BY <1>11 DEF RestartWallet, Logout, UnderWay, callVars
  <2>8. ArrivedFirst'
    BY <2>1, <2>5, <2>6, <2>7 DEF ArrivedFirst
  <2>9. OnlyCurrent' /\ SentIsOver'
    <3>1. CASE RestartWallet
      <4>1. OnScreen' = {} /\ \A r \in Requests : ~UnderWay(r)'
        BY <3>1 DEF RestartWallet, OnScreen, UnderWay
      <4>2. queueHistory'.sent = {}
        BY <1>1, <3>1 DEF RestartWallet, HistoryType
      <4>3. QED
        BY <1>1, <2>1, <4>1, <4>2, NextScreenAndQueue DEF OnlyCurrent, SentIsOver, BroadcastOnce
    <3>2. CASE Logout
      <4>1. items' = <<>> /\ UNCHANGED approving
        BY <3>2 DEF Logout, callVars
      <4>2. InQueue' = {}
        BY <4>1 DEF InQueue
      <4>3. QED
        BY <1>1, <2>1, <2>5, <4>1, <4>2 DEF OnlyCurrent, SentIsOver, BroadcastOnce, HistoryType
    <3>3. QED
      BY <1>11, <3>1, <3>2
  <2>10. QED
    BY <2>2, <2>4, <2>8, <2>9
<1>12. CASE UNCHANGED requestVars
  <2>1. UNCHANGED screenVars /\ UNCHANGED callVars /\ UNCHANGED queueHistory
    BY <1>12 DEF requestVars
  <2>2. QED
    BY <1>1, <1>2, <2>1 DEF HistoryType
<1>13. QED
  BY <1>3, <1>4, <1>5, <1>6, <1>7, <1>8, <1>9, <1>10, <1>11, <1>12 DEF RequestsNext

\* The inductive invariant: what arrived, what is shown and what is decided on.
THEOREM RequestsInOrder == RequestsSpec => [](RequestsTypeOK /\ RequestInv)
<1>1. ASSUME RequestsInit
      PROVE  RequestInv
  <2>1. OnScreen = {} /\ InQueue = {} /\ \A r \in Requests : ~UnderWay(r)
    BY <1>1 DEF RequestsInit, OnScreen, InQueue, UnderWay
  <2>2. ModalsByKind /\ ShownIsOnScreen
    BY <1>1 DEF RequestsInit, ModalsByKind, ShownIsOnScreen
  <2>3. queueHistory.sent = {} /\ queueHistory.sentAgain = {} /\ queueHistory.cutOff = {}
    BY <1>1 DEF RequestsInit, HistoryInit
  <2>4. Orderly
    BY <1>1, <2>1, <2>3 DEF RequestsInit, Orderly
  <2>5. QED
    BY <2>1, <2>2, <2>3, <2>4 DEF RequestInv, ArrivedFirst, OnlyCurrent, SentIsOver, BroadcastOnce
<1>2. RequestsTypeOK /\ RequestInv /\ [RequestsNext]_requestVars => RequestInv'
  BY RequestStep
<1>3. QED
  BY <1>1, <1>2, RequestsTypeCorrect, PTL DEF RequestsSpec

\* A queue that is held up for a request has its modal on the screen.
THEOREM HeldUpIsShown == RequestsSpec => []ShownIsOnScreen
<1>1. RequestInv => ShownIsOnScreen
  BY DEF RequestInv
<1>2. QED
  BY <1>1, RequestsInOrder, PTL

\* Nothing is taken away from another request unless an approval failed, a
\* button was pressed twice, the wallet was restarted or the user logged out.
THEOREM NothingCutOff == RequestsSpec => []CutOffNeedsTrouble
<1>1. RequestsTypeOK /\ RequestInv => CutOffNeedsTrouble
  BY QueueAssumption DEF RequestInv, Orderly, CutOffNeedsTrouble, RequestsTypeOK
<1>2. QED
  BY <1>1, RequestsInOrder, PTL

\* No transaction is broadcast twice, unless its approval failed in between.
THEOREM TransactionsAreBroadcastOnce == RequestsSpec => []BroadcastOnce
<1>1. RequestInv => BroadcastOnce
  BY DEF RequestInv, SentIsOver
<1>2. QED
  BY <1>1, RequestsInOrder, PTL
=============================================================================
