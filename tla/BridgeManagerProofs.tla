------------------------- MODULE BridgeManagerProofs -------------------------
(***************************************************************************)
(* Theorems about BridgeManager, for any number of messages and any bounds *)
(* of faults, crashes and updates, of a kit that is closed only when no    *)
(* call and no timer of its connection is pending.                         *)
(***************************************************************************)
EXTENDS BridgeManager, SequenceTheorems, TLAPS

\* The kit is closed while it is connected, or has given up to connect.
ClosedAtRest == CloseWhen \subseteq {"connected", "gaveUp"}

\* The store has answered for message m: it is stored, or was refused.
Answered(m) == inbox[m] > 0 \/ m \in failed

\* The message a run of processBridgeEvents is storing.
Storing(l, m) == step[l] = "storing" /\ item[l] = m

Queued(m) == \E i \in 1..Len(eventQueue) : eventQueue[i] = m

\* Ids the server may be asked to go on from cover answered messages only.
IdsAnswered ==
    \A m \in Messages : m <= lastEventId \/ m <= savedId \/ m <= resume => Answered(m)

\* What a run holds comes after answered messages only.
RunsInOrder ==
    \A l \in Loops :
        /\ step[l] = "storing" /\ item[l] \in Messages =>
              \A k \in Messages : k < item[l] => Answered(k)
        /\ step[l] = "saving" =>
              item[l] \in Messages /\ \A k \in Messages : k <= item[l] => Answered(k)

\* A queued message comes after answered, stored or queued ones.
QueueInOrder ==
    \A i \in 1..Len(eventQueue) :
        eventQueue[i] \in Messages =>
            \A k \in Messages : k < eventQueue[i] =>
                \/ Answered(k)
                \/ \E j \in 1..(i - 1) : eventQueue[j] = k
                \/ \E l \in Loops : Storing(l, k)

\* Everything the open connection has delivered is answered or on its way.
DeliveredIsHeld ==
    streaming => \A k \in Messages : k <= cursor =>
                    Answered(k) \/ Queued(k) \/ \E l \in Loops : Storing(l, k)

\* One run at most before close(), none without isProcessing, and after
\* close() only events of the injected bridge.
RunsAlone ==
    /\ ~closed => OneInstance
    /\ ~closed /\ ~isProcessing => \A l \in Loops : step[l] = "idle"
    /\ isProcessing => \E l \in Loops : step[l] # "idle"
    /\ eventQueue # <<>> => isProcessing
    /\ closed => /\ ~streaming /\ link = "off"
                 /\ \A i \in 1..Len(eventQueue) : eventQueue[i] = JsEvent

OrderInv == /\ IdsAnswered
            /\ RunsInOrder
            /\ QueueInOrder
            /\ DeliveredIsHeld
            /\ RunsAlone
-----------------------------------------------------------------------------
(* Types. *)

LEMMA QueueTypes ==
  ASSUME NEW S, NEW q \in Seq(S)
  PROVE  /\ \A i \in S : Append(q, i) \in Seq(S) /\ Append(q, i) # <<>>
         /\ q # <<>> => Head(q) \in S /\ Tail(q) \in Seq(S)
  BY AppendProperties, HeadTailProperties

LEMMA AdvanceType ==
  ASSUME TypeOK, NEW l \in Loops, Advance(l)
  PROVE  /\ eventQueue' \in Seq(Items) /\ isProcessing' \in BOOLEAN
         /\ step' \in [Loops -> {"idle", "storing", "saving"}]
         /\ item' \in [Loops -> Items]
<1>1. CASE eventQueue # <<>> /\ Take(l, eventQueue) /\ UNCHANGED isProcessing
  BY <1>1, QueueTypes DEF Take, TypeOK
<1>2. CASE eventQueue = <<>> /\ step' = [step EXCEPT ![l] = "idle"] /\ isProcessing' = FALSE
           /\ UNCHANGED <<eventQueue, item>>
  BY <1>2 DEF TypeOK
<1>3. QED
  BY <1>1, <1>2 DEF Advance

LEMMA TriggerType ==
  ASSUME TypeOK, NEW i \in Items, Trigger(Append(eventQueue, i))
  PROVE  /\ eventQueue' \in Seq(Items) /\ isProcessing' \in BOOLEAN
         /\ step' \in [Loops -> {"idle", "storing", "saving"}]
         /\ item' \in [Loops -> Items]
<1> DEFINE q == Append(eventQueue, i)
<1>1. q \in Seq(Items) /\ q # <<>> /\ Head(q) \in Items /\ Tail(q) \in Seq(Items)
  <2>1. q \in Seq(Items) /\ q # <<>>
    BY QueueTypes DEF TypeOK
  <2>2. QED
    BY <2>1, QueueTypes
<1>2. CASE isProcessing
  BY <1>1, <1>2 DEF Trigger, TypeOK
<1>3. CASE ~isProcessing
  <2>1. PICK l \in Loops : Take(l, q)
    BY <1>3 DEF Trigger
  <2> HIDE DEF q
  <2>2. QED
    BY <1>1, <1>3, <2>1 DEF Trigger, Take, TypeOK
<1>4. QED
  BY <1>2, <1>3 DEF TypeOK

LEMMA ConstantTypes ==
  /\ 0 \in Ids /\ Messages \subseteq Ids /\ JsEvent \in Items /\ Messages \subseteq Items
  /\ <<>> \in Seq(Items)
  /\ 0 \in 0..MaxAttempts /\ 0 \in 0..MaxJsEvents /\ 0 \in 0..MaxUpdates
  /\ 0 \in 0..MaxFaults /\ 0 \in 0..MaxCrashes
<1>1. <<>> \in Seq(Items)
  OBVIOUS
<1>2. QED
  BY <1>1, BridgeAssumption DEF Ids, Messages, Items

LEMMA FaultType ==
  ASSUME TypeOK, Fault \/ UNCHANGED boundVars
  PROVE  /\ jsEvents' \in 0..MaxJsEvents /\ updates' \in 0..MaxUpdates
         /\ faults' \in 0..MaxFaults /\ crashes' \in 0..MaxCrashes
  BY BridgeAssumption DEF Fault, TypeOK, boundVars

\* TypeOK alone is not inductive: an event of the injected bridge has no id to save.
SavesMessages == \A l \in Loops : step[l] = "saving" => item[l] \in Messages

LEMMA TypeStep ==
  ASSUME TypeOK, SavesMessages, [Next]_vars
  PROVE  TypeOK'
<1>1. CASE Send
  <2>1. sent' \in Ids
    BY <1>1, BridgeAssumption DEF Send, TypeOK, Ids
  <2>2. QED
    BY <1>1, <2>1 DEF Send, TypeOK, loopVars, idVars, ghostVars, boundVars
<1>2. CASE Start
  <2>1. Load
    BY <1>2 DEF Start
  <2>2. lastEventId' \in Ids /\ savedId' \in Ids /\ (Fault \/ UNCHANGED boundVars)
    BY <2>1, ConstantTypes DEF Load, TypeOK
  <2>3. QED
    BY <1>2, <2>2, FaultType DEF Start, Connect, TypeOK, Links, loopVars, ghostVars
<1>3. CASE Opened
  BY <1>3, ConstantTypes DEF Opened, TypeOK, Links, loopVars, idVars, ghostVars, boundVars
<1>4. CASE Refused
  <2>1. attempts' \in 0..MaxAttempts
    BY <1>4, BridgeAssumption DEF Refused, TypeOK
  <2>2. QED
    BY <1>4, <2>1 DEF Refused, TypeOK, Links, loopVars, idVars, ghostVars, boundVars
<1>5. CASE ReconnectTimer
  BY <1>5 DEF ReconnectTimer, Connect, TypeOK, Links, loopVars, idVars, ghostVars, boundVars
<1>6. CASE UpdateClients
  <2>1. updates' \in 0..MaxUpdates
    BY <1>6, BridgeAssumption DEF UpdateClients, TypeOK
  <2>2. QED
    BY <1>6, <2>1 DEF UpdateClients, Connect, TypeOK, Links, loopVars, idVars, ghostVars
<1>7. CASE Deliver
  <2>1. cursor' \in Messages /\ cursor' \in Ids /\ cursor' \in Items
    BY <1>7, BridgeAssumption DEF Deliver, TypeOK, Messages, Ids, Items
  <2>2. PICK i \in Items : i = cursor' /\ Trigger(Append(eventQueue, i))
    BY <1>7, <2>1 DEF Deliver
  <2>3. QED
    BY <1>7, <2>1, <2>2, TriggerType DEF Deliver, TypeOK, idVars, ghostVars, boundVars
<1>8. CASE QueueJsEvent
  <2>1. Trigger(Append(eventQueue, JsEvent)) /\ JsEvent \in Items
    BY <1>8, ConstantTypes DEF QueueJsEvent
  <2>2. jsEvents' \in 0..MaxJsEvents
    BY <1>8, BridgeAssumption DEF QueueJsEvent, TypeOK
  <2>3. QED
    BY <1>8, <2>1, <2>2, TriggerType DEF QueueJsEvent, TypeOK, linkVars, idVars, ghostVars
<1>9. CASE Close
  BY <1>9, ConstantTypes DEF Close, TypeOK, Links, idVars, ghostVars, boundVars
<1>10. CASE Crash
  <2>1. crashes' \in 0..MaxCrashes
    BY <1>10, BridgeAssumption DEF Crash, TypeOK
  <2>2. QED
    BY <1>10, <2>1, ConstantTypes DEF Crash, TypeOK, Links, ghostVars
<1>11. ASSUME NEW l \in Loops, Stored(l)
       PROVE  TypeOK'
  <2>1. inbox' \in [Messages -> Nat]
    BY <1>11 DEF Stored, Counted, TypeOK, Items
  <2>2. CASE /\ item[l] \notin {JsEvent, lastEventId} /\ lastEventId' = item[l]
             /\ step' = [step EXCEPT ![l] = "saving"]
             /\ UNCHANGED <<eventQueue, isProcessing, item>>
    <3>1. lastEventId' \in Ids
      BY <2>2, ConstantTypes DEF TypeOK, Items
    <3>2. QED
      BY <1>11, <2>1, <2>2, <3>1 DEF Stored, TypeOK, linkVars, boundVars
  <2>3. CASE UNCHANGED lastEventId /\ Advance(l)
    BY <1>11, <2>1, <2>3, AdvanceType DEF Stored, TypeOK, linkVars, boundVars
  <2>4. QED
    BY <1>11, <2>2, <2>3 DEF Stored
<1>12. ASSUME NEW l \in Loops, StoreFailed(l)
       PROVE  TypeOK'
  <2>1. failed' \subseteq Messages /\ Advance(l) /\ Fault
    BY <1>12 DEF StoreFailed, TypeOK, Items
  <2>2. QED
    BY <1>12, <2>1, AdvanceType, FaultType DEF StoreFailed, TypeOK, linkVars, idVars
<1>13. ASSUME NEW l \in Loops, Saved(l)
       PROVE  TypeOK'
  <2>1. savedId' \in Ids
    BY <1>13, ConstantTypes DEF Saved, SavesMessages, TypeOK
  <2>2. (Fault \/ UNCHANGED boundVars) /\ Advance(l)
    BY <1>13 DEF Saved
  <2>3. QED
    BY <1>13, <2>1, <2>2, AdvanceType, FaultType DEF Saved, TypeOK, linkVars, ghostVars
<1>14. CASE UNCHANGED vars
  BY <1>14 DEF vars, TypeOK, linkVars, loopVars, idVars, ghostVars, boundVars
<1>15. QED
  BY <1>1, <1>2, <1>3, <1>4, <1>5, <1>6, <1>7, <1>8, <1>9, <1>10, <1>11, <1>12, <1>13, <1>14
     DEF Next, HandleStep

LEMMA SavesStep ==
  ASSUME TypeOK, SavesMessages, [Next]_vars
  PROVE  SavesMessages'
<1>1. CASE UNCHANGED <<step, item>>
  BY <1>1 DEF SavesMessages
<1>2. ASSUME NEW q, Trigger(q)
      PROVE  SavesMessages'
  BY <1>2 DEF SavesMessages, Trigger, Take, TypeOK
<1>3. ASSUME NEW l \in Loops, Advance(l)
      PROVE  SavesMessages'
  BY <1>3 DEF SavesMessages, Advance, Take, TypeOK
<1>4. CASE Deliver \/ QueueJsEvent
  BY <1>2, <1>4 DEF Deliver, QueueJsEvent
<1>5. CASE Crash
  BY <1>5 DEF Crash, SavesMessages
<1>6. ASSUME NEW l \in Loops, Stored(l)
      PROVE  SavesMessages'
  <2>1. CASE Advance(l)
    BY <1>3, <2>1
  <2>2. CASE /\ item[l] \notin {JsEvent, lastEventId}
             /\ step' = [step EXCEPT ![l] = "saving"]
             /\ UNCHANGED item
    BY <2>2 DEF SavesMessages, TypeOK, Items
  <2>3. QED
    BY <1>6, <2>1, <2>2 DEF Stored
<1>7. ASSUME NEW l \in Loops, StoreFailed(l) \/ Saved(l)
      PROVE  SavesMessages'
  BY <1>3, <1>7 DEF StoreFailed, Saved
<1>8. CASE Send \/ Start \/ Opened \/ Refused \/ ReconnectTimer \/ UpdateClients \/ Close
           \/ UNCHANGED vars
  BY <1>1, <1>8 DEF Send, Start, Opened, Refused, ReconnectTimer, UpdateClients, Close,
                    Connect, vars, loopVars
<1>9. QED
  BY <1>4, <1>5, <1>6, <1>7, <1>8 DEF Next, HandleStep

\* Every variable of the bridge keeps its type, the attempts to connect stay
\* within maxReconnectAttempts.
THEOREM BridgeTypeCorrect == Spec => []TypeOK
<1>1. ASSUME Init
      PROVE  TypeOK /\ SavesMessages
  <2>1. /\ inbox \in [Messages -> Nat]
        /\ step \in [Loops -> {"idle", "storing", "saving"}]
        /\ item \in [Loops -> Items]
    BY <1>1, ConstantTypes DEF Init
  <2>2. SavesMessages
    BY <1>1 DEF Init, SavesMessages
  <2>3. QED
    BY <1>1, <2>1, <2>2, ConstantTypes DEF Init, TypeOK, Links
<1>2. TypeOK /\ SavesMessages /\ [Next]_vars => (TypeOK /\ SavesMessages)'
  BY TypeStep, SavesStep
<1>3. QED
  BY <1>1, <1>2, PTL DEF Spec
-----------------------------------------------------------------------------
(* The order of messages.                                                  *)

\* The message is answered, queued, or held by a run that is storing it.
Held(m) == Answered(m) \/ Queued(m) \/ \E l \in Loops : Storing(l, m)

LEMMA AppendFacts ==
  ASSUME NEW S, NEW q \in Seq(S), NEW i \in S
  PROVE  /\ Len(q) \in Nat /\ Len(Append(q, i)) = Len(q) + 1
         /\ \A j \in 1..Len(q) : Append(q, i)[j] = q[j]
         /\ Append(q, i)[Len(q) + 1] = i
  BY AppendProperties

LEMMA TailFacts ==
  ASSUME NEW S, NEW q \in Seq(S), q # <<>>
  PROVE  /\ Len(q) \in Nat \ {0} /\ Len(Tail(q)) = Len(q) - 1
         /\ Head(q) = q[1]
         /\ \A j \in 1..(Len(q) - 1) : Tail(q)[j] = q[j + 1]
  BY HeadTailProperties, EmptySeq

LEMMA FirstOfOne ==
  ASSUME NEW S, NEW i \in S
  PROVE  Head(Append(<<>>, i)) = i /\ Tail(Append(<<>>, i)) = <<>>
  OBVIOUS

\* A run whose event was answered takes the next one, or ends.
LEMMA AdvanceOrder ==
  ASSUME TypeOK, OrderInv, NEW l \in Loops, Advance(l), step[l] # "idle",
         \A m \in Messages : Answered(m) => Answered(m)',
         \A m \in Messages : item[l] = m => Answered(m)',
         UNCHANGED <<link, streaming, cursor, closed>>
  PROVE  RunsInOrder' /\ QueueInOrder' /\ DeliveredIsHeld' /\ RunsAlone'
<1> USE DEF OrderInv
<1>1. CASE eventQueue = <<>> /\ step' = [step EXCEPT ![l] = "idle"] /\ isProcessing' = FALSE
           /\ UNCHANGED <<eventQueue, item>>
  <2>1. RunsInOrder'
    BY <1>1 DEF RunsInOrder, TypeOK
  <2>2. QueueInOrder'
    BY <1>1 DEF QueueInOrder
  <2>3. DeliveredIsHeld'
    BY <1>1 DEF DeliveredIsHeld, Queued, Storing, TypeOK
  <2>4. RunsAlone'
    BY <1>1 DEF RunsAlone, OneInstance, TypeOK
  <2>5. QED
    BY <2>1, <2>2, <2>3, <2>4
<1>2. CASE eventQueue # <<>> /\ Take(l, eventQueue) /\ UNCHANGED isProcessing
  <2>1. /\ Len(eventQueue) \in Nat \ {0} /\ Len(eventQueue') = Len(eventQueue) - 1
        /\ item'[l] = eventQueue[1] /\ step'[l] = "storing"
        /\ \A j \in 1..(Len(eventQueue) - 1) : eventQueue'[j] = eventQueue[j + 1]
        /\ \A k \in Loops : k # l => step'[k] = step[k] /\ item'[k] = item[k]
    BY <1>2, TailFacts DEF Take, TypeOK
  <2>2. \A k \in Messages : (\E a \in Loops : Storing(a, k)) =>
           Answered(k)' \/ \E a \in Loops : a # l /\ Storing(a, k) /\ Storing(a, k)'
    <3> SUFFICES ASSUME NEW k \in Messages, NEW a \in Loops, Storing(a, k)
                 PROVE  Answered(k)' \/ (a # l /\ Storing(a, k) /\ Storing(a, k)')
      OBVIOUS
    <3>1. CASE a = l
      BY <3>1 DEF Storing
    <3>2. CASE a # l
      BY <2>1, <3>2 DEF Storing
    <3>3. QED
      BY <3>1, <3>2
  <2>3. RunsInOrder'
    <3>1. ASSUME item'[l] \in Messages, NEW k \in Messages, k < item'[l]
          PROVE  Answered(k)'
      <4>1. ~closed
        BY <2>1, <3>1, BridgeAssumption DEF RunsAlone, Messages
      <4>2. Answered(k) \/ \E a \in Loops : Storing(a, k)
        BY <2>1, <3>1 DEF QueueInOrder
      <4>3. \A a \in Loops : Storing(a, k) => a = l
        BY <4>1 DEF RunsAlone, OneInstance, Storing
      <4>4. QED
        BY <2>2, <4>2, <4>3
    <3>2. QED
      BY <2>1, <3>1 DEF RunsInOrder
  <2>4. \A k \in Messages : \A j \in 1..Len(eventQueue) : eventQueue[j] = k =>
           Storing(l, k)' \/ (j > 1 /\ j - 1 \in 1..Len(eventQueue') /\ eventQueue'[j - 1] = k)
    BY <2>1 DEF Storing
  <2>5. QueueInOrder'
    <3> SUFFICES ASSUME NEW i \in 1..Len(eventQueue'), eventQueue'[i] \in Messages,
                        NEW k \in Messages, k < eventQueue'[i]
                 PROVE  Answered(k)' \/ (\E j \in 1..(i - 1) : eventQueue'[j] = k)
                        \/ \E a \in Loops : Storing(a, k)'
      BY DEF QueueInOrder
    <3>1. i + 1 \in 1..Len(eventQueue) /\ eventQueue'[i] = eventQueue[i + 1] /\ i \in Nat
      BY <2>1
    <3>2. Answered(k) \/ (\E j \in 1..i : eventQueue[j] = k) \/ \E a \in Loops : Storing(a, k)
      BY <3>1 DEF QueueInOrder
    <3>3. ASSUME NEW j \in 1..i, eventQueue[j] = k
          PROVE  Storing(l, k)' \/ \E b \in 1..(i - 1) : eventQueue'[b] = k
      BY <2>1, <2>4, <3>1, <3>3
    <3>4. QED
      BY <2>2, <3>2, <3>3
  <2>6. DeliveredIsHeld'
    <3> SUFFICES ASSUME streaming', NEW k \in Messages, k <= cursor'
                 PROVE  Answered(k)' \/ Queued(k)' \/ \E a \in Loops : Storing(a, k)'
      BY DEF DeliveredIsHeld
    <3>1. Answered(k) \/ Queued(k) \/ \E a \in Loops : Storing(a, k)
      BY DEF DeliveredIsHeld
    <3>2. Queued(k) => Storing(l, k)' \/ Queued(k)'
      BY <2>4 DEF Queued
    <3>3. QED
      BY <2>2, <3>1, <3>2
  <2>7. RunsAlone'
    BY <1>2, <2>1 DEF RunsAlone, OneInstance
  <2>8. QED
    BY <2>3, <2>5, <2>6, <2>7
<1>3. QED
  BY <1>1, <1>2 DEF Advance

\* An event is queued, and a run takes it at once when there is none.
LEMMA TriggerOrder ==
  ASSUME TypeOK, OrderInv, NEW i \in Items, Trigger(Append(eventQueue, i)),
         i \in Messages => ~closed /\ \A k \in Messages : k < i => Held(k),
         UNCHANGED <<link, streaming, closed, inbox, failed>>
  PROVE  /\ RunsInOrder' /\ QueueInOrder' /\ RunsAlone'
         /\ \A k \in Messages : Held(k) \/ k = i => Held(k)'
<1> USE DEF OrderInv
<1>1. \A k \in Messages : Answered(k) <=> Answered(k)'
  BY DEF Answered
<1>2. CASE isProcessing /\ eventQueue' = Append(eventQueue, i) /\ UNCHANGED <<isProcessing, step, item>>
  <2>1. /\ Len(eventQueue) \in Nat /\ Len(eventQueue') = Len(eventQueue) + 1
        /\ \A j \in 1..Len(eventQueue) : eventQueue'[j] = eventQueue[j]
        /\ eventQueue'[Len(eventQueue) + 1] = i
    BY <1>2, AppendFacts DEF TypeOK
  <2>2. \A k \in Messages : \A l \in Loops : Storing(l, k) <=> Storing(l, k)'
    BY <1>2 DEF Storing
  <2>3. RunsInOrder'
    BY <1>1, <1>2 DEF RunsInOrder
  <2>4. QueueInOrder'
    <3> SUFFICES ASSUME NEW n \in 1..Len(eventQueue'), eventQueue'[n] \in Messages,
                        NEW k \in Messages, k < eventQueue'[n]
                 PROVE  Answered(k)' \/ (\E j \in 1..(n - 1) : eventQueue'[j] = k)
                        \/ \E a \in Loops : Storing(a, k)'
      BY DEF QueueInOrder
    <3>1. CASE n \in 1..Len(eventQueue)
      <4>1. Answered(k) \/ (\E j \in 1..(n - 1) : eventQueue[j] = k) \/ \E a \in Loops : Storing(a, k)
        BY <2>1, <3>1 DEF QueueInOrder
      <4>2. \A j \in 1..(n - 1) : eventQueue'[j] = eventQueue[j]
        BY <2>1, <3>1
      <4>3. QED
        BY <1>1, <2>2, <4>1, <4>2
    <3>2. CASE n = Len(eventQueue) + 1
      <4>1. Held(k)
        BY <2>1, <3>2
      <4>2. Queued(k) => \E j \in 1..(n - 1) : eventQueue'[j] = k
        BY <2>1, <3>2 DEF Queued
      <4>3. QED
        BY <1>1, <2>2, <4>1, <4>2 DEF Held
    <3>3. QED
      BY <2>1, <3>1, <3>2
  <2>5. RunsAlone'
    <3>1. closed => i = JsEvent
      BY DEF Items
    <3>2. closed => \A j \in 1..Len(eventQueue') : eventQueue'[j] = JsEvent
      BY <2>1, <3>1 DEF RunsAlone
    <3>3. QED
      BY <1>2, <3>2 DEF RunsAlone, OneInstance
  <2>6. \A k \in Messages : Held(k) \/ k = i => Held(k)'
    <3>1. \A k \in Messages : Queued(k) \/ k = i => Queued(k)'
      BY <2>1 DEF Queued
    <3>2. QED
      BY <1>1, <2>2, <3>1 DEF Held
  <2>7. QED
    BY <2>3, <2>4, <2>5, <2>6
<1>3. CASE ~isProcessing
  <2>1. eventQueue = <<>>
    BY <1>3 DEF RunsAlone
  <2>2. PICK l \in Loops : step[l] = "idle" /\ Take(l, Append(eventQueue, i))
    BY <1>3 DEF Trigger
  <2>3. /\ isProcessing' = TRUE /\ eventQueue' = <<>>
        /\ step'[l] = "storing" /\ item'[l] = i
        /\ \A k \in Loops : k # l => step'[k] = step[k] /\ item'[k] = item[k]
    BY <1>3, <2>1, <2>2, FirstOfOne DEF Trigger, Take, TypeOK
  <2>4. ~closed => \A a \in Loops : step[a] = "idle"
    BY <1>3 DEF RunsAlone
  <2>5. \A k \in Messages : ~Queued(k)
    BY <2>1 DEF Queued
  <2>6. RunsInOrder'
    <3>1. ASSUME i \in Messages, NEW k \in Messages, k < i
          PROVE  Answered(k)
      BY <2>4, <2>5, <3>1 DEF Held, Storing
    <3>2. QED
      BY <1>1, <2>3, <3>1 DEF RunsInOrder
  <2>7. QueueInOrder'
    BY <2>3 DEF QueueInOrder
  <2>8. RunsAlone'
    BY <2>2, <2>3, <2>4 DEF RunsAlone, OneInstance
  <2>9. ASSUME NEW k \in Messages, Held(k) \/ k = i
        PROVE  Held(k)'
    <3>1. k = i => Storing(l, k)'
      BY <2>3 DEF Storing
    <3>2. ASSUME NEW a \in Loops, Storing(a, k)
          PROVE  Storing(a, k)'
      BY <2>2, <2>3, <3>2 DEF Storing
    <3>3. QED
      BY <1>1, <2>5, <2>9, <3>1, <3>2 DEF Held
  <2>10. QED
    BY <2>6, <2>7, <2>8, <2>9
<1>4. QED
  BY <1>2, <1>3 DEF Trigger

\* The store's answers are never taken back.
LEMMA AnsweredStays ==
  ASSUME TypeOK, [Next]_vars
  PROVE  \A m \in Messages : Answered(m) => Answered(m)'
<1>1. CASE UNCHANGED ghostVars
  BY <1>1 DEF Answered, ghostVars
<1>2. ASSUME NEW l \in Loops, Stored(l)
      PROVE  \A m \in Messages : Answered(m) => Answered(m)'
  BY <1>2 DEF Stored, Counted, Answered, TypeOK, Items
<1>3. ASSUME NEW l \in Loops, StoreFailed(l)
      PROVE  \A m \in Messages : Answered(m) => Answered(m)'
  BY <1>3 DEF StoreFailed, Answered
<1>4. QED
  BY <1>1, <1>2, <1>3
     DEF Next, HandleStep, Send, Start, Opened, Refused, ReconnectTimer, UpdateClients,
         Deliver, QueueJsEvent, Close, Crash, Saved, vars

\* No run is started, ended or given an event.
LEMMA QuietOrder ==
  ASSUME OrderInv, UNCHANGED <<loopVars, ghostVars, closed>>, closed => UNCHANGED <<streaming, link>>,
         streaming' => \A k \in Messages : k <= cursor' => Held(k)
  PROVE  RunsInOrder' /\ QueueInOrder' /\ DeliveredIsHeld' /\ RunsAlone'
<1> USE DEF OrderInv
<1>1. \A m \in Messages : Answered(m) <=> Answered(m)'
  BY DEF Answered, ghostVars
<1>2. \A k \in Messages : Held(k) <=> Held(k)'
  BY <1>1 DEF Held, Queued, Storing, loopVars
<1>3. RunsInOrder' /\ QueueInOrder'
  BY <1>1 DEF RunsInOrder, QueueInOrder, Storing, loopVars
<1>4. DeliveredIsHeld'
  BY <1>2 DEF DeliveredIsHeld, Held
<1>5. RunsAlone'
  BY DEF RunsAlone, OneInstance, loopVars
<1>6. QED
  BY <1>3, <1>4, <1>5

\* Ids the connection goes on from are those of answered messages, whatever step is taken.
LEMMA IdsStep ==
  ASSUME TypeOK, OrderInv, [Next]_vars
  PROVE  IdsAnswered'
<1> USE DEF OrderInv
<1>1. \A m \in Messages : Answered(m) => Answered(m)'
  BY AnsweredStays
<1>2. CASE /\ lastEventId' \in {0, lastEventId, savedId}
           /\ resume' \in {0, resume, lastEventId, lastEventId'}
           /\ savedId' = savedId
  BY <1>1, <1>2 DEF IdsAnswered, Messages
<1>3. ASSUME NEW l \in Loops, Stored(l)
      PROVE  IdsAnswered'
  <2>1. CASE UNCHANGED lastEventId
    BY <1>2, <1>3, <2>1 DEF Stored, linkVars
  <2>2. CASE item[l] \notin {JsEvent, lastEventId} /\ lastEventId' = item[l]
    <3>1. item[l] \in Messages /\ inbox'[item[l]] > 0
      BY <1>3, <2>2 DEF Stored, Counted, TypeOK, Items
    <3>2. \A k \in Messages : k <= item[l] => Answered(k)'
      <4> SUFFICES ASSUME NEW k \in Messages, k <= item[l] PROVE Answered(k)'
        OBVIOUS
      <4>1. CASE k = item[l]
        BY <3>1, <4>1 DEF Answered
      <4>2. CASE k < item[l]
        BY <1>1, <1>3, <3>1, <4>2 DEF RunsInOrder, Stored
      <4>3. QED
        BY <3>1, <4>1, <4>2 DEF Messages
    <3>3. UNCHANGED <<savedId, resume>>
      BY <1>3 DEF Stored, linkVars
    <3>4. QED
      BY <1>1, <2>2, <3>2, <3>3 DEF IdsAnswered
  <2>3. QED
    BY <1>3, <2>1, <2>2 DEF Stored
<1>4. ASSUME NEW l \in Loops, Saved(l)
      PROVE  IdsAnswered'
  <2>1. UNCHANGED <<lastEventId, resume>> /\ savedId' \in {savedId, item[l]} /\ step[l] = "saving"
    BY <1>4 DEF Saved, linkVars
  <2>2. \A k \in Messages : k <= item[l] => Answered(k)
    BY <2>1 DEF RunsInOrder
  <2>3. QED
    BY <1>1, <2>1, <2>2 DEF IdsAnswered
<1>5. ASSUME NEW l \in Loops, StoreFailed(l)
      PROVE  IdsAnswered'
  BY <1>2, <1>5 DEF StoreFailed, linkVars, idVars
<1>6. CASE Start \/ Crash
  BY <1>2, <1>6 DEF Start, Load, Connect, Crash
<1>7. CASE Send \/ Opened \/ Refused \/ ReconnectTimer \/ UpdateClients \/ Deliver
           \/ QueueJsEvent \/ Close \/ UNCHANGED vars
  BY <1>2, <1>7 DEF Send, Opened, Refused, ReconnectTimer, UpdateClients, Deliver, QueueJsEvent,
                    Close, Connect, vars, linkVars, idVars
<1>8. QED
  BY <1>3, <1>4, <1>5, <1>6, <1>7 DEF Next, HandleStep

\* The store has answered for the event run l is storing.
LEMMA StoredAnswers ==
  ASSUME TypeOK, NEW l \in Loops, Stored(l) \/ StoreFailed(l)
  PROVE  \A m \in Messages : item[l] = m => Answered(m)'
<1>1. ASSUME Stored(l), NEW m \in Messages, item[l] = m
      PROVE  Answered(m)'
  BY <1>1, BridgeAssumption DEF Stored, Counted, Answered, TypeOK, Messages
<1>2. ASSUME StoreFailed(l), NEW m \in Messages, item[l] = m
      PROVE  Answered(m)'
  BY <1>2, BridgeAssumption DEF StoreFailed, Answered, Messages
<1>3. QED
  BY <1>1, <1>2

\* The run moves lastEventId to the message just stored, and saves it.
LEMMA SavingOrder ==
  ASSUME TypeOK, OrderInv, NEW l \in Loops, Stored(l), step' = [step EXCEPT ![l] = "saving"],
         item[l] \notin {JsEvent, lastEventId}, UNCHANGED <<eventQueue, isProcessing, item>>,
         \A m \in Messages : Answered(m) => Answered(m)'
  PROVE  RunsInOrder' /\ QueueInOrder' /\ DeliveredIsHeld' /\ RunsAlone'
<1> USE DEF OrderInv
<1>1. \A m \in Messages : item[l] = m => Answered(m)'
  BY StoredAnswers
<1>2. /\ step[l] = "storing" /\ step'[l] = "saving" /\ item[l] \in Messages
      /\ \A a \in Loops : a # l => step'[a] = step[a]
      /\ UNCHANGED <<streaming, cursor, link, closed>>
  BY DEF Stored, TypeOK, Items, linkVars
<1>3. ASSUME NEW k \in Messages, NEW a \in Loops, Storing(a, k)
      PROVE  Answered(k)' \/ Storing(a, k)'
  <2>1. CASE a = l
    BY <1>1, <1>3, <2>1 DEF Storing
  <2>2. CASE a # l
    BY <1>2, <1>3, <2>2 DEF Storing
  <2>3. QED
    BY <2>1, <2>2
<1>4. RunsInOrder'
  <2>1. \A k \in Messages : k <= item[l] => Answered(k)'
    <3> SUFFICES ASSUME NEW k \in Messages, k <= item[l] PROVE Answered(k)'
      OBVIOUS
    <3>1. CASE k = item[l]
      BY <1>1, <3>1
    <3>2. CASE k < item[l]
      BY <1>2, <3>2 DEF RunsInOrder
    <3>3. QED
      BY <1>2, <3>1, <3>2 DEF Messages
  <2>2. QED
    BY <1>2, <2>1 DEF RunsInOrder
<1>5. QueueInOrder'
  BY <1>3 DEF QueueInOrder
<1>6. DeliveredIsHeld'
  BY <1>2, <1>3 DEF DeliveredIsHeld, Queued
<1>7. RunsAlone'
  BY <1>2 DEF RunsAlone, OneInstance
<1>8. QED
  BY <1>4, <1>5, <1>6, <1>7

LEMMA OrderStep ==
  ASSUME ClosedAtRest, TypeOK, OrderInv, [Next]_vars
  PROVE  OrderInv'
<1> USE DEF OrderInv
<1>1. IdsAnswered'
  BY IdsStep
<1>2. \A m \in Messages : Answered(m) => Answered(m)'
  BY AnsweredStays
<1>3. SUFFICES RunsInOrder' /\ QueueInOrder' /\ DeliveredIsHeld' /\ RunsAlone'
  BY <1>1
<1>4. streaming => \A k \in Messages : k <= cursor => Held(k)
  BY DEF DeliveredIsHeld, Held
<1>5. CASE Send \/ Start \/ Refused \/ ReconnectTimer \/ UpdateClients \/ UNCHANGED vars
  <2>1. UNCHANGED <<loopVars, ghostVars, closed, streaming, cursor>>
    BY <1>5 DEF Send, Start, Refused, ReconnectTimer, UpdateClients, Connect, vars, linkVars
  <2>2. closed => UNCHANGED link
    BY <1>5 DEF Send, Start, Refused, ReconnectTimer, UpdateClients, Connect, vars, linkVars,
                RunsAlone
  <2>3. QED
    BY <1>4, <2>1, <2>2, QuietOrder
<1>6. CASE Opened
  <2>1. UNCHANGED <<loopVars, ghostVars, closed>> /\ ~closed /\ cursor' = resume
    BY <1>6 DEF Opened, RunsAlone
  <2>2. \A k \in Messages : k <= cursor' => Held(k)
    BY <2>1 DEF IdsAnswered, Held
  <2>3. QED
    BY <2>1, <2>2, QuietOrder
<1>7. CASE Deliver
  <2>1. /\ streaming /\ ~closed /\ cursor' = cursor + 1
        /\ cursor' \in Items /\ cursor \in Nat
        /\ UNCHANGED <<link, streaming, closed, inbox, failed>>
    BY <1>7, BridgeAssumption
       DEF Deliver, RunsAlone, TypeOK, Items, Messages, Ids, ghostVars
  <2>2. PICK i \in Items : i = cursor' /\ Trigger(Append(eventQueue, i))
    BY <1>7, <2>1 DEF Deliver
  <2>3. \A k \in Messages : k < i => Held(k)
    BY <1>4, <2>1, <2>2 DEF Messages
  <2>4. RunsInOrder' /\ QueueInOrder' /\ RunsAlone' /\ \A k \in Messages : Held(k) \/ k = i => Held(k)'
    BY <2>1, <2>2, <2>3, TriggerOrder
  <2>5. \A k \in Messages : k <= cursor' => Held(k)'
    BY <1>4, <2>1, <2>2, <2>4 DEF Messages
  <2>6. QED
    BY <2>4, <2>5 DEF DeliveredIsHeld, Held
<1>8. CASE QueueJsEvent
  <2>1. /\ JsEvent \in Items /\ JsEvent \notin Messages /\ Trigger(Append(eventQueue, JsEvent))
        /\ UNCHANGED <<link, streaming, cursor, closed, inbox, failed>>
    BY <1>8, BridgeAssumption, ConstantTypes DEF QueueJsEvent, Messages, linkVars, ghostVars
  <2>2. RunsInOrder' /\ QueueInOrder' /\ RunsAlone' /\ \A k \in Messages : Held(k) => Held(k)'
    BY <2>1, TriggerOrder
  <2>3. QED
    BY <1>4, <2>1, <2>2 DEF DeliveredIsHeld, Held
<1>9. CASE Close
  <2>1. RunsInOrder'
    BY <1>2, <1>9 DEF Close, RunsInOrder
  <2>2. QueueInOrder' /\ DeliveredIsHeld'
    BY <1>9 DEF Close, QueueInOrder, DeliveredIsHeld
  <2>3. RunsAlone'
    BY <1>9 DEF Close, RunsAlone, ClosedAtRest
  <2>4. QED
    BY <2>1, <2>2, <2>3
<1>10. CASE Crash
  BY <1>10 DEF Crash, RunsInOrder, QueueInOrder, DeliveredIsHeld, RunsAlone, OneInstance
<1>11. ASSUME NEW l \in Loops, HandleStep(l)
       PROVE  RunsInOrder' /\ QueueInOrder' /\ DeliveredIsHeld' /\ RunsAlone'
  <2>1. step[l] # "idle" /\ UNCHANGED <<link, streaming, cursor, closed>>
    BY <1>11 DEF HandleStep, Stored, StoreFailed, Saved, linkVars
  <2>2. \A m \in Messages : item[l] = m => Answered(m)'
    <3>1. CASE Stored(l) \/ StoreFailed(l)
      BY <3>1, StoredAnswers
    <3>2. CASE Saved(l)
      BY <1>2, <3>2 DEF Saved, RunsInOrder, Messages
    <3>3. QED
      BY <1>11, <3>1, <3>2 DEF HandleStep
  <2>3. CASE Advance(l)
    BY <1>2, <2>1, <2>2, <2>3, AdvanceOrder
  <2>4. CASE /\ Stored(l) /\ step' = [step EXCEPT ![l] = "saving"]
             /\ item[l] \notin {JsEvent, lastEventId} /\ UNCHANGED <<eventQueue, isProcessing, item>>
    BY <1>2, <2>4, SavingOrder
  <2>5. QED
    BY <1>11, <2>3, <2>4 DEF HandleStep, Stored, StoreFailed, Saved
<1>12. QED
  BY <1>5, <1>6, <1>7, <1>8, <1>9, <1>10, <1>11 DEF Next

LEMMA OrderInit == Init => OrderInv
  BY DEF Init, OrderInv, IdsAnswered, RunsInOrder, QueueInOrder, DeliveredIsHeld, RunsAlone,
         OneInstance, Messages

\* The inductive invariant, of a kit that is closed at rest.
THEOREM BridgeInOrder == ClosedAtRest => (Spec => [](TypeOK /\ OrderInv))
<1> SUFFICES ASSUME ClosedAtRest PROVE Spec => [](TypeOK /\ OrderInv)
  OBVIOUS
<1>1. TypeOK /\ OrderInv /\ [Next]_vars => OrderInv'
  BY OrderStep
<1>2. QED
  BY <1>1, OrderInit, BridgeTypeCorrect, PTL DEF Spec

\* No message the server has been told to pass over is lost.
THEOREM BridgeAckedIsStored == ClosedAtRest => (Spec => []AckedIsStored)
<1> SUFFICES ASSUME ClosedAtRest PROVE Spec => []AckedIsStored
  OBVIOUS
<1>1. OrderInv => AckedIsStored
  BY DEF OrderInv, IdsAnswered, Answered, AckedIsStored
<1>2. QED
  BY <1>1, BridgeInOrder, PTL

\* No event waits in the queue without a run that will take it.
THEOREM BridgeQueueIsAttended == ClosedAtRest => (Spec => []QueueIsAttended)
<1> SUFFICES ASSUME ClosedAtRest PROVE Spec => []QueueIsAttended
  OBVIOUS
<1>1. OrderInv => QueueIsAttended
  BY DEF OrderInv, RunsAlone, QueueIsAttended
<1>2. QED
  BY <1>1, BridgeInOrder, PTL

\* Messages reach the store for the first time in the order they were sent.
THEOREM BridgeStoresInOrder == ClosedAtRest => (Spec => FirstStoredInOrder)
<1> SUFFICES ASSUME ClosedAtRest PROVE Spec => FirstStoredInOrder
  OBVIOUS
<1> DEFINE InOrder == \A m \in Messages : inbox[m] = 0 /\ inbox'[m] > 0 =>
                        \A k \in 1..(m - 1) : inbox[k] > 0 \/ k \in failed
<1>1. ASSUME TypeOK, OrderInv, [Next]_vars
      PROVE  [InOrder]_vars
  <2>1. CASE UNCHANGED inbox
    BY <2>1 DEF Messages
  <2>2. ASSUME NEW l \in Loops, Stored(l)
        PROVE  InOrder
    <3> SUFFICES ASSUME NEW m \in Messages, inbox[m] = 0, inbox'[m] > 0, NEW k \in 1..(m - 1)
                 PROVE  inbox[k] > 0 \/ k \in failed
      OBVIOUS
    <3>1. m = item[l]
      BY <2>2 DEF Stored, Counted, TypeOK, Items
    <3>2. k \in Messages /\ k < m
      BY BridgeAssumption DEF Messages
    <3>3. step[l] = "storing" /\ item[l] \in Messages /\ k < item[l]
      BY <2>2, <3>1, <3>2 DEF Stored
    <3>4. Answered(k)
      BY <1>1, <3>2, <3>3 DEF OrderInv, RunsInOrder
    <3>5. QED
      BY <3>4 DEF Answered
  <2>3. QED
    BY <1>1, <2>1, <2>2
       DEF Next, HandleStep, Send, Start, Opened, Refused, ReconnectTimer, UpdateClients,
           Deliver, QueueJsEvent, Close, Crash, Saved, StoreFailed, ghostVars, vars
<1>2. QED
  BY <1>1, BridgeInOrder, PTL DEF Spec, FirstStoredInOrder
-----------------------------------------------------------------------------
(* What is saved is not stored again. *)

\* A run that handles a message.
Holds(l) == step[l] # "idle" /\ item[l] \in Messages

QueuedMessage(i) == i \in 1..Len(eventQueue) /\ eventQueue[i] \in Messages

\* A connection is made from the saved id, by a bridge that holds no message.
ConnectsFromSaved ==
    /\ link # "updating"
    /\ link \in {"off", "connecting", "waiting"} => ~streaming
    /\ link \in {"connecting", "waiting"} => lastEventId = savedId
    /\ link = "connecting" => resume = savedId
    /\ ~closed /\ ~streaming => /\ \A l \in Loops : ~Holds(l)
                                /\ \A i \in 1..Len(eventQueue) : ~QueuedMessage(i)

\* The messages it holds are unsaved, and in the order the connection delivered them.
HeldAreUnsaved ==
    /\ \A l \in Loops : Holds(l) /\ step[l] = "storing" => item[l] > savedId
    /\ \A k, l \in Loops : Holds(k) /\ Holds(l) => k = l
    /\ \A l \in Loops : \A i \in 1..Len(eventQueue) :
          Holds(l) /\ QueuedMessage(i) => item[l] < eventQueue[i]
    /\ \A i \in 1..Len(eventQueue) : QueuedMessage(i) => eventQueue[i] > savedId
    /\ \A i, j \in 1..Len(eventQueue) :
          QueuedMessage(i) /\ QueuedMessage(j) /\ i < j => eventQueue[i] < eventQueue[j]
    /\ streaming => /\ savedId <= cursor
                    /\ \A l \in Loops : Holds(l) => item[l] <= cursor
                    /\ \A i \in 1..Len(eventQueue) : QueuedMessage(i) => eventQueue[i] <= cursor

\* Until a client joins or a storage call fails.
FreshInv == updates = 0 /\ faults = 0 => ConnectsFromSaved /\ HeldAreUnsaved

\* Only updateClients counts an update, and only a failed call a fault.
LEMMA CountsStay ==
  ASSUME TypeOK, [Next]_vars, updates' = 0, faults' = 0
  PROVE  updates = 0 /\ faults = 0 /\ ~UpdateClients /\ ~Fault
<1>1. ~UpdateClients /\ ~Fault
  BY DEF UpdateClients, Fault, TypeOK
<1>2. \A l \in Loops : ~StoreFailed(l)
  BY <1>1 DEF StoreFailed
<1>3. QED
  BY <1>1, <1>2
     DEF Next, HandleStep, Send, Start, Load, Opened, Refused, ReconnectTimer, Deliver,
         QueueJsEvent, Close, Crash, Stored, Saved, vars, boundVars

\* Taking the first event of the queue, a run keeps the order of those it holds.
LEMMA AdvanceUnsaved ==
  ASSUME TypeOK, ConnectsFromSaved, HeldAreUnsaved, NEW l \in Loops, Advance(l), step[l] # "idle",
         savedId' = savedId \/ (Holds(l) /\ savedId' = item[l]),
         UNCHANGED <<link, resume, cursor, streaming, closed, lastEventId>>,
         closed => link = "off", closed => \A i \in 1..Len(eventQueue) : eventQueue[i] = JsEvent,
         ~closed => OneInstance
  PROVE  ConnectsFromSaved' /\ HeldAreUnsaved'
<1>1. CASE eventQueue = <<>> /\ step' = [step EXCEPT ![l] = "idle"] /\ isProcessing' = FALSE
           /\ UNCHANGED <<eventQueue, item>>
  <2>1. \A k \in Loops : Holds(k)' => k # l /\ Holds(k)
    BY <1>1 DEF Holds, TypeOK
  <2>2. Holds(l) => \A k \in Loops : ~Holds(k)'
    BY <2>1 DEF HeldAreUnsaved
  <2>3. \A i \in 1..Len(eventQueue') : ~QueuedMessage(i)'
    BY <1>1 DEF QueuedMessage, TypeOK
  <2>4. savedId' # savedId => streaming \/ closed
    BY DEF ConnectsFromSaved
  <2>5. ConnectsFromSaved'
    BY <2>1, <2>3, <2>4 DEF ConnectsFromSaved
  <2>6. \A k \in Loops : Holds(k)' => savedId' = savedId /\ item'[k] = item[k] /\ step'[k] = step[k]
    BY <1>1, <2>1, <2>2 DEF TypeOK
  <2>7. HeldAreUnsaved'
    BY <2>1, <2>3, <2>6 DEF HeldAreUnsaved
  <2>8. QED
    BY <2>5, <2>7
<1>2. CASE eventQueue # <<>> /\ Take(l, eventQueue) /\ UNCHANGED isProcessing
  <2>1. /\ Len(eventQueue) \in Nat \ {0} /\ Len(eventQueue') = Len(eventQueue) - 1
        /\ item'[l] = eventQueue[1] /\ step'[l] = "storing"
        /\ \A j \in 1..(Len(eventQueue) - 1) : eventQueue'[j] = eventQueue[j + 1]
        /\ \A k \in Loops : k # l => step'[k] = step[k] /\ item'[k] = item[k]
    BY <1>2, TailFacts DEF Take, TypeOK
  <2>2. \A i \in 1..Len(eventQueue') :
           /\ i + 1 \in 1..Len(eventQueue) /\ eventQueue'[i] = eventQueue[i + 1] /\ 1 < i + 1
           /\ QueuedMessage(i)' <=> QueuedMessage(i + 1)
    BY <2>1 DEF QueuedMessage
  <2>3. Holds(l)' <=> QueuedMessage(1)
    BY <2>1 DEF Holds, QueuedMessage
  <2>4. \A k \in Loops : k # l => (Holds(k)' <=> Holds(k))
    BY <2>1 DEF Holds
  <2>5. 1 \in 1..Len(eventQueue)
    BY <2>1
  <2>6. \A i \in 1..Len(eventQueue) : QueuedMessage(i) => eventQueue[i] > savedId'
    BY DEF HeldAreUnsaved, Holds, QueuedMessage, Messages
  <2>7. ConnectsFromSaved'
    <3>1. savedId' # savedId => streaming \/ closed
      BY DEF ConnectsFromSaved
    <3>2. QED
      BY <2>2, <2>3, <2>4, <2>5, <3>1 DEF ConnectsFromSaved
  <2>8. \A k \in Loops : Holds(k)' /\ step'[k] = "storing" => item'[k] > savedId'
    <3>1. Holds(l)' => item'[l] > savedId'
      BY <2>1, <2>3, <2>5, <2>6
    <3>2. \A k \in Loops : k # l /\ Holds(k) => savedId' = savedId
      BY DEF HeldAreUnsaved
    <3>3. QED
      BY <2>1, <2>4, <3>1, <3>2 DEF HeldAreUnsaved
  <2>9. \A k, m \in Loops : Holds(k)' /\ Holds(m)' => k = m
    <3>1. Holds(l)' => ~closed
      BY <2>3, <2>5, BridgeAssumption DEF QueuedMessage, Messages
    <3>2. \A k \in Loops : k # l /\ Holds(k) => ~Holds(l)'
      BY <3>1 DEF OneInstance, Holds
    <3>3. QED
      BY <2>4, <3>2 DEF HeldAreUnsaved
  <2>10. \A k \in Loops : \A i \in 1..Len(eventQueue') :
            Holds(k)' /\ QueuedMessage(i)' => item'[k] < eventQueue'[i]
    BY <2>1, <2>2, <2>3, <2>4, <2>5 DEF HeldAreUnsaved
  <2>11. \A i \in 1..Len(eventQueue') : QueuedMessage(i)' => eventQueue'[i] > savedId'
    BY <2>2, <2>6
  <2>12. \A i, j \in 1..Len(eventQueue') :
            QueuedMessage(i)' /\ QueuedMessage(j)' /\ i < j => eventQueue'[i] < eventQueue'[j]
    BY <2>2 DEF HeldAreUnsaved
  <2>13. streaming' => /\ savedId' <= cursor'
                       /\ \A k \in Loops : Holds(k)' => item'[k] <= cursor'
                       /\ \A i \in 1..Len(eventQueue') : QueuedMessage(i)' => eventQueue'[i] <= cursor'
    BY <2>1, <2>2, <2>3, <2>4, <2>5 DEF HeldAreUnsaved
  <2>14. QED
    BY <2>7, <2>8, <2>9, <2>10, <2>11, <2>12, <2>13 DEF HeldAreUnsaved
<1>3. QED
  BY <1>1, <1>2 DEF Advance

\* An event is queued: one of the injected bridge, or the next message of the connection.
LEMMA TriggerUnsaved ==
  ASSUME TypeOK, RunsAlone, ConnectsFromSaved, HeldAreUnsaved,
         NEW i \in Items, Trigger(Append(eventQueue, i)),
         UNCHANGED <<link, resume, streaming, closed, lastEventId, savedId>>,
         \/ i = JsEvent /\ cursor' = cursor
         \/ streaming /\ cursor' = cursor + 1 /\ i = cursor'
  PROVE  ConnectsFromSaved' /\ HeldAreUnsaved'
<1>0. PICK n \in Nat : n = Len(eventQueue)
  BY AppendFacts DEF TypeOK
<1>1. /\ cursor \in Nat /\ savedId \in Nat /\ cursor <= cursor'
      /\ i \in Messages => i > cursor /\ i <= cursor' /\ streaming
  BY BridgeAssumption DEF TypeOK, Ids, Messages
<1>2. \A m \in Messages : m \in Nat
  BY DEF Messages
<1>3. CASE isProcessing
  <2>1. /\ UNCHANGED <<step, item>> /\ Len(eventQueue') = n + 1
        /\ \A j \in 1..n : eventQueue'[j] = eventQueue[j]
        /\ eventQueue'[n + 1] = i
    BY <1>0, <1>3, AppendFacts DEF Trigger, TypeOK
  <2>2. \A k \in Loops : Holds(k)' <=> Holds(k)
    BY <2>1 DEF Holds
  <2>3. \A j \in 1..Len(eventQueue') : j \in 1..n \/ j = n + 1
    BY <1>1, <2>1
  <2>4. /\ \A j \in 1..n : QueuedMessage(j)' <=> QueuedMessage(j)
        /\ QueuedMessage(n + 1)' <=> i \in Messages
        /\ \A j \in 1..n : ~(n + 1 < j) /\ ~(n + 1 < n + 1)
    BY <1>0, <2>1 DEF QueuedMessage
  <2>5. ConnectsFromSaved'
    BY <1>0, <1>1, <2>2, <2>3, <2>4 DEF ConnectsFromSaved
  <2>6. i \in Messages => /\ \A k \in Loops : Holds(k) => item[k] < i
                          /\ \A j \in 1..n : QueuedMessage(j) => eventQueue[j] < i
                          /\ savedId < i
    BY <1>0, <1>1, <1>2 DEF HeldAreUnsaved, Holds, QueuedMessage
  <2>7. \A k \in Loops : \A j \in 1..Len(eventQueue') :
           Holds(k)' /\ QueuedMessage(j)' => item'[k] < eventQueue'[j]
    BY <1>0, <2>1, <2>2, <2>3, <2>4, <2>6 DEF HeldAreUnsaved
  <2>8. \A j \in 1..Len(eventQueue') : QueuedMessage(j)' => eventQueue'[j] > savedId'
    <3>1. i \in Messages => i > savedId
      BY <1>1, <2>6
    <3>2. QED
      BY <1>0, <2>1, <2>3, <2>4, <3>1 DEF HeldAreUnsaved
  <2>9. \A j, k \in 1..Len(eventQueue') :
           QueuedMessage(j)' /\ QueuedMessage(k)' /\ j < k => eventQueue'[j] < eventQueue'[k]
    BY <1>0, <2>1, <2>3, <2>4, <2>6 DEF HeldAreUnsaved
  <2>10. streaming' => /\ savedId' <= cursor'
                       /\ \A k \in Loops : Holds(k)' => item'[k] <= cursor'
                       /\ \A j \in 1..Len(eventQueue') : QueuedMessage(j)' => eventQueue'[j] <= cursor'
    <3>1. \A m \in Messages : m <= cursor => m <= cursor'
      BY <1>1, <1>2
    <3>2. savedId <= cursor => savedId <= cursor'
      BY <1>1
    <3>3. \A k \in Loops : Holds(k) => item[k] \in Messages
      BY DEF Holds
    <3>4. \A j \in 1..n : QueuedMessage(j) => eventQueue[j] \in Messages
      BY DEF QueuedMessage
    <3>5. QED
      BY <1>0, <1>1, <2>1, <2>2, <2>3, <2>4, <3>1, <3>2, <3>3, <3>4 DEF HeldAreUnsaved
  <2>11. \A k \in Loops : Holds(k)' /\ step'[k] = "storing" => item'[k] > savedId'
    BY <2>1, <2>2 DEF HeldAreUnsaved
  <2>12. \A k, m \in Loops : Holds(k)' /\ Holds(m)' => k = m
    BY <2>2 DEF HeldAreUnsaved
  <2>13. QED
    BY <2>5, <2>7, <2>8, <2>9, <2>10, <2>11, <2>12 DEF HeldAreUnsaved
<1>4. CASE ~isProcessing
  <2>1. eventQueue = <<>>
    BY <1>4 DEF RunsAlone
  <2>2. PICK l \in Loops : step[l] = "idle" /\ Take(l, Append(eventQueue, i))
    BY <1>4 DEF Trigger
  <2>3. /\ eventQueue' = <<>> /\ step'[l] = "storing" /\ item'[l] = i
        /\ \A k \in Loops : k # l => step'[k] = step[k] /\ item'[k] = item[k]
    BY <2>1, <2>2, FirstOfOne DEF Take, TypeOK
  <2>4. \A j \in 1..Len(eventQueue') : FALSE
    BY <2>3
  <2>5. /\ Holds(l)' <=> i \in Messages
        /\ \A k \in Loops : k # l => (Holds(k)' <=> Holds(k))
    BY <2>3 DEF Holds
  <2>6. i \in Messages => ~closed /\ \A k \in Loops : ~Holds(k)
    BY <1>1, <1>4 DEF RunsAlone, Holds
  <2>7. ConnectsFromSaved'
    BY <1>1, <2>4, <2>5 DEF ConnectsFromSaved
  <2>8. i \in Messages => i > savedId
    BY <1>1, <1>2 DEF HeldAreUnsaved
  <2>9. \A k \in Loops : Holds(k)' /\ step'[k] = "storing" => item'[k] > savedId'
    BY <2>3, <2>5, <2>8 DEF HeldAreUnsaved
  <2>10. \A k, m \in Loops : Holds(k)' /\ Holds(m)' => k = m
    BY <2>5, <2>6 DEF HeldAreUnsaved
  <2>11. streaming' => savedId' <= cursor' /\ \A k \in Loops : Holds(k)' => item'[k] <= cursor'
    <3>1. \A m \in Messages : m <= cursor => m <= cursor'
      BY <1>1, <1>2
    <3>2. savedId <= cursor => savedId <= cursor'
      BY <1>1
    <3>3. \A k \in Loops : Holds(k) => item[k] \in Messages
      BY DEF Holds
    <3>4. QED
      BY <1>1, <2>3, <2>5, <3>1, <3>2, <3>3 DEF HeldAreUnsaved
  <2>12. QED
    BY <2>4, <2>7, <2>9, <2>10, <2>11 DEF HeldAreUnsaved
<1>5. QED
  BY <1>3, <1>4 DEF TypeOK

\* The events in hand and the saved id stay as they are.
LEMMA QuietUnsaved ==
  ASSUME HeldAreUnsaved, UNCHANGED <<eventQueue, step, item, savedId>>,
         streaming' => streaming /\ cursor' = cursor
  PROVE  HeldAreUnsaved'
  BY DEF HeldAreUnsaved, Holds, QueuedMessage

LEMMA FreshStep ==
  ASSUME ClosedAtRest, TypeOK, OrderInv, FreshInv, [Next]_vars
  PROVE  FreshInv'
<1> USE DEF OrderInv
<1> SUFFICES ASSUME updates' = 0, faults' = 0
             PROVE  ConnectsFromSaved' /\ HeldAreUnsaved'
  BY DEF FreshInv
<1>1. updates = 0 /\ faults = 0 /\ ~UpdateClients /\ ~Fault
  BY CountsStay
<1>2. ConnectsFromSaved /\ HeldAreUnsaved
  BY <1>1 DEF FreshInv
<1>3. closed => /\ link = "off" /\ ~streaming
                /\ \A i \in 1..Len(eventQueue) : eventQueue[i] = JsEvent
  BY DEF RunsAlone
<1>4. CASE Send \/ UNCHANGED vars
  <2>1. UNCHANGED <<eventQueue, step, item, savedId, lastEventId, link, resume, cursor, streaming, closed>>
    BY <1>4 DEF Send, vars, linkVars, loopVars, idVars
  <2>2. ConnectsFromSaved'
    BY <1>2, <2>1 DEF ConnectsFromSaved, Holds, QueuedMessage
  <2>3. QED
    BY <1>2, <2>1, <2>2, QuietUnsaved
<1>5. CASE Start \/ Refused \/ ReconnectTimer
  <2>1. UNCHANGED <<eventQueue, step, item, savedId, cursor, streaming, closed>>
    BY <1>5 DEF Start, Load, Refused, ReconnectTimer, Connect, loopVars, idVars
  <2>2. /\ link \in {"off", "connecting", "waiting"}
        /\ link' \in {"connecting", "waiting", "gaveUp"}
        /\ link' \in {"connecting", "waiting"} => lastEventId' = savedId
        /\ link' = "connecting" => resume' = savedId
    BY <1>1, <1>2, <1>5
       DEF Start, Load, Refused, ReconnectTimer, Connect, idVars, ConnectsFromSaved
  <2>3. ConnectsFromSaved'
    BY <1>2, <2>1, <2>2 DEF ConnectsFromSaved, Holds, QueuedMessage
  <2>4. QED
    BY <1>2, <2>1, <2>3, QuietUnsaved
<1>6. CASE Opened
  <2>1. /\ UNCHANGED <<eventQueue, step, item, savedId>> /\ streaming' /\ link' = "connected"
        /\ ~streaming /\ ~closed /\ cursor' = savedId
    BY <1>2, <1>3, <1>6 DEF Opened, loopVars, idVars, ConnectsFromSaved
  <2>2. /\ \A k \in Loops : ~Holds(k) /\ ~Holds(k)'
        /\ \A i \in 1..Len(eventQueue) : ~QueuedMessage(i) /\ ~QueuedMessage(i)'
    BY <1>2, <2>1 DEF ConnectsFromSaved, Holds, QueuedMessage
  <2>3. savedId \in Nat
    BY BridgeAssumption DEF TypeOK, Ids
  <2>4. QED
    BY <2>1, <2>2, <2>3 DEF ConnectsFromSaved, HeldAreUnsaved
<1>7. CASE Deliver
  <2>1. cursor' \in Items /\ streaming /\ cursor' = cursor + 1
    BY <1>7, BridgeAssumption DEF Deliver, TypeOK, Items, Messages, Ids
  <2>2. PICK i \in Items : i = cursor' /\ Trigger(Append(eventQueue, i))
    BY <1>7, <2>1 DEF Deliver
  <2>3. UNCHANGED <<link, resume, streaming, closed, lastEventId, savedId>>
    BY <1>7 DEF Deliver, idVars
  <2>4. QED
    BY <1>2, <2>1, <2>2, <2>3, TriggerUnsaved
<1>8. CASE QueueJsEvent
  <2>1. /\ JsEvent \in Items /\ Trigger(Append(eventQueue, JsEvent))
        /\ UNCHANGED <<link, resume, cursor, streaming, closed, lastEventId, savedId>>
    BY <1>8, ConstantTypes DEF QueueJsEvent, linkVars, idVars
  <2>2. QED
    BY <1>2, <2>1, TriggerUnsaved
<1>9. CASE Close
  <2>1. /\ closed' /\ ~streaming' /\ eventQueue' = <<>> /\ link' = "off"
        /\ UNCHANGED <<step, item, savedId>>
    BY <1>9 DEF Close, ClosedAtRest, idVars
  <2>2. ConnectsFromSaved'
    BY <2>1 DEF ConnectsFromSaved
  <2>3. \A j \in 1..Len(eventQueue') : FALSE
    BY <2>1
  <2>4. HeldAreUnsaved'
    BY <1>2, <2>1, <2>3 DEF HeldAreUnsaved, Holds
  <2>5. QED
    BY <2>2, <2>4
<1>10. CASE Crash
  <2>1. (\A l \in Loops : ~Holds(l)') /\ ~streaming' /\ link' = "off" /\ eventQueue' = <<>>
    BY <1>10 DEF Crash, Holds
  <2>2. \A j \in 1..Len(eventQueue') : FALSE
    BY <2>1
  <2>3. QED
    BY <2>1, <2>2 DEF ConnectsFromSaved, HeldAreUnsaved
<1>11. ASSUME NEW l \in Loops, HandleStep(l)
       PROVE  ConnectsFromSaved' /\ HeldAreUnsaved'
  <2>1. /\ step[l] # "idle" /\ ~StoreFailed(l)
        /\ UNCHANGED <<link, resume, cursor, streaming, closed>>
    BY <1>1, <1>11 DEF HandleStep, Stored, StoreFailed, Saved, linkVars
  <2>2. CASE Saved(l)
    <3>1. Holds(l) /\ savedId' = item[l] /\ Advance(l) /\ UNCHANGED lastEventId
      BY <1>1, <2>2 DEF Saved, RunsInOrder, Holds
    <3>2. QED
      BY <1>2, <1>3, <2>1, <3>1, AdvanceUnsaved DEF RunsAlone
  <2>3. CASE Stored(l) /\ UNCHANGED lastEventId /\ Advance(l)
    <3>1. UNCHANGED savedId
      BY <2>3 DEF Stored
    <3>2. QED
      BY <1>2, <1>3, <2>1, <2>3, <3>1, AdvanceUnsaved DEF RunsAlone
  <2>4. CASE /\ Stored(l) /\ item[l] \notin {JsEvent, lastEventId}
             /\ step' = [step EXCEPT ![l] = "saving"]
             /\ UNCHANGED <<eventQueue, isProcessing, item>>
    <3>1. Holds(l) /\ UNCHANGED savedId
      BY <2>1, <2>4 DEF Holds, TypeOK, Items, Stored
    <3>2. /\ \A k \in Loops : Holds(k)' <=> Holds(k)
          /\ \A k \in Loops : step'[k] = "storing" => step[k] = "storing"
      BY <2>1, <2>4 DEF Holds, TypeOK
    <3>3. link \notin {"connecting", "waiting"}
      BY <1>2, <1>3, <3>1 DEF ConnectsFromSaved
    <3>4. ConnectsFromSaved'
      BY <1>2, <2>1, <2>4, <3>1, <3>2, <3>3 DEF ConnectsFromSaved, QueuedMessage
    <3>5. HeldAreUnsaved'
      BY <1>2, <2>1, <2>4, <3>1, <3>2 DEF HeldAreUnsaved, QueuedMessage
    <3>6. QED
      BY <3>4, <3>5
  <2>5. QED
    BY <1>11, <2>1, <2>2, <2>3, <2>4 DEF HandleStep, Stored
<1>12. QED
  BY <1>1, <1>4, <1>5, <1>6, <1>7, <1>8, <1>9, <1>10, <1>11 DEF Next

LEMMA FreshInit == Init => FreshInv
  BY DEF Init, FreshInv, ConnectsFromSaved, HeldAreUnsaved, Holds, QueuedMessage

\* A restart alone repeats nothing that was acknowledged: without an update and
\* without a failed call, only a message above the saved id is stored.
THEOREM BridgeRepeatsNothingSaved == ClosedAtRest => (Spec => SavedIsNotRepeated)
<1> SUFFICES ASSUME ClosedAtRest PROVE Spec => SavedIsNotRepeated
  OBVIOUS
<1> DEFINE Unsaved == \A m \in Messages : inbox'[m] > inbox[m] =>
                          m > savedId \/ updates > 0 \/ faults > 0
<1>1. TypeOK /\ OrderInv /\ FreshInv /\ [Next]_vars => FreshInv'
  BY FreshStep
<1>2. ASSUME TypeOK, OrderInv, FreshInv, [Next]_vars
      PROVE  [Unsaved]_vars
  <2>1. CASE UNCHANGED inbox
    BY <1>2, <2>1 DEF TypeOK
  <2>2. ASSUME NEW l \in Loops, Stored(l)
        PROVE  Unsaved
    <3> SUFFICES ASSUME NEW m \in Messages, inbox'[m] > inbox[m], updates = 0, faults = 0
                 PROVE  m > savedId
      BY <1>2 DEF TypeOK
    <3>1. m = item[l]
      BY <1>2, <2>2 DEF Stored, Counted, TypeOK, Items
    <3>2. Holds(l) /\ step[l] = "storing"
      BY <2>2, <3>1 DEF Stored, Holds
    <3>3. QED
      BY <1>2, <3>1, <3>2 DEF FreshInv, HeldAreUnsaved
  <2>3. QED
    BY <1>2, <2>1, <2>2
       DEF Next, HandleStep, Send, Start, Opened, Refused, ReconnectTimer, UpdateClients,
           Deliver, QueueJsEvent, Close, Crash, Saved, StoreFailed, ghostVars, vars
<1>3. QED
  BY <1>1, <1>2, FreshInit, BridgeInOrder, PTL DEF Spec, SavedIsNotRepeated
=============================================================================
