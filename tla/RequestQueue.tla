---------------------------- MODULE RequestQueue ----------------------------
(* The requests of the dApps in front of the user: a queue, one modal for each
   kind of request, and the calls to the wallet kit that an answer takes
   (tonConnectSlice.ts, createWalletStore.ts and authSlice.ts of the demo
   wallet, the modals of its application, RequestProcessor.ts of the kit).
   The user, the dApps and the network are external. *)
EXTENDS Naturals, Sequences, SequencesExt

CONSTANTS
    Requests,
    KindOf,         \* the kind of each request
    Embedded,       \* the request a connect request may bring along, or NoRequest
    NoRequest,
    MaxQueue,       \* MAX_QUEUE_SIZE
    MaxRejects,     \* bound: how often reject is pressed for a request
    MaxTroubles     \* bound: approvals that fail, restarts, logouts

Kinds == {"connect", "transaction", "signData", "signMessage"}

ASSUME QueueAssumption ==
    /\ MaxQueue \in Nat \ {0} /\ MaxRejects \in Nat /\ MaxTroubles \in Nat
    /\ KindOf \in [Requests -> Kinds]
    /\ Embedded \in [Requests -> Requests \cup {NoRequest}]
    /\ NoRequest \notin Requests

VARIABLES
    items,          \* the queue
    current,        \* currentRequestId
    isShowing,      \* isProcessing of the queue
    closeTimers,    \* timers of MODAL_CLOSE_DELAY that are set
    polling,        \* the callback set on rehydration finds requests in its snapshot
    pending,        \* the request in the modal of each kind
    busy,           \* the request whose approval has disabled the buttons of a modal
    approving,      \* how far the approval of each request is
    rejecting,      \* the rejections of each request that are under way
    queueHistory    \* histories, see HistoryInit

screenVars == <<items, current, isShowing, pending>>
callVars == <<approving, rejecting>>
requestVars ==
    <<screenVars, closeTimers, polling, busy, callVars, queueHistory>>

HistoryInit == [
    arrived |-> {},     \* requests the dApps have sent
    expired |-> {},     \* requests whose time is over
    cutOff |-> {},      \* requests the modal or the end of another one took away
    doubled |-> {},     \* requests with a button pressed while a call was under way
    sent |-> {},        \* transactions broadcast, whose approval did not fail since
    sentAgain |-> {},   \* transactions broadcast once more while in `sent`
    troubles |-> 0]     \* approvals that failed, restarts, logouts

OnScreen == {pending[k] : k \in Kinds} \ {NoRequest}
InQueue == {items[i] : i \in DOMAIN items}
Expired(r) == r \in queueHistory.expired

RequestsInit ==
    /\ items = <<>> /\ current = NoRequest /\ isShowing = FALSE
    /\ closeTimers = 0 /\ polling = FALSE
    /\ pending = [k \in Kinds |-> NoRequest] /\ busy = [k \in Kinds |-> NoRequest]
    /\ approving = [r \in Requests |-> "no"] /\ rejecting = [r \in Requests |-> 0]
    /\ queueHistory = HistoryInit

-----------------------------------------------------------------------------
(* processNextRequest() on a queue that shows nothing, with the modals
   `screen`: requests that are over are skipped, the first other is shown. *)
ShowNext(queue, screen) ==
    LET live == {i \in DOMAIN queue : ~Expired(queue[i])}
        rest == IF live = {} THEN <<>> ELSE SubSeq(queue, Min(live), Len(queue))
    IN /\ items' = rest
       /\ isShowing' = (rest # <<>>)
       /\ current' = IF rest = <<>> THEN NoRequest ELSE Head(rest)
       /\ pending' = IF rest = <<>> THEN screen
                     ELSE [screen EXCEPT ![KindOf[Head(rest)]] = Head(rest)]

\* What another request than `own` loses by this step: its modal or its turn.
CutOff(own) ==
    ({q \in OnScreen : pending'[KindOf[q]] # q} \cup {current}) \ {own, current', NoRequest}

\* Array.filter: the requests of the queue that are in `kept`, in its order.
Keep(queue, kept) ==
    LET upTo[n \in 0..Len(queue)] ==
            IF n = 0 THEN <<>>
            ELSE IF queue[n] \in kept THEN Append(upTo[n - 1], queue[n]) ELSE upTo[n - 1]
    IN upTo[Len(queue)]

\* Mutant of Full: one request more.
FullLate(queue) == Len(queue) > MaxQueue
Full(queue) == Len(queue) >= MaxQueue

(* enqueueRequest() on the queue `queue`, with the modals `screen`: a full
   queue is first rid of the requests that are over. *)
Unexpired(queue) == Keep(queue, Requests \ queueHistory.expired)
Enqueue(r, queue, showing, screen) ==
    LET open == IF Full(queue) THEN Unexpired(queue) ELSE queue
    IN IF Full(open) \/ showing
       THEN /\ items' = IF Full(open) THEN open ELSE Append(open, r)
            /\ isShowing' = showing /\ pending' = screen
            /\ current' = IF showing THEN current ELSE NoRequest
       ELSE ShowNext(Append(open, r), screen)

-----------------------------------------------------------------------------
(* The listeners of the kit.  A connect request without a manifest and a
   transaction that exceeds the balance of its wallet are refused at once, and
   a transaction whose wallet is unknown, or whose balance cannot be read, is
   lost; how long the balance takes is left open. *)
Arrive(r) ==
    /\ r \notin queueHistory.arrived
    /\ \/ /\ Enqueue(r, items, isShowing, pending)
          /\ queueHistory' = [queueHistory EXCEPT !.arrived = @ \cup {r}, !.cutOff = @ \cup CutOff(NoRequest)]
       \/ /\ KindOf[r] \in {"connect", "transaction"}
          /\ queueHistory' = [queueHistory EXCEPT !.arrived = @ \cup {r}]
          /\ UNCHANGED screenVars
    /\ UNCHANGED <<closeTimers, polling, busy, callVars>>

\* REQUEST_EXPIRATION_TIME passes for a request in the queue.
Expire(r) ==
    /\ r \in InQueue /\ ~Expired(r)
    /\ queueHistory' = [queueHistory EXCEPT !.expired = @ \cup {r}]
    /\ UNCHANGED <<screenVars, closeTimers, polling, busy, callVars>>

\* Mutant of ProcessNextRequest: a request that is shown is no obstacle.
ProcessAlways ==
    /\ ShowNext(items, pending)
    /\ queueHistory' = [queueHistory EXCEPT !.cutOff = @ \cup CutOff(NoRequest)]

(* processNextRequest(), from the timer a closing modal sets, and every second
   once a queue was restored. *)
ProcessNextRequest ==
    IF isShowing THEN UNCHANGED <<screenVars, queueHistory>>
    ELSE /\ ShowNext(items, pending)
         /\ queueHistory' = [queueHistory EXCEPT !.cutOff = @ \cup CutOff(NoRequest)]

CloseTimer ==
    /\ closeTimers > 0 /\ closeTimers' = closeTimers - 1
    /\ ProcessNextRequest
    /\ UNCHANGED <<polling, busy, callVars>>

Poll ==
    /\ polling
    /\ ProcessNextRequest
    /\ UNCHANGED <<closeTimers, polling, busy, callVars>>

-----------------------------------------------------------------------------
(* The user.  An approval disables both buttons of its modal until it ends or
   the modal is gone; a rejection disables none. *)
Pressable(r) == r \in OnScreen /\ busy[KindOf[r]] = NoRequest
UnderWay(r) == approving[r] # "no" \/ rejecting[r] > 0
Pressed(r) ==
    queueHistory' = IF UnderWay(r) THEN [queueHistory EXCEPT !.doubled = @ \cup {r}]
                    ELSE queueHistory

PressApprove(r) ==
    /\ Pressable(r) /\ approving[r] = "no"
    /\ approving' = [approving EXCEPT ![r] = "signing"]
    /\ busy' = [busy EXCEPT ![KindOf[r]] = r]
    /\ Pressed(r)
    /\ UNCHANGED <<screenVars, closeTimers, polling, rejecting>>

PressReject(r) ==
    /\ Pressable(r) /\ rejecting[r] < MaxRejects
    /\ rejecting' = [rejecting EXCEPT ![r] = @ + 1]
    /\ Pressed(r)
    /\ UNCHANGED <<screenVars, closeTimers, polling, busy, approving>>

-----------------------------------------------------------------------------
\* approveTransactionRequest of the kit: the signed message is broadcast.
Broadcast(r) ==
    /\ KindOf[r] = "transaction" /\ approving[r] = "signing"
    /\ approving' = [approving EXCEPT ![r] = "sent"]
    /\ queueHistory' = [queueHistory EXCEPT
         !.sentAgain = @ \cup (queueHistory.sent \cap {r}), !.sent = @ \cup {r}]
    /\ UNCHANGED <<screenVars, closeTimers, polling, busy, rejecting>>

\* Mutant of ClearCurrent: no timer is set.
ClearUntimed(screen, next) ==
    LET waiting == Keep(items, Requests \ {current})
    IN /\ IF next = NoRequest
          THEN items' = waiting /\ current' = NoRequest /\ isShowing' = FALSE /\ pending' = screen
          ELSE Enqueue(next, waiting, FALSE, screen)
       /\ UNCHANGED closeTimers

\* Mutant of Cleared: the modal stays open.
ClearedNothing(r) == pending

(* clearCurrentRequestFromQueue(), whatever the current request is, with the
   modals `screen`.  A connect request that was approved has the request
   embedded in it enqueued next. *)
ClearCurrent(screen, next) ==
    LET waiting == Keep(items, Requests \ {current})
    IN /\ IF next = NoRequest
          THEN items' = waiting /\ current' = NoRequest /\ isShowing' = FALSE /\ pending' = screen
          ELSE Enqueue(next, waiting, FALSE, screen)
       /\ closeTimers' = closeTimers + 1

Cleared(r) == [pending EXCEPT ![KindOf[r]] = NoRequest]
Unbusy(r, screen) ==
    busy' = [k \in Kinds |-> IF screen[k] = NoRequest \/ busy[k] = r THEN NoRequest ELSE busy[k]]

ApproveSucceeds(r) ==
    LET next == IF Embedded[r] \in queueHistory.arrived THEN NoRequest ELSE Embedded[r]
    IN /\ approving[r] = IF KindOf[r] = "transaction" THEN "sent" ELSE "signing"
       /\ approving' = [approving EXCEPT ![r] = "no"]
       /\ ClearCurrent(Cleared(r), next)
       /\ Unbusy(r, Cleared(r))
       /\ queueHistory' = [queueHistory EXCEPT
            !.arrived = @ \cup ({next} \ {NoRequest}),
            !.cutOff = @ \cup CutOff(r)]
       /\ UNCHANGED <<polling, rejecting>>

(* The kit throws: before the broadcast or after it, when the answer cannot be
   sent.  The request leaves the queue and its modal stays open. *)
ApproveFails(r) ==
    /\ approving[r] # "no" /\ approving' = [approving EXCEPT ![r] = "no"]
    /\ queueHistory.troubles < MaxTroubles
    /\ ClearCurrent(pending, NoRequest)
    /\ Unbusy(r, pending)
    /\ queueHistory' = [queueHistory EXCEPT
         !.troubles = @ + 1, !.sent = @ \ {r},
         !.cutOff = @ \cup CutOff(r)]
    /\ UNCHANGED <<polling, rejecting>>

\* The modal is closed whether or not the dApp could be told.
RejectEnds(r) ==
    /\ rejecting[r] > 0 /\ rejecting' = [rejecting EXCEPT ![r] = @ - 1]
    /\ ClearCurrent(Cleared(r), NoRequest)
    /\ Unbusy(r, Cleared(r))
    /\ queueHistory' = [queueHistory EXCEPT !.cutOff = @ \cup CutOff(r)]
    /\ UNCHANGED <<polling, approving>>

-----------------------------------------------------------------------------
(* A restart: the queue is persisted, the modals are not. *)
RestartWallet ==
    /\ queueHistory.troubles < MaxTroubles
    /\ items' = Unexpired(items)
    /\ current' = NoRequest /\ isShowing' = FALSE /\ closeTimers' = 0
    /\ pending' = [k \in Kinds |-> NoRequest] /\ busy' = [k \in Kinds |-> NoRequest]
    /\ polling' = (items # <<>>)
    /\ approving' = [r \in Requests |-> "no"] /\ rejecting' = [r \in Requests |-> 0]
    /\ queueHistory' = [queueHistory EXCEPT !.troubles = @ + 1, !.sent = {}]

\* Mutant of Logout: the modals are cleared, the queue is kept.
LogoutOfModals ==
    /\ queueHistory.troubles < MaxTroubles
    /\ pending' = [k \in Kinds |-> IF k = "signMessage" THEN pending[k] ELSE NoRequest]
    /\ Unbusy(NoRequest, pending')
    /\ queueHistory' = [queueHistory EXCEPT !.troubles = @ + 1]
    /\ UNCHANGED <<items, current, isShowing, closeTimers, polling, callVars>>

(* reset() of authSlice, when the user logs out: the modal of a signMessage
   request stays, and so do timers and calls. *)
Logout ==
    /\ queueHistory.troubles < MaxTroubles
    /\ items' = <<>> /\ current' = NoRequest /\ isShowing' = FALSE
    /\ pending' = [k \in Kinds |-> IF k = "signMessage" THEN pending[k] ELSE NoRequest]
    /\ Unbusy(NoRequest, pending')
    /\ queueHistory' = [queueHistory EXCEPT !.troubles = @ + 1]
    /\ UNCHANGED <<closeTimers, polling, callVars>>

RequestsNext ==
    \/ \E r \in Requests :
         \/ Arrive(r) \/ Expire(r)
         \/ PressApprove(r) \/ PressReject(r)
         \/ Broadcast(r) \/ ApproveSucceeds(r) \/ ApproveFails(r) \/ RejectEnds(r)
    \/ CloseTimer \/ Poll \/ RestartWallet \/ Logout

RequestsSpec == RequestsInit /\ [][RequestsNext]_requestVars

(* Timers fire, calls end, and the user decides on what the modals show. *)
RequestsFairness ==
    /\ WF_requestVars(CloseTimer) /\ WF_requestVars(Poll)
    /\ \A r \in Requests :
         /\ WF_requestVars(PressApprove(r) \/ PressReject(r))
         /\ WF_requestVars(Broadcast(r) \/ ApproveSucceeds(r))
         /\ WF_requestVars(RejectEnds(r))
FairRequestsSpec == RequestsSpec /\ RequestsFairness

-----------------------------------------------------------------------------
Slot == Requests \cup {NoRequest}

(* The types of the variables; the queue is no longer than its maximum. *)
RequestsTypeOK ==
    /\ items \in Seq(Requests) /\ Len(items) <= MaxQueue
    /\ current \in Slot /\ isShowing \in BOOLEAN
    /\ closeTimers \in Nat /\ polling \in BOOLEAN
    /\ pending \in [Kinds -> Slot] /\ busy \in [Kinds -> Slot]
    /\ approving \in [Requests -> {"no", "signing", "sent"}]
    /\ rejecting \in [Requests -> 0..MaxRejects]
    /\ queueHistory \in [arrived : SUBSET Requests, expired : SUBSET Requests,
                        cutOff : SUBSET Requests, doubled : SUBSET Requests,
                        sent : SUBSET Requests, sentAgain : SUBSET Requests,
                        troubles : 0..MaxTroubles]

(* While the queue is held up for a request, the modal of that request is on
   the screen: were it not, nobody could decide on it, and nothing else would
   ever be shown. *)
ShownIsOnScreen ==
    IF isShowing THEN current # NoRequest /\ pending[KindOf[current]] = current
    ELSE current = NoRequest

(* The end of a call closes the modal of its kind and takes the current
   request out of the queue, whoever they belong to by then.  That they belong
   to another request takes an approval that failed, a button pressed twice,
   or a logout. *)
CutOffNeedsTrouble ==
    queueHistory.cutOff # {} =>
        queueHistory.doubled # {} \/ queueHistory.troubles > 0

(* A transaction is broadcast a second time only if the first approval failed
   after the broadcast, or was lost in a restart. *)
BroadcastOnce == queueHistory.sentAgain = {}

(* Every request leaves the queue in the end. *)
RequestIsServed == \A r \in Requests : (r \in InQueue) ~> (r \notin InQueue)
=============================================================================
