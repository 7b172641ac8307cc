---------------------------- MODULE ExtensionRpc ----------------------------
(* The requests of an injected bridge to the wallet (ExtensionTransport.ts): a
   promise for each, settled by an answer, by the failure of a sender or by a
   timer.  A page into which the content script is injected again gets one
   more sender, and every request goes out through all of them.  The message
   channels and the wallet are external: a copy of a request may arrive though
   its sender fails, and an answer may be lost. *)
EXTENDS Naturals

CONSTANTS
    RpcRequests,
    MaxSenders      \* bound: injections of the content script

ASSUME RpcAssumption == MaxSenders \in Nat \ {0}

VARIABLES
    messageSenders, \* how many senders there are
    promise,        \* what became of each request
    pendingRequests,
    timeouts,       \* the requests whose timer is set
    relayed,        \* copies of requests in the hands of a sender
    atWallet,       \* copies of requests that reached the wallet
    destroyed       \* history: requests that destroy() forgot

rpcVars ==
    <<messageSenders, promise, pendingRequests, timeouts, relayed, atWallet, destroyed>>

WaitingRequests == {r \in RpcRequests : promise[r] = "waiting"}

RpcInit ==
    /\ messageSenders = 1
    /\ promise = [r \in RpcRequests |-> "none"]
    /\ pendingRequests = {} /\ timeouts = {} /\ relayed = {} /\ atWallet = {} /\ destroyed = {}

\* A promise that is settled stays as it is.
Settle(r, outcome) ==
    promise' = [promise EXCEPT ![r] = IF @ = "waiting" THEN outcome ELSE @]

\* Mutant of Forget: the timer runs on.
ForgetOnly(r) == pendingRequests' = pendingRequests \ {r} /\ UNCHANGED timeouts

Forget(r) ==
    pendingRequests' = pendingRequests \ {r} /\ timeouts' = timeouts \ {r}

-----------------------------------------------------------------------------
\* setMessageSender
AddSender ==
    /\ messageSenders < MaxSenders
    /\ messageSenders' = messageSenders + 1
    /\ UNCHANGED <<promise, pendingRequests, timeouts, relayed, atWallet, destroyed>>

\* Mutant of SendRequest: no timer is set.
SendUntimed(r) ==
    /\ promise[r] = "none"
    /\ promise' = [promise EXCEPT ![r] = "waiting"]
    /\ pendingRequests' = pendingRequests \cup {r}
    /\ relayed' = relayed \cup ({r} \X (1..messageSenders))
    /\ UNCHANGED <<messageSenders, timeouts, atWallet, destroyed>>

SendRequest(r) ==
    /\ promise[r] = "none"
    /\ promise' = [promise EXCEPT ![r] = "waiting"]
    /\ pendingRequests' = pendingRequests \cup {r}
    /\ timeouts' = timeouts \cup {r}
    /\ relayed' = relayed \cup ({r} \X (1..messageSenders))
    /\ UNCHANGED <<messageSenders, atWallet, destroyed>>

\* A sender has passed its copy on.
Relayed(c) ==
    /\ c \in relayed
    /\ relayed' = relayed \ {c} /\ atWallet' = atWallet \cup {c}
    /\ UNCHANGED <<messageSenders, promise, pendingRequests, timeouts, destroyed>>

\* The `catch` of a sender: the request fails, whatever the other senders do.
SenderFailed(c) ==
    /\ c \in relayed
    /\ relayed' = relayed \ {c}
    /\ atWallet' \in {atWallet, atWallet \cup {c}}
    /\ Forget(c[1]) /\ Settle(c[1], "rejected")
    /\ UNCHANGED <<messageSenders, destroyed>>

\* handleResponse: only the first answer finds the request.
Answered(c, outcome) ==
    /\ c \in atWallet
    /\ atWallet' = atWallet \ {c}
    /\ IF c[1] \in pendingRequests
       THEN Forget(c[1]) /\ Settle(c[1], outcome)
       ELSE UNCHANGED <<promise, pendingRequests, timeouts>>
    /\ UNCHANGED <<messageSenders, relayed, destroyed>>

AnswerLost(c) ==
    /\ c \in atWallet
    /\ atWallet' = atWallet \ {c}
    /\ UNCHANGED <<messageSenders, promise, pendingRequests, timeouts, relayed, destroyed>>

TimedOut(r) ==
    /\ r \in timeouts
    /\ timeouts' = timeouts \ {r}
    /\ IF r \in pendingRequests
       THEN pendingRequests' = pendingRequests \ {r} /\ Settle(r, "timed out")
       ELSE UNCHANGED <<promise, pendingRequests>>
    /\ UNCHANGED <<messageSenders, relayed, atWallet, destroyed>>

\* The timers are cleared and the requests forgotten; their promises stay.
DestroyTransport ==
    /\ pendingRequests # {}
    /\ timeouts' = timeouts \ pendingRequests
    /\ pendingRequests' = {}
    /\ destroyed' = destroyed \cup pendingRequests
    /\ UNCHANGED <<messageSenders, promise, relayed, atWallet>>

RpcNext ==
    \/ AddSender \/ DestroyTransport
    \/ \E r \in RpcRequests : SendRequest(r) \/ TimedOut(r)
    \/ \E c \in RpcRequests \X (1..MaxSenders) :
         \/ Relayed(c) \/ SenderFailed(c) \/ AnswerLost(c)
         \/ \E outcome \in {"resolved", "refused"} : Answered(c, outcome)

RpcSpec == RpcInit /\ [][RpcNext]_rpcVars

\* Timers fire.
RpcFairness == \A r \in RpcRequests : WF_rpcVars(TimedOut(r))
FairRpcSpec == RpcSpec /\ RpcFairness

-----------------------------------------------------------------------------
(* The types of the variables. *)
RpcTypeOK ==
    /\ messageSenders \in 1..MaxSenders
    /\ promise \in [RpcRequests -> {"none", "waiting", "resolved", "refused", "rejected", "timed out"}]
    /\ pendingRequests \in SUBSET RpcRequests
    /\ timeouts \in SUBSET RpcRequests
    /\ relayed \in SUBSET (RpcRequests \X (1..MaxSenders))
    /\ atWallet \in SUBSET (RpcRequests \X (1..MaxSenders))
    /\ destroyed \in SUBSET RpcRequests

(* A request that waits is in the map and has its timer, whichever of its
   senders, answers and timers came first; one that is settled has left
   neither behind.  The exception are the requests destroy() forgot: nothing
   but a failing sender settles those. *)
WaitingIsTimed ==
    /\ pendingRequests = timeouts
    /\ pendingRequests \subseteq WaitingRequests
    /\ WaitingRequests \subseteq pendingRequests \cup destroyed

(* Every request is settled in the end, unless destroy() forgot it. *)
RequestSettles ==
    \A r \in RpcRequests : promise[r] = "waiting" ~> (promise[r] # "waiting" \/ r \in destroyed)
=============================================================================
