------------------------------ MODULE MCEdges ------------------------------
(* Five parts of the wallet that promise to get on with something: streaming
   subscriptions, analytics, requests of an injected bridge, requests in front
   of the user, and the event store under three callers.  They are run side by
   side sharing no state, so a behaviour is of one of them: interleaving them
   would only multiply their states.  Of the parts that are not chosen no action
   with a fairness condition is ever enabled. *)
EXTENDS MCStreaming, Analytics, ExtensionRpc, RequestQueue

CONSTANTS connect1, transaction1,
          Callers, NoCaller, MaxRetries \* of the event store

VARIABLES part,
          stored, lock, phase, op, snap, waitOn, result, storeFaults, crashes

\* The event store: one event, which an earlier run stored; calls that always
\* write and one that is refused unless the event is there.  Its failures and
\* crashes are other runs' business.
MCEvents == {1}
Doc1 == INSTANCE EventDoc WITH Events <- MCEvents
MCOps == {Doc1!Save(1, Doc1!NewEvent), Doc1!On("acquire", 1), Doc1!Remove(MCEvents)}
MCInitialDoc == [e \in MCEvents |-> Doc1!NewEvent]
Store == INSTANCE EventStore WITH
    Events <- MCEvents, Ops <- MCOps, InitialDoc <- MCInitialDoc,
    MaxFaults <- 0, MaxCrashes <- 0, faults <- storeFaults
theStoreVars == <<stored, lock, phase, op, snap, waitOn, result, storeFaults, crashes>>

\* A connect request and a transaction, which may come with it.
MCRequests == {connect1, transaction1}
MCKindOf == [r \in MCRequests |-> IF r = connect1 THEN "connect" ELSE "transaction"]
MCEmbedded == [r \in MCRequests |-> IF r = connect1 THEN transaction1 ELSE NoRequest]

EdgesInit ==
    /\ StreamingInit /\ AnalyticsInit /\ RpcInit /\ RequestsInit /\ Store!StoreInit
    /\ part \in {"streaming", "analytics", "rpc", "requests", "store"}

EdgesNext ==
    /\ UNCHANGED part
    /\ \/ /\ part = "streaming" /\ StreamingNext
          /\ UNCHANGED <<analyticsVars, rpcVars, requestVars, theStoreVars>>
       \/ /\ part = "analytics" /\ AnalyticsNext
          /\ UNCHANGED <<streamingVars, rpcVars, requestVars, theStoreVars>>
       \/ /\ part = "rpc" /\ RpcNext
          /\ UNCHANGED <<streamingVars, analyticsVars, requestVars, theStoreVars>>
       \/ /\ part = "requests" /\ RequestsNext
          /\ UNCHANGED <<streamingVars, analyticsVars, rpcVars, theStoreVars>>
       \/ /\ part = "store" /\ Store!StoreNext
          /\ UNCHANGED <<streamingVars, analyticsVars, rpcVars, requestVars>>

FairEdgesSpec ==
    /\ EdgesInit
    /\ [][EdgesNext]_<<part, streamingVars, analyticsVars, rpcVars, requestVars, theStoreVars>>
    /\ StreamingFairness /\ AnalyticsFairness /\ RpcFairness /\ RequestsFairness
    /\ Store!StoreFairness

(* The types of the variables. *)
EdgesTypeOK == AnalyticsTypeOK /\ RpcTypeOK

(* A call of the store ends, however many callers wait and however often
   entries of operationLock are overwritten or deleted under a running one. *)
EveryCallSettles == Store!EveryCallSettles
=============================================================================
