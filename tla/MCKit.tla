------------------------------- MODULE MCKit -------------------------------
(* Four more parts of the wallet and one of the MCP server, checked for safety:
   the requests in front of the user, the sessions, streaming's subscriptions and
   its trace cache, and the setup of agents' wallets.  They share no state: a
   behaviour is of one of them. *)
EXTENDS RequestQueue, SessionStore, MCStreaming, TraceFeed, AgenticSetup

CONSTANTS connect1, transaction1, transaction2

VARIABLE part

\* A connect request, a transaction that may come with it, another transaction.
MCRequests == {connect1, transaction1, transaction2}
MCKindOf == [r \in MCRequests |-> IF r = connect1 THEN "connect" ELSE "transaction"]
MCEmbedded == [r \in MCRequests |-> IF r = connect1 THEN transaction1 ELSE NoRequest]

KitInit ==
    /\ RequestsInit /\ SessionsInit /\ StreamingInit /\ FeedInit /\ SetupInit
    /\ part \in {"requests", "sessions", "streaming", "feed", "setup"}
    /\ part # "sessions" => disk = None

KitNext ==
    /\ UNCHANGED part
    /\ \/ /\ part = "requests" /\ RequestsNext
          /\ UNCHANGED <<sessionVars, streamingVars, feedVars, setupVars>>
       \/ /\ part = "sessions" /\ SessionsNext
          /\ UNCHANGED <<requestVars, streamingVars, feedVars, setupVars>>
       \/ /\ part = "streaming" /\ StreamingNext
          /\ UNCHANGED <<requestVars, sessionVars, feedVars, setupVars>>
       \/ /\ part = "feed" /\ FeedNext
          /\ UNCHANGED <<requestVars, sessionVars, streamingVars, setupVars>>
       \/ /\ part = "setup" /\ SetupNext
          /\ UNCHANGED <<requestVars, sessionVars, streamingVars, feedVars>>

KitSpec ==
    /\ KitInit
    /\ [][KitNext]_<<part, requestVars, sessionVars, streamingVars, feedVars, setupVars>>

(* The types of the variables. *)
KitTypeOK ==
    RequestsTypeOK /\ SessionsTypeOK /\ StreamingTypeOK /\ FeedTypeOK /\ SetupTypeOK
=============================================================================
