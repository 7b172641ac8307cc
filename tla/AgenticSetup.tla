---------------------------- MODULE AgenticSetup ----------------------------
(* Setting up an agent's wallet through the MCP server: a draft in the config
   file, a session with a callback address, the callback of the dashboard, and
   the completion (AgenticSetupSessionManager.ts, AgenticOnboardingService.ts).

   The manager keeps a copy of the file's sessions.  Its synchronous operations
   start to read the file again without awaiting it, so they work on the copy
   of the call before; every change of the file reads it at once, awaits and
   writes it whole.  All of that lies within one turn of the event loop, where
   only microtasks run: the reads come first, then the writes in their order,
   then the copy is replaced by what was read.  One action is one turn. *)
CONSTANT Setups

VARIABLES
    config,         \* the file: sessions, drafts and completed wallets
    setupSessions,  \* the manager's copy of the file's sessions
    overdue,        \* sessions past their expiresAt
    starting,       \* setups with a draft whose session is not yet created
    posting,        \* callbacks whose body is being read
    completing,     \* completions whose wallet is being validated
    begun,          \* history: setups that were given a draft
    answered        \* history: setups whose callback was answered with success

setupCalls == <<starting, posting, completing>>
setupHistory == <<begun, answered>>
setupVars == <<config, setupSessions, overdue, setupCalls, setupHistory>>

Absent == [s \in Setups |-> "absent"]

SetupInit ==
    /\ config = [sessions |-> Absent, drafts |-> {}, wallets |-> {}]
    /\ setupSessions = Absent
    /\ overdue = {} /\ starting = {} /\ posting = {} /\ completing = {}
    /\ begun = {} /\ answered = {}

\* The file with the session of `s` as given; upsertSession and removeSession.
With(s, status) == [config EXCEPT !.sessions[s] = status]

\* Mutant of Expiring: whatever its status.
ExpiringAny == {s \in overdue : setupSessions[s] # "absent"}

(* What cleanupExpiredSessions finds to mark, in the copy: a session it holds
   as pending. *)
Expiring == {s \in overdue : setupSessions[s] = "pending"}

\* The copy after a turn in which the file was read: as the file was before.
Resync == setupSessions' = config.sessions

-----------------------------------------------------------------------------
\* startRootWalletSetup, until the callback server listens; the identifier is new.
Draft(s) ==
    /\ s \notin begun /\ begun' = begun \cup {s}
    /\ config' = [config EXCEPT !.drafts = @ \cup {s}]
    /\ starting' = starting \cup {s}
    /\ UNCHANGED <<setupSessions, overdue, posting, completing, answered>>

(* createSession: the new session is written last, over the file as it was, so
   the marks that cleanupExpiredSessions wrote just before are undone.  The
   copy is then replaced by the file without the new session. *)
CreateSetupSession(s) ==
    /\ s \in starting /\ starting' = starting \ {s}
    /\ config' = With(s, "pending")
    /\ Resync
    /\ UNCHANGED <<overdue, posting, completing, setupHistory>>

(* getSession: of the marks written for expired sessions the last one stands. *)
GetSession ==
    /\ IF Expiring = {} THEN UNCHANGED config
                        ELSE \E s \in Expiring : config' = With(s, "expired")
    /\ Resync

\* listRootWalletSetups and getRootWalletSetup, which ask for sessions of drafts.
Look ==
    /\ config.drafts # {}
    /\ GetSession
    /\ UNCHANGED <<overdue, setupCalls, setupHistory>>

-----------------------------------------------------------------------------
\* handleCallbackHttpRequest, which awaits the file and then the body.
Callback(s) ==
    /\ Resync
    /\ posting' = IF config.sessions[s] = "absent" THEN posting ELSE posting \cup {s}
    /\ UNCHANGED <<config, overdue, starting, completing, setupHistory>>

(* The body has come: it is no deployment, or persistSession puts the session
   it was found with, now received, into the copy and the file. *)
Body(s) ==
    /\ s \in posting /\ posting' = posting \ {s}
    /\ \/ UNCHANGED <<config, setupSessions, answered>>
       \/ /\ config' = With(s, "received")
          /\ setupSessions' = [setupSessions EXCEPT ![s] = "received"]
          /\ answered' = answered \cup {s}
    /\ UNCHANGED <<overdue, starting, completing, begun>>

-----------------------------------------------------------------------------
(* completeRootWalletSetup, until the wallet is validated: it polls, and stops
   if the payload it finds contradicts the draft or no address is known. *)
Complete(s) ==
    /\ s \in config.drafts
    /\ GetSession
    /\ completing' \in {completing, completing \cup {s}}
    /\ UNCHANGED <<overdue, starting, posting, setupHistory>>

\* create() when the server starts again: it reads the file.
Restarted == Resync /\ starting' = {} /\ posting' = {} /\ completing' = {}

(* The draft goes, then deleteSession.  The copy is replaced by the file as it
   was in between, so it has the session still.  A program that is killed in
   between leaves the session in the file. *)
DropDraft(s, wallets, ended) ==
    LET dropped == [config EXCEPT !.drafts = @ \ {s}, !.wallets = wallets]
    IN /\ \/ /\ config' = [dropped EXCEPT !.sessions[s] = "absent"]
             /\ Resync
             /\ completing' = completing \ ended
             /\ UNCHANGED <<starting, posting>>
          \/ config' = dropped /\ Restarted
       /\ UNCHANGED <<overdue, setupHistory>>

(* The validation is over: it failed, or completePendingAgenticSetup does not
   find the draft any more, or the wallet is saved. *)
Validated(s) ==
    /\ s \in completing
    /\ \/ /\ completing' = completing \ {s}
          /\ UNCHANGED <<config, setupSessions, overdue, starting, posting, setupHistory>>
       \/ /\ s \in config.drafts
          /\ DropDraft(s, config.wallets \cup {s}, {s})

\* cancelRootWalletSetup, whether there is a draft or not.
Cancel(s) ==
    /\ s \in begun
    /\ DropDraft(s, config.wallets, {})

-----------------------------------------------------------------------------
TimePasses(s) ==
    /\ s \in begun \ (starting \cup overdue) /\ overdue' = overdue \cup {s}
    /\ UNCHANGED <<config, setupSessions, setupCalls, setupHistory>>

\* The server ends or is killed, and is started again.
SetupRestart == Restarted /\ UNCHANGED <<config, overdue, setupHistory>>

SetupNext ==
    \/ Look \/ SetupRestart
    \/ \E s \in Setups :
          \/ Draft(s) \/ CreateSetupSession(s)
          \/ Callback(s) \/ Body(s)
          \/ Complete(s) \/ Validated(s) \/ Cancel(s)
          \/ TimePasses(s)

SetupSpec == SetupInit /\ [][SetupNext]_setupVars

-----------------------------------------------------------------------------
Status == {"absent", "pending", "received", "expired"}

\* The types of the variables.
SetupTypeOK ==
    /\ config \in [sessions : [Setups -> Status],
                   drafts : SUBSET Setups, wallets : SUBSET Setups]
    /\ setupSessions \in [Setups -> Status]
    /\ overdue \subseteq Setups /\ starting \subseteq Setups
    /\ posting \subseteq Setups /\ completing \subseteq Setups
    /\ begun \subseteq Setups /\ answered \subseteq Setups

(* Although the copy lags a call behind the file and the file is rewritten
   whole by everyone: as long as a setup is not completed or cancelled, a
   callback that was answered with success is in the file, and the next poll,
   which looks into the copy, finds it, also when the setup expires. *)
CallbackIsKept ==
    \A s \in answered \cap config.drafts :
        config.sessions[s] = "received" /\ setupSessions[s] = "received"
=============================================================================
