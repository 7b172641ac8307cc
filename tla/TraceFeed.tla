------------------------------ MODULE TraceFeed ------------------------------
(* The transaction notifications of the streaming server: their finality, the
   cache of traces that orders them, and what the watchers of an account were
   told last (onMessage of TonStreamingV2BaseProvider.ts). *)
EXTENDS Integers, Sequences, SequencesExt

CONSTANTS
    Accounts,
    Traces,
    CacheSize       \* `max` of the LRU cache

ASSUME TraceFeedAssumption == CacheSize \in Nat \ {0}

VARIABLES
    watched,        \* accounts whose transactions somebody watches
    traceCache,     \* the entry of each trace: its score, its accounts
    recent,         \* the cached traces, the least recently used first
    told,           \* what the watchers of an account were told of a trace
    forgotten       \* history: traces told to an account, and then evicted

feedVars == <<watched, traceCache, recent, told, forgotten>>

\* getFinalityScore: unknown, pending, confirmed, finalized.
Scores == {-1, 0, 1, 2}
Nothing == -2
Invalidated == -3
NoEntry == [score |-> Nothing, accounts |-> {}]

Cached(t) == traceCache[t].score # Nothing
Told(a, t) == told[a][t] \in Scores

FeedInit ==
    /\ watched = {}
    /\ traceCache = [t \in Traces |-> NoEntry] /\ recent = <<>>
    /\ told = [a \in Accounts |-> [t \in Traces |-> Nothing]]
    /\ forgotten = {}

\* The order of use after `t` was read or written.
Used(t) == Append(RemoveFirst(recent, t), t)

-----------------------------------------------------------------------------
WatchAccount(a) ==
    /\ watched' = watched \cup {a}
    /\ UNCHANGED <<traceCache, recent, told, forgotten>>

\* The watchers of an account are gone, and what they were told with them.
UnwatchAccount(a) ==
    /\ watched' = watched \ {a}
    /\ told' = [told EXCEPT ![a] = [t \in Traces |-> Nothing]]
    /\ forgotten' = {p \in forgotten : p[1] # a}
    /\ UNCHANGED <<traceCache, recent>>

\* Mutant of Lower: a late notification is passed on.
NeverLower(t, score) == FALSE

\* Mutant of Merged: the accounts of an earlier notification are forgotten.
Overwritten(t, score, accounts) == [score |-> score, accounts |-> accounts]

\* Whether the trace was seen with a higher finality.
Lower(t, score) == Cached(t) /\ score < traceCache[t].score

\* The entry of the trace after a notification.
Merged(t, score, accounts) ==
    [score |-> score, accounts |-> traceCache[t].accounts \cup accounts]

(* A transactions notification: ignored if the trace was seen with a higher
   finality, else cached and passed on to the watchers of its accounts. *)
IgnoreLower(t, score) ==
    /\ Lower(t, score)
    /\ recent' = Used(t)
    /\ UNCHANGED <<watched, traceCache, told, forgotten>>

Notify(t, score, accounts) ==
    LET evicted == IF ~Cached(t) /\ Len(recent) = CacheSize THEN {Head(recent)} ELSE {}
    IN /\ ~Lower(t, score)
       /\ traceCache' = [u \in Traces |->
            IF u = t THEN Merged(t, score, accounts)
            ELSE IF u \in evicted THEN NoEntry ELSE traceCache[u]]
       /\ recent' = IF evicted = {} THEN Used(t) ELSE Tail(Used(t))
       /\ told' = [a \in Accounts |->
            IF a \in accounts \cap watched THEN [told[a] EXCEPT ![t] = score] ELSE told[a]]
       /\ forgotten' = (forgotten \ (accounts \X {t}))
                       \cup {p \in Accounts \X evicted : Told(p[1], p[2])}
       /\ UNCHANGED watched

(* A trace_invalidated notification: the accounts of the cached entry are
   told, and the entry is deleted. *)
Invalidate(t) ==
    /\ Cached(t)
    /\ told' = [a \in Accounts |->
         IF a \in traceCache[t].accounts \cap watched THEN [told[a] EXCEPT ![t] = Invalidated]
         ELSE told[a]]
    /\ traceCache' = [traceCache EXCEPT ![t] = NoEntry]
    /\ recent' = RemoveFirst(recent, t)
    /\ UNCHANGED <<watched, forgotten>>

\* disconnect() clears the cache.
ClearCache ==
    /\ traceCache' = [t \in Traces |-> NoEntry] /\ recent' = <<>>
    /\ forgotten' = forgotten \cup {p \in Accounts \X Traces : Told(p[1], p[2])}
    /\ UNCHANGED <<watched, told>>

FeedNext ==
    \/ \E a \in Accounts : WatchAccount(a) \/ UnwatchAccount(a)
    \/ \E t \in Traces, score \in Scores : IgnoreLower(t, score)
    \/ \E t \in Traces, score \in Scores, accounts \in SUBSET Accounts \ {{}} :
         Notify(t, score, accounts)
    \/ \E t \in Traces : Invalidate(t)
    \/ ClearCache

FeedSpec == FeedInit /\ [][FeedNext]_feedVars

-----------------------------------------------------------------------------
(* The types of the variables; the cache holds no more than its maximum. *)
FeedTypeOK ==
    /\ watched \in SUBSET Accounts
    /\ traceCache \in [Traces -> [score : Scores \cup {Nothing}, accounts : SUBSET Accounts]]
    /\ recent \in Seq(Traces) /\ Len(recent) <= CacheSize
    /\ told \in [Accounts -> [Traces -> Scores \cup {Nothing, Invalidated}]]
    /\ forgotten \in SUBSET (Accounts \X Traces)

(* Whoever was told of a transaction can still be told that it was undone: the
   trace is cached under the account with a finality not below the one told,
   or the cache has had to forget it. *)
UndoReaches ==
    \A a \in watched, t \in Traces : Told(a, t) =>
        \/ a \in traceCache[t].accounts /\ told[a][t] <= traceCache[t].score
        \/ <<a, t>> \in forgotten

(* Late notifications do not take a transaction back: what a watcher is told
   of a trace never becomes less final, except by an invalidation or after the
   cache forgot the trace. *)
NeverLessFinal ==
    [][\A a \in Accounts, t \in Traces :
        (Told(a, t) /\ <<a, t>> \notin forgotten /\ told'[a][t] \in Scores)
        => told'[a][t] >= told[a][t]]_feedVars
=============================================================================
