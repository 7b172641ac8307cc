----------------------------- MODULE EventStore -----------------------------
(***************************************************************************)
(* StorageEventStore: the concurrent callers of one durable document, and  *)
(* the promise chain withLock puts between them.                           *)
(*                                                                         *)
(* A caller is one sequential activity of the program (the bridge queue,   *)
(* the processing loop, the recovery timer, the cleanup timer).  Each      *)
(* operation awaits storage.get, computes, and awaits storage.set; another *)
(* caller may run at every await.  withLock makes a caller that finds an   *)
(* operation in flight await it ONCE; when that operation settles every    *)
(* caller that awaited it starts, whatever the others do.                  *)
(*                                                                         *)
(* Microtask order: between the settling of an operation and the start of  *)
(* the callers that awaited it, no storage call and no timer can run, so   *)
(* Settle starts them all in one step.                                     *)
(***************************************************************************)
EXTENDS EventDoc, FiniteSets

CONSTANTS Callers,          \* the activities that call the store
          NoCaller,         \* stands for the absence of a caller
          Ops,              \* the calls the environment makes
          InitialDoc,       \* the document an earlier run of the program left
          MaxRetries,       \* config.maxRetries of the durable events
          MaxFaults,        \* bound: storage calls that fail
          MaxCrashes        \* bound: times the program is killed and restarted

ASSUME StoreAssumption ==
    /\ NoCaller \notin Callers
    /\ Ops \subseteq Operation
    /\ InitialDoc \in Doc
    /\ MaxRetries \in Nat
    /\ MaxFaults \in Nat
    /\ MaxCrashes \in Nat

VARIABLES
    stored,     \* the document in persistent storage
    lock,       \* whose operation promise operationLock holds, or NoCaller
    phase,      \* how far each caller's operation is
    op,         \* the operation each caller is executing or waiting to execute
    snap,       \* the document each caller read and will write back
    waitOn,     \* whose operation a waiting caller awaits
    result,     \* how each caller's last operation ended
    faults,     \* storage faults so far
    crashes     \* crashes so far

callVars == <<lock, phase, op, snap, waitOn, result>>
storeVars == <<stored, callVars, faults, crashes>>

Phase == {"idle", "waiting", "reading", "writing"}

StoreTypeOK ==
    /\ stored \in Doc
    /\ lock \in Callers \cup {NoCaller}
    /\ phase \in [Callers -> Phase]
    /\ op \in [Callers -> Operation]
    /\ snap \in [Callers -> Doc]
    /\ waitOn \in [Callers -> Callers \cup {NoCaller}]
    /\ result \in [Callers -> {"none", "ok", "failed"}]
    /\ faults \in 0..MaxFaults
    /\ crashes \in 0..MaxCrashes

StoreInit ==
    /\ stored = InitialDoc
    /\ lock = NoCaller
    /\ phase = [c \in Callers |-> "idle"]
    /\ op = [c \in Callers |-> NoOp]
    /\ snap = [c \in Callers |-> EmptyDoc]
    /\ waitOn = [c \in Callers |-> NoCaller]
    /\ result = [c \in Callers |-> "none"]
    /\ faults = 0
    /\ crashes = 0

Running(c) == phase[c] \in {"reading", "writing"}
-----------------------------------------------------------------------------
\* Mutants of the operators below, for the mutation runs: a caller that does
\* not look at the lock, a settling operation that resumes one awaiting caller
\* only, and resumed callers that do not enter their promise in operationLock.
EnterAtOnce(c) == /\ lock' = c
                  /\ phase' = [phase EXCEPT ![c] = "reading"]
                  /\ UNCHANGED waitOn
AwaitingFirst(c) == {d \in Callers : /\ phase[d] = "waiting" /\ waitOn[d] = c
                                     /\ d = CHOOSE x \in Callers : phase[x] = "waiting"}
NextHolderUnset(c) == {NoCaller}
-----------------------------------------------------------------------------
\* withLock: run now if no operation is in flight, else await the one that is.
Enter(c) ==
    \/ /\ lock = NoCaller
       /\ lock' = c
       /\ phase' = [phase EXCEPT ![c] = "reading"]
       /\ UNCHANGED waitOn
    \/ /\ lock # NoCaller
       /\ phase' = [phase EXCEPT ![c] = "waiting"]
       /\ waitOn' = [waitOn EXCEPT ![c] = lock]
       /\ UNCHANGED lock

\* The callers whose await on c's operation ends when it settles.
Awaiting(c) == {d \in Callers : phase[d] = "waiting" /\ waitOn[d] = c}

\* Whose entry operationLock holds once they have all started: the last to
\* register of those that awaited c, or nobody's.
NextHolder(c) == IF Awaiting(c) = {} THEN {NoCaller} ELSE Awaiting(c)

\* A caller calls an operation of the store.
Start(c, o) ==
    /\ phase[c] = "idle"
    /\ Enter(c)
    /\ op' = [op EXCEPT ![c] = o]
    /\ result' = [result EXCEPT ![c] = "none"]
    /\ UNCHANGED <<stored, snap, faults, crashes>>

\* c's operation settles: its lock entry (or whatever entry is there) is
\* deleted, then every caller awaiting it starts and overwrites the entry.
Settle(c, r) ==
    /\ phase' = [d \in Callers |-> IF d = c THEN "idle"
                                   ELSE IF d \in Awaiting(c) THEN "reading"
                                   ELSE phase[d]]
    /\ waitOn' = [d \in Callers |-> IF d \in Awaiting(c) THEN NoCaller ELSE waitOn[d]]
    /\ lock' \in NextHolder(c)
    /\ op' = [op EXCEPT ![c] = NoOp]
    /\ snap' = [snap EXCEPT ![c] = EmptyDoc]
    /\ result' = [result EXCEPT ![c] = r]

\* storage.get answers d: the operation makes its checks on d and goes on to
\* write, or returns.
ReadAs(c, d) ==
    /\ phase[c] = "reading"
    /\ \/ /\ Accepts(op[c], d)
          /\ phase' = [phase EXCEPT ![c] = "writing"]
          /\ snap' = [snap EXCEPT ![c] = d]
          /\ UNCHANGED <<lock, op, waitOn, result>>
       \/ /\ ~Accepts(op[c], d)
          /\ Settle(c, "failed")
    /\ UNCHANGED <<stored, crashes>>

Read(c) == ReadAs(c, stored) /\ UNCHANGED faults

\* The adapter fails; Storage.get logs and answers null, read as {}.
ReadFault(c) ==
    /\ faults < MaxFaults
    /\ faults' = faults + 1
    /\ ReadAs(c, EmptyDoc)

\* storage.set takes effect: the whole document is overwritten.
Write(c) ==
    /\ phase[c] = "writing"
    /\ stored' = Apply(op[c], snap[c])
    /\ Settle(c, "ok")
    /\ UNCHANGED <<faults, crashes>>

\* storage.set rejects: the operation throws and the document stays.
WriteFault(c) ==
    /\ phase[c] = "writing"
    /\ faults < MaxFaults
    /\ faults' = faults + 1
    /\ Settle(c, "failed")
    /\ UNCHANGED <<stored, crashes>>

StoreStep(c) == Read(c) \/ ReadFault(c) \/ Write(c) \/ WriteFault(c)

\* The program is killed and started again: only the document survives.
StoreCrash ==
    /\ crashes < MaxCrashes
    /\ crashes' = crashes + 1
    /\ lock' = NoCaller
    /\ phase' = [c \in Callers |-> "idle"]
    /\ op' = [c \in Callers |-> NoOp]
    /\ snap' = [c \in Callers |-> EmptyDoc]
    /\ waitOn' = [c \in Callers |-> NoCaller]
    /\ result' = [c \in Callers |-> "none"]
    /\ UNCHANGED <<stored, faults>>
-----------------------------------------------------------------------------
(***************************************************************************)
(* The store alone, called by an environment that makes any call at any    *)
(* time.  EventProcessor replaces Invoke by the calls the program makes.   *)
(***************************************************************************)

\* Bound of this environment only: it stops acquiring an event retried
\* MaxRetries times, as the processing loop does.
Invoke(c) == \E o \in Ops :
    /\ o.kind = "acquire" => \A e \in o.evs : stored[e].retry < MaxRetries
    /\ Start(c, o)

StoreNext == \/ \E c \in Callers : Invoke(c) \/ StoreStep(c)
             \/ StoreCrash

\* Storage calls settle; nothing obliges the environment to call.
StoreFairness == \A c \in Callers : WF_storeVars(Read(c) \/ Write(c))

StoreSpec == StoreInit /\ [][StoreNext]_storeVars

FairStoreSpec == StoreSpec /\ StoreFairness
-----------------------------------------------------------------------------
(* Properties. *)

\* An operation about to write holds the document as it is now, or as a
\* failed read shows it: no other operation wrote since it read.  This is
\* what "Save atomically within the lock" in acquireLock, releaseLock and
\* updateEventStatus claims.
SavesAreAtomic ==
    \A c \in Callers : phase[c] = "writing" =>
        snap[c] = stored \/ (faults > 0 /\ snap[c] = EmptyDoc)

\* A caller that awaits an operation awaits one still in flight, and the
\* entry of operationLock is one in flight: nobody can be left awaiting a
\* settled promise's caller, although a settling operation deletes whatever
\* entry it finds (withLock, the delete after the await).
NoOrphanedWaiter ==
    /\ lock # NoCaller => Running(lock)
    /\ \A c \in Callers : phase[c] = "waiting" => Running(waitOn[c])

\* The chain of operations in storage has the effect of the same operations
\* taking place one at a time (the callers see one document, not copies).
Atomic == INSTANCE AtomicStore WITH doc <- stored

ImplementsAtomicStore == Atomic!Spec

\* A call of the store ends, however many callers wait and however often
\* entries of operationLock are overwritten or deleted under a running one.
EveryCallSettles == \A c \in Callers : phase[c] # "idle" ~> phase[c] = "idle"
=============================================================================
