---------------------------- MODULE MCEventStore ----------------------------
(* The store called in every way by a few callers, on a small document. *)
EXTENDS EventStore

\* Fresh events are stored once per identifier: the identifier is a UUID.
MCOps ==
    {Save(e, NewEvent) : e \in Events}
    \cup {On(kind, e) : kind \in {"acquire", "release", "requeue", "complete", "error"}, e \in Events}
    \cup {Remove(S) : S \in SUBSET Events \ {{}}}

\* One event an earlier run of the program stored, one still to arrive.
MCInitialDoc == [e \in Events |-> IF e = 1 THEN NewEvent ELSE Absent]
=============================================================================
