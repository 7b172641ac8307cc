------------------------------ MODULE EventDoc ------------------------------
(***************************************************************************)
(* The document `durable_events`: one record per bridge event, and what    *)
(* each operation of StorageEventStore computes from the copy of it that   *)
(* it read.  This module has no state: EventStore runs these operations at *)
(* the granularity of the storage calls, AtomicStore runs them at once.    *)
(*                                                                         *)
(* Of a StoredEvent only what the operations test is kept: the status, the *)
(* retry count and whether processingStartedAt is set.                     *)
(***************************************************************************)
EXTENDS Naturals

CONSTANT Events             \* identifiers of the events the bridge delivers

Status == {"absent", "new", "processing", "completed", "errored"}

\* A StoredEvent; the status "absent" stands for a key the document lacks.
Record == [status : Status, retry : Nat, started : BOOLEAN]

Absent == [status |-> "absent", retry |-> 0, started |-> FALSE]

\* The record storeEvent builds.
NewEvent == [status |-> "new", retry |-> 0, started |-> FALSE]

Doc == [Events -> Record]

EmptyDoc == [e \in Events |-> Absent]

\* releaseLock counts a retry when it is told an error message that is not
\* empty ("release"), and none when it is told an empty one ("requeue").
Kinds == {"save", "acquire", "release", "requeue", "complete", "error", "remove"}

\* A call: its kind, the events it is about, and the record a save writes.
Operation == [kind : Kinds, evs : SUBSET Events, rec : Record]

Save(e, r) == [kind |-> "save", evs |-> {e}, rec |-> r]
On(kind, e) == [kind |-> kind, evs |-> {e}, rec |-> Absent]
Remove(S) == [kind |-> "remove", evs |-> S, rec |-> Absent]
NoOp == Remove({})
-----------------------------------------------------------------------------
\* Mutant of Changed, for the mutation runs: releasing takes the retry back.
RefundingChanged(o, r) ==
    CASE o.kind = "save"     -> o.rec
      [] o.kind = "acquire"  -> [r EXCEPT !.status = "processing", !.started = TRUE]
      [] o.kind = "release"  -> [status |-> "new", retry |-> r.retry - 1, started |-> FALSE]
      [] o.kind = "requeue"  -> [r EXCEPT !.status = "new", !.started = FALSE]
      [] o.kind = "complete" -> [r EXCEPT !.status = "completed"]
      [] o.kind = "error"    -> [r EXCEPT !.status = "errored"]
      [] o.kind = "remove"   -> Absent
-----------------------------------------------------------------------------
\* The status checks an operation makes on the document it read; when one
\* fails the operation returns or throws without writing.
Accepts(o, d) ==
    \A e \in o.evs :
        /\ o.kind = "acquire" => d[e].status = "new"
        /\ o.kind \in {"release", "requeue", "complete", "error"} => d[e].status = "processing"

\* The record an operation leaves for an event it is about.
Changed(o, r) ==
    CASE o.kind = "save"     -> o.rec
      [] o.kind = "acquire"  -> [r EXCEPT !.status = "processing", !.started = TRUE]
      [] o.kind = "release"  -> [status |-> "new", retry |-> r.retry + 1, started |-> FALSE]
      [] o.kind = "requeue"  -> [r EXCEPT !.status = "new", !.started = FALSE]
      [] o.kind = "complete" -> [r EXCEPT !.status = "completed"]
      [] o.kind = "error"    -> [r EXCEPT !.status = "errored"]
      [] o.kind = "remove"   -> Absent

\* The document an operation writes, computed from the document it read.
Apply(o, d) == [e \in Events |-> IF e \in o.evs THEN Changed(o, d[e]) ELSE d[e]]
=============================================================================
