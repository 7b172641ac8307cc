----------------------------- MODULE AtomicStore -----------------------------
(***************************************************************************)
(* What StorageEventStore promises its callers: every operation takes      *)
(* effect on the document at once, or not at all.  The one exception the   *)
(* code documents nowhere but makes is written down as an action of its    *)
(* own: Storage.get answers null when the adapter fails, so an operation   *)
(* may work on an empty document and write back only its own event.        *)
(***************************************************************************)
EXTENDS EventDoc

CONSTANTS Ops,              \* the calls the environment makes
          InitialDoc,       \* what an earlier run of the program left
          MaxFaults         \* storage faults; 0 is a storage that never fails

VARIABLE doc

Init == doc = InitialDoc

\* An operation whose checks pass takes effect on the current document.
Serve(o) == /\ Accepts(o, doc)
            /\ doc' = Apply(o, doc)

\* An operation whose read failed takes effect on an empty document.
ServeBlind(o) == /\ MaxFaults > 0
                 /\ Accepts(o, EmptyDoc)
                 /\ doc' = Apply(o, EmptyDoc)

Next == \E o \in Ops : Serve(o) \/ ServeBlind(o)

Spec == Init /\ [][Next]_doc
=============================================================================
