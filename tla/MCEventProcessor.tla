-------------------------- MODULE MCEventProcessor --------------------------
(* The event pipeline with one wallet and a few events. *)
EXTENDS EventProcessor

CONSTANT Wallet

MCWallets == {Wallet}

\* Events 1 and 3 come from the wallet's session, event 2 is a connect request.
MCSource == [e \in Events |-> IF e = 2 THEN NoWallet ELSE Wallet]

\* An earlier run stored event 1.
MCInitialDoc == [e \in Events |-> IF e = 1 THEN NewEvent ELSE Absent]

\* An earlier run stored every event.
MCFullDoc == [e \in Events |-> NewEvent]
=============================================================================
