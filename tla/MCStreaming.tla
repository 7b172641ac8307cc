----------------------------- MODULE MCStreaming -----------------------------
(* A small provider: the balance of one address and the transactions of another. *)
EXTENDS Streaming

CONSTANTS balance, transactions, address1, address2

MCTypes == {balance, transactions}
MCAddresses == {address1, address2}
MCKeys == {<<balance, address1>>, <<transactions, address2>>}

\* One key, for a graph that liveness is checked on.
MCOneKey == {<<balance, address1>>}
=============================================================================
