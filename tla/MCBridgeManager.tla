--------------------------- MODULE MCBridgeManager ---------------------------
(* The bridge with a few messages and one event of the injected bridge. *)
EXTENDS BridgeManager
=============================================================================
