--------------------------- MODULE MCDebugBridge ---------------------------
(* Small instances of the debug protocol server.                           *)
EXTENDS DebugBridge
=============================================================================
