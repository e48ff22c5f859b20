--------------------------- MODULE MCPolicyCache ---------------------------
(* Small instances of PolicyCache for TLC. *)
EXTENDS PolicyCache
=============================================================================
