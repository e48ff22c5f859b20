---------------------------- MODULE MCGateway ----------------------------
(* Small instances of Gateway for TLC. *)
EXTENDS Gateway

\* The defaults of src/config/index.ts.
DefaultModes == [rateLimit |-> "fail_open", admission |-> "fail_closed"]

\* Redis may go away twice, so that a client loses a connection it regained.
Outages == [redis |-> 2, pg |-> 1]
=============================================================================
