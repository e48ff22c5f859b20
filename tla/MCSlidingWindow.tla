-------------------------- MODULE MCSlidingWindow --------------------------
(* Small instances of SlidingWindow for TLC. *)
EXTENDS SlidingWindow

\* Processes of one host, and containers that each count their own pids: the
\* image starts node under dumb-init, so it gets the same pid in every one.
DistinctPids == [r \in Replicas |-> r]
SamePid      == [r \in Replicas |-> 7]
=============================================================================
