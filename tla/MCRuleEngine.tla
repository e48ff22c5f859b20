--------------------------- MODULE MCRuleEngine ---------------------------
(* Small instances of RuleEngine for TLC. *)
EXTENDS RuleEngine

\* One rule for everybody.
GlobalOnly == {[type |-> "global", pattern |-> None]}

OneLimit == {[algorithm |-> "token_bucket", limit |-> 1, window |-> 1]}
=============================================================================
