---------------------------- MODULE RuleMatching ----------------------------
(***************************************************************************)
(* What the rules table says about a request: the row `create' stores      *)
(* (src/repositories/rule.repository.ts), which rows match and which of    *)
(* them is picked (src/services/rule-engine.service.ts).                   *)
(*                                                                         *)
(* A table maps rule ids to rows [dim, priority, enabled, gives].          *)
(***************************************************************************)
EXTENDS Integers

CONSTANTS
  DefaultPriority,  \* 100
  None              \* an absent field or pattern

\* create: request.priority || 100, also for the priority 0 that the schema lets
\* pass (rules.routes.ts).
StoredPriority(p) == IF p = 0 THEN DefaultPriority ELSE p

Row(dim, stored, enabled, gives) ==
  [dim |-> dim, priority |-> stored, enabled |-> enabled, gives |-> gives]

\* findEnabledRulesByPriority: WHERE enabled.
EnabledIn(table) == {i \in DOMAIN table : table[i].enabled}

\* matchPattern: patterns are abstracted to the sets of values they match.
Fits(value, pattern) == pattern = None \/ value \in pattern

\* matchCustomPattern: needs the metadata it is about.
FitsCustom(metadata, pattern) == metadata # None /\ metadata \in pattern

\* isRuleMatch.
IsRuleMatch(dim, ctx) ==
  CASE dim.type = "global"   -> TRUE
    [] dim.type = "user"     -> Fits(ctx.identifier, dim.pattern)
    [] dim.type = "ip"       -> ctx.ip # None /\ Fits(ctx.ip, dim.pattern)
    [] dim.type = "endpoint" -> ctx.endpoint # None /\ Fits(ctx.endpoint, dim.pattern)
    [] dim.type = "custom"   -> dim.pattern # None /\ FitsCustom(ctx.metadata, dim.pattern)

Matches(table, ctx) == {i \in EnabledIn(table) : IsRuleMatch(table[i].dim, ctx)}

\* findMatchingRule returns the first match of ORDER BY priority DESC: one of
\* these; created_at, which breaks ties, is not modelled.
Picks(table, ctx) ==
  {i \in Matches(table, ctx) : \A j \in Matches(table, ctx) : table[j].priority <= table[i].priority}
=============================================================================
