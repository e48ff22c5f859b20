----------------------------- MODULE MCLimiter -----------------------------
(* Small instances of Limiter for TLC. *)
EXTENDS Limiter

Is(algorithm, limit, window) == [algorithm |-> algorithm, limit |-> limit, window |-> window]

Default == Is("fixed_window", 1, 2)

\* Nothing, the limit alone, everything.
SomeOverrides ==
  {Is(None, None, None), Is(None, 1, None), Default}

\* A rule of every dimension, with and without a pattern.
AllDims ==
  {[type |-> "global", pattern |-> None]}
  \cup [type : {"user", "ip", "endpoint", "custom"}, pattern : {None, {"a"}}]

AllContexts ==
  [identifier : {"a", "b"}, ip : {"a", None}, endpoint : {"b", None}, metadata : {"a", None}]

Wish(dim, asked, enabled, gives) ==
  [dim |-> dim, asked |-> asked, enabled |-> enabled, gives |-> gives]

\* A rule for one user over a rule for everybody, of one algorithm.
OverlappingPairs ==
  {<<Wish([type |-> "global", pattern |-> None], 50, TRUE, Is(a, p[1], p[2])),
     Wish([type |-> "user", pattern |-> {"a"}], 200, TRUE, Is(a, p[3], p[4]))>> :
       a \in Algorithms, p \in {<<2, 2, 1, 3>>, <<1, 2, 2, 3>>, <<3, 3, 1, 2>>}}

\* Two rules of any dimension, one with priority 0, the more urgent of which may be disabled.
AnyTwo ==
  {<<Wish(d, 0, TRUE, Default), Wish(e, 200, b, Default)>> :
     d \in AllDims, e \in AllDims, b \in BOOLEAN}

SomeTables == OverlappingPairs \cup AnyTwo

ASSUME ShortWindows == WindowsApart
=============================================================================
