---- MODULE MCScoreEvents ----
EXTENDS ScoreEvents, TLC

CONSTANTS w1, w2

SettingsMC ==
  {[log |-> TRUE, seen |-> FALSE, invalid |-> {}, faults |-> 1],
   [log |-> FALSE, seen |-> TRUE, invalid |-> {}, faults |-> 2],
   [log |-> FALSE, seen |-> FALSE, invalid |-> {1}, faults |-> 1]}

Symmetry == Permutations(Workers)
====
