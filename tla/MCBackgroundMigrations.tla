----------------------- MODULE MCBackgroundMigrations -----------------------
(***************************************************************************)
(* Small instances of BackgroundMigrations: two processes, so that one can *)
(* take over from the other, and two migrations, so that a loop goes from  *)
(* one to the next.                                                         *)
(***************************************************************************)
EXTENDS BackgroundMigrations, TLC

CONSTANTS w1, w2

With(kinds) == [kind \in EventKinds |-> IF kind \in kinds THEN 1 ELSE 0]

\* Any two kinds of event, each once.
Pairs == {With({k, l}) : k \in EventKinds, l \in EventKinds}
=============================================================================
