---------------------------- MODULE MCOtelGroupJob ----------------------------
(***************************************************************************)
(* A small instance of OtelGroupJob: two job slots, so that a run whose    *)
(* lock was lost overlaps the next one, and two redrive cycles.  The unit  *)
(* of time is the label retention, which is also the age limit of the      *)
(* redrive: in instant 0 the group is young and its labels are kept, in    *)
(* instant 1 it is too old and a label of instant 0 may be forgotten.      *)
(***************************************************************************)
EXTENDS OtelGroupJob

CONSTANTS w1, w2, r1, r2

\* One fault of each kind, one or two kinds of them in a behaviour.
OneOfEach == [kind \in FaultKinds |-> 1]
Together  == {{"reply", "crash"}, {"error", "crash"}}
Separate  == {{k, l} : k \in FaultKinds, l \in FaultKinds} \ Together
=============================================================================
