--------------------------- MODULE MCDorisWriter ---------------------------
(* Constants for checking DorisWriter: two tables, table "a" with a small  *)
(* and a large row, so that its buffer reaches the cap with one row or with*)
(* both, and a batch is one row or both.                                   *)
EXTENDS DorisWriter

RowsOfA == {"a1", "a2"}
RowsMC == RowsOfA \cup {"b1"}
TablesMC == <<"a", "b">>
TableOfMC == [r \in RowsMC |-> IF r \in RowsOfA THEN "a" ELSE "b"]

BytesMC(r) == IF r = "a2" THEN 2 ELSE 1
SizeOfMC == [S \in SUBSET RowsMC |-> MapThenSumSet(BytesMC, S)]
============================================================================
