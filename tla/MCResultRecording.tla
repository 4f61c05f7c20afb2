-------------------------- MODULE MCResultRecording --------------------------
(* A small instance of ResultRecording: two trades of one cycle of a task; the *)
(* first was opened before the recorder looked and is closed, the second is    *)
(* opened.                                                                     *)
EXTENDS ResultRecordingInvariant, TLC

CONSTANTS t1, a, b, k1, x1, o2

OneTask == [tr \in Trade |-> t1]
OneCycle == [tr \in Trade |-> k1]
Of == [e \in Event |-> IF e = o2 THEN b ELSE a]
Does == [e \in Event |-> IF e = x1 THEN "close" ELSE "open"]
CsvSql == <<"csv", "sql">>
=============================================================================
