--------------------------- MODULE MCWaitProgress ---------------------------
(* A trading task or a period of three units with a clock that also leaves it; *)
(* waits with a passed, a near and no deadline, polls of two units of time.    *)
EXTENDS WaitProgress

Periods == {None, 3}
Times == -1..4
Deadlines == {None, 0, 3}
=============================================================================
