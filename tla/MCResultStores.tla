--------------------------- MODULE MCResultStores ---------------------------
(* A few records of each kind: fields that are missing, set and at a limit,   *)
(* two records of one trade, an interval that is no whole number of seconds   *)
(* and one that is less than a second.                                        *)
EXTENDS ResultStores, TLC

Noon == [at |-> 12, zone |-> TRUE]
Price(n) == [amount |-> n, currency |-> "JPY"]

\* A record of a kind with nothing but its keys, then with every field set.
Bare(kind, id) ==
  [f \in Fields(kind) |->
     CASE SortOf(kind, f) \in {"optional", "money"} -> None
       [] SortOf(kind, f) = "time" -> IF f = "timestamp" THEN Noon ELSE None
       [] SortOf(kind, f) = "text" -> ""
       [] SortOf(kind, f) = "flag" -> FALSE
       [] SortOf(kind, f) = "count" -> 0
       [] SortOf(kind, f) = "seconds" -> 2
       [] SortOf(kind, f) = "metadata" -> "plain"
       [] OTHER -> id]
Full(kind, id) ==
  [f \in Fields(kind) |->
     CASE SortOf(kind, f) = "optional" -> "7"
       [] SortOf(kind, f) = "money" -> Price(3)
       [] SortOf(kind, f) = "time" -> Noon
       [] SortOf(kind, f) = "text" -> "text"
       [] SortOf(kind, f) = "flag" -> TRUE
       [] SortOf(kind, f) = "count" -> 1
       [] SortOf(kind, f) = "seconds" -> 3
       [] SortOf(kind, f) = "metadata" -> "rich"
       [] OTHER -> id]

e1 == Bare("event", "a")
e2 == Full("event", "b")
open == Bare("trade", "a")
closed == [Full("trade", "a") EXCEPT !["metadata"] = "wrapped"]
c1 == Full("cycle", "a")
k1 == Bare("task", "a")
m1 == Full("metric", "a")
m2 == [Full("metric", "b") EXCEPT !["interval"] = 1]

Records ==
  [event |-> {e1, e2}, trade |-> {open, closed}, cycle |-> {c1}, task |-> {k1},
   metric |-> {m1, m2}]

Batch(e, t, c, k, m) == [event |-> e, trade |-> t, cycle |-> c, task |-> k, metric |-> m]
SmallBatches ==
  {Batch(<<e1>>, <<open>>, <<>>, <<>>, <<m1>>),
   Batch(<<e2, e1, e2>>, <<open, closed>>, <<c1>>, <<k1>>, <<>>),
   Batch(<<>>, <<closed>>, <<>>, <<>>, <<m1, m2>>)}
=============================================================================
