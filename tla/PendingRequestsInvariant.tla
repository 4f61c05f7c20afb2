---------------------- MODULE PendingRequestsInvariant ----------------------
(***************************************************************************)
(* The inductive invariant of PendingRequests: what each thread knows of   *)
(* the requests it is working on.                                          *)
(***************************************************************************)
EXTENDS PendingRequests

\* Only published requests wait, are answered or are diagnosed.
IssuedFirst ==
  /\ pending \cup diagnosed \cup answered \cup monitor.hand \subseteq issued
  /\ \A t \in Task : runner[t].hand \subseteq issued

\* The requests a runner in state l is going to publish, have executed or
\* report.
Work(l) ==
  IF l.pc \in {"publish", "execute"} THEN l.batch
  ELSE IF l.pc = "report" THEN l.todo ELSE {}

AtWork(t) == Work(runner[t])

\* A runner works on requests of its own task's strategy: those it has still
\* to publish nobody has published, the others are published; what it reports
\* on went to the broker.
WorkOK(t, l) ==
  /\ \A q \in Work(l) : TaskOf[q] = t /\ q \notin AppRequest
  /\ IF l.pc = "publish"
     THEN l.todo \subseteq l.batch \ issued /\ l.batch \ l.todo \subseteq issued
     ELSE Work(l) \subseteq issued
  /\ l.pc = "report" => l.todo \subseteq Broker

\* A thread holds diagnostics while it publishes them only, those of one task;
\* that of the monitor is a trading task.
HandsHeld ==
  /\ \A t \in Task :
       /\ runner[t].pc # "diagnose" => runner[t].hand = {}
       /\ \A q \in runner[t].hand : TaskOf[q] = t
  /\ monitor.pc # "publish" => monitor.hand = {}
  /\ \A q \in monitor.hand : TaskOf[q] = monitor.task
  /\ monitor.pc \in {"expire", "publish"} => Kind[monitor.task] = "trading"

\* A run that has failed only clears; it has no second try.
FailingLast(t) ==
  runner[t].failing =>
    /\ runner[t].pc \in {"clear", "diagnose", "observe"}
    /\ runner[t].pc = "diagnose" => runner[t].then = "observe"

\* After a diagnostic a runner does not publish, execute, report or clear.
ThenResumes(t) == runner[t].pc = "diagnose" =>
                    runner[t].then \in {"flags", "call", "observe"}

\* The requests of a strategy that wait are those its runner works on, until
\* the run fails.
OwnSettled ==
  \A q \in (pending \ AppRequest) \ left :
    \/ q \in AtWork(TaskOf[q])
    \/ runner[TaskOf[q]].pc \in {"fail", "clear"}

\* What a backtest's runner works on was not diagnosed; what was answered is
\* nobody's any more.
BacktestAlone ==
  \A q \in Request \ AppRequest :
    Kind[TaskOf[q]] = "backtest" =>
      /\ q \in AtWork(TaskOf[q]) => q \notin diagnosed
      /\ q \in answered => q \notin pending \cup diagnosed \cup runner[TaskOf[q]].hand

\* The inductive invariant of the pending requests.
IInv ==
  /\ TypeOK /\ IssuedFirst /\ HandsHeld /\ RemovedOnce /\ Accounted
  /\ OwnSettled /\ BacktestAlone
  /\ \A t \in Task : WorkOK(t, runner[t]) /\ FailingLast(t) /\ ThenResumes(t)

\* What a listener of the bus believes: a request waits until it hears of it.
Believed == pending \cup Hands \cup lost

\* A request whose diagnostic was dropped is out of everybody's hands: nobody
\* puts it back, holds it or diagnoses it later.
LostForGood ==
  /\ lost \subseteq issued
  /\ lost \cap (pending \cup Hands \cup diagnosed) = {}
=============================================================================
