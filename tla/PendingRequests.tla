---------------------------- MODULE PendingRequests ----------------------------
(***************************************************************************)
(* The strategy requests that wait for a broker's answer in the event bus  *)
(* (core/events/bus.py, pending_strategy.py, aggregation.py), and the      *)
(* threads that put them there and take them out: the runner of each task  *)
(* (core/tasks/runner.py), the time-out monitor (core/tasks/monitors.py)   *)
(* and application threads that publish a request themselves.              *)
(*                                                                         *)
(* Of a runner this module keeps what touches the bus; the registry is     *)
(* TaskExecution's.  A result of a strategy is a set of requests: nothing  *)
(* depends on their order.  Clocks are the set `old` of the requests whose *)
(* age is at least the time-out.                                           *)
(***************************************************************************)
EXTENDS Naturals, FiniteSets

CONSTANTS
  Task,        \* tasks; each has a runner at a time, again and again
  Kind,        \* [Task -> {"backtest", "trading"}]
  Request,     \* requests, each published once: bounds the requests
  TaskOf,      \* the task_id of a request
  Broker,      \* requests with requires_broker; the others are HOLD
  AppRequest,  \* requests an application thread publishes
  MaxBatch,    \* requests in one StrategyResult
  Faults       \* what may raise: "handler", "callback", "observer"

ASSUME ConstantsAssumption ==
  /\ Kind \in [Task -> {"backtest", "trading"}]
  /\ TaskOf \in [Request -> Task]
  /\ Broker \subseteq Request /\ AppRequest \subseteq Request
  /\ MaxBatch \in Nat
  /\ Faults \subseteq {"handler", "callback", "observer"}

VARIABLES
  pending,    \* PendingStrategyRequestStore
  old,        \* requests at least strategy_request_timeout old
  runner,     \* the runner of each task, "off" when its future is done
  active,     \* tasks the registry shows in an active status
  monitor,    \* StrategyRequestTimeoutMonitor
  issued,     \* history: requests published
  answered,   \* history: requests whose response was published
  diagnosed,  \* history: requests whose diagnostic was published
  lost,       \* history: requests whose diagnostic was created and dropped
  left        \* history: requests that waited when their runner raised

vars == <<pending, old, runner, active, monitor, issued, answered, diagnosed,
          lost, left>>

RunnerPC == {"off", "call", "publish", "execute", "report", "next", "flags",
             "fail", "clear", "diagnose", "observe"}

\* batch: the requests of the result; todo: what is left to publish of them, or
\* of the reports; extra: those with a second report; hand: diagnostics to be
\* published, and where the thread goes after them.
RunnerState == [pc : RunnerPC, phase : {"run", "stop"}, failing : BOOLEAN,
                batch : SUBSET Request, todo : SUBSET Request,
                extra : SUBSET Request, hand : SUBSET Broker, then : RunnerPC]

\* tasks: those of the snapshot not looked at yet; task: the one looked at.
MonitorState == [pc : {"wait", "scan", "expire", "publish", "stopped"},
                 tasks : SUBSET Task, task : Task, hand : SUBSET Broker]

TypeOK ==
  /\ pending \subseteq Broker /\ old \subseteq Request
  /\ runner \in [Task -> RunnerState]
  /\ active \subseteq Task
  /\ monitor \in MonitorState
  /\ issued \subseteq Request
  /\ answered \subseteq Broker /\ diagnosed \subseteq Broker
  /\ lost \subseteq Broker /\ left \subseteq Broker

Off == [pc |-> "off", phase |-> "run", failing |-> FALSE, batch |-> {},
        todo |-> {}, extra |-> {}, hand |-> {}, then |-> "off"]

Init ==
  /\ pending = {} /\ old = {} /\ active = {}
  /\ runner = [t \in Task |-> Off]
  /\ monitor \in [pc : {"wait"}, tasks : {{}}, task : Task, hand : {{}}]
  /\ issued = {} /\ answered = {} /\ diagnosed = {} /\ lost = {} /\ left = {}

\* The requests a thread takes out of the store in one call of it.
Of(t) == {q \in pending : TaskOf[q] = t}
Overdue(t) == Of(t) \cap old

-----------------------------------------------------------------------------
\* The runner of task t.

Move(t, l) == runner' = [runner EXCEPT ![t] = l]
Goto(t, pc) == Move(t, [runner[t] EXCEPT !.pc = pc])

\* The except clause of run().
Fail(t) ==
  IF runner[t].failing THEN Move(t, Off)
  ELSE Move(t, [Off EXCEPT !.pc = "fail"])

History == <<issued, answered, diagnosed, lost, left>>

\* The task is saved as running, TASK_STARTED is published, on_start is next.
\* A pass of the monitor under way holds the runtime of an earlier run.
Launch(t) ==
  /\ runner[t].pc = "off"
  /\ active' = active \cup {t}
  /\ Goto(t, "call")
  /\ monitor' = [monitor EXCEPT !.tasks = @ \ {t}]
  /\ UNCHANGED <<pending, old, History>>

\* on_start, on_tick or on_stop returns requests nobody has published, or
\* raises.
Callback(t) ==
  /\ runner[t].pc = "call"
  /\ \/ \E S \in SUBSET ((Request \ AppRequest) \ issued) :
          /\ Cardinality(S) <= MaxBatch
          /\ \A q \in S : TaskOf[q] = t
          /\ Move(t, [runner[t] EXCEPT !.pc = "publish", !.batch = S,
                                       !.todo = S])
     \/ "callback" \in Faults /\ Fail(t)
  /\ UNCHANGED <<pending, old, active, monitor, History>>

\* Mutant of Publish: every request waits, the HOLD ones too.
PublishStoresAll(t) ==
  /\ runner[t].pc = "publish"
  /\ \E q \in runner[t].todo :
       /\ pending' = pending \cup {q}
       /\ issued' = issued \cup {q}
       /\ Move(t, [runner[t] EXCEPT !.todo = @ \ {q}])
  /\ UNCHANGED <<old, active, monitor, answered, diagnosed, lost, left>>

\* publish_many(events): a request for the broker is stored, then delivered to
\* the handlers; one of them may raise, and the rest is not published.
Publish(t) ==
  /\ runner[t].pc = "publish"
  /\ \E q \in runner[t].todo :
       /\ pending' = pending \cup ({q} \cap Broker)
       /\ issued' = issued \cup {q}
       /\ \/ Move(t, [runner[t] EXCEPT !.todo = @ \ {q}])
          \/ "handler" \in Faults /\ Fail(t)
  /\ UNCHANGED <<old, active, monitor, answered, diagnosed, lost, left>>

Published(t) ==
  /\ runner[t].pc = "publish" /\ runner[t].todo = {}
  /\ Goto(t, "execute")
  /\ UNCHANGED <<pending, old, active, monitor, History>>

\* Mutant of Execute: a request the broker refuses gets no report.
ExecuteSomeUnanswered(t) ==
  /\ runner[t].pc = "execute"
  /\ \E some \in SUBSET (runner[t].batch \cap Broker) :
       Move(t, [runner[t] EXCEPT !.pc = "report", !.todo = some])
  /\ UNCHANGED <<pending, old, active, monitor, History>>

\* execute_many(events): one report for every request of the broker at least,
\* an error report when nothing else; closing several trades makes more.
Execute(t) ==
  LET asked == runner[t].batch \cap Broker
  IN  /\ runner[t].pc = "execute"
      /\ \E extra \in SUBSET asked :
           Move(t, [runner[t] EXCEPT !.pc = "report", !.todo = asked,
                                     !.extra = extra])
      /\ UNCHANGED <<pending, old, active, monitor, History>>

\* publish_many(reports): the request stops waiting, if it still does, and the
\* response is delivered.
Report(t) ==
  /\ runner[t].pc = "report"
  /\ \E q \in runner[t].todo :
       /\ pending' = pending \ {q}
       /\ answered' = answered \cup {q}
       /\ \/ Move(t, [runner[t] EXCEPT
                        !.todo = IF q \in runner[t].extra THEN @ ELSE @ \ {q},
                        !.extra = @ \ {q}])
          \/ "handler" \in Faults /\ Fail(t)
  /\ UNCHANGED <<old, active, monitor, issued, diagnosed, lost, left>>

\* on_execution_reports, the context save and the observers' on_tick; after
\* on_stop the task completes or stops.
Reported(t) ==
  /\ runner[t].pc = "report" /\ runner[t].todo = {}
  /\ \/ /\ runner[t].phase = "run"
        /\ Move(t, [Off EXCEPT !.pc = "next"])
        /\ UNCHANGED active
     \/ /\ runner[t].phase = "stop"
        /\ Move(t, [Off EXCEPT !.pc = "clear"])
        /\ active' = active \ {t}
     \/ /\ Faults # {}
        /\ Fail(t)
        /\ UNCHANGED active
  /\ UNCHANGED <<pending, old, monitor, History>>

\* Thread t takes S out of the store, publishes a diagnostic for each and goes
\* to pc.
TakeOut(t, S, pc) ==
  /\ pending' = pending \ S
  /\ Move(t, [runner[t] EXCEPT !.pc = "diagnose", !.hand = S, !.then = pc])

\* A tick arrives: what is overdue expires before the flags are looked at.
Tick(t) ==
  /\ runner[t].pc = "next"
  /\ TakeOut(t, Overdue(t), "flags")
  /\ UNCHANGED <<old, active, monitor, History>>

\* The source is exhausted; on_stop is next.  A backtest expires once more.
EndOfSource(t) ==
  /\ runner[t].pc = "next"
  /\ pending' = IF Kind[t] = "backtest" THEN pending \ Overdue(t) ELSE pending
  /\ Move(t, [runner[t] EXCEPT
                !.pc = IF Kind[t] = "backtest" THEN "diagnose" ELSE "call",
                !.hand = IF Kind[t] = "backtest" THEN Overdue(t) ELSE {},
                !.then = "call", !.phase = "stop"])
  /\ UNCHANGED <<old, active, monitor, History>>

\* The source raises.
SourceRaises(t) ==
  /\ runner[t].pc = "next" /\ "callback" \in Faults
  /\ Fail(t)
  /\ UNCHANGED <<pending, old, active, monitor, History>>

\* The flags of TaskExecutionControl, set by calls of the manager at any time:
\* a pause returns at once, a stop finishes, otherwise on_tick is next.
Flags(t) ==
  /\ runner[t].pc = "flags"
  /\ \/ /\ \/ Move(t, Off)
           \/ Goto(t, "call")
        /\ UNCHANGED active
     \/ /\ Goto(t, "clear")
        /\ active' = active \ {t}
     \/ /\ "handler" \in Faults
        /\ Fail(t)
        /\ UNCHANGED active
  /\ UNCHANGED <<pending, old, monitor, History>>

\* fail_current: a handler that raises on TASK_FAILED ends the thread.
FailTask(t) ==
  /\ runner[t].pc = "fail"
  /\ active' = active \ {t}
  /\ \/ /\ Move(t, [Off EXCEPT !.pc = "clear", !.failing = TRUE])
        /\ UNCHANGED left
     \/ /\ "handler" \in Faults
        /\ Move(t, Off)
        /\ left' = left \cup Of(t)
  /\ UNCHANGED <<pending, old, monitor, issued, answered, diagnosed, lost>>

\* Mutant of Clear: the requests are published as failed and stay.
ClearKeeps(t) ==
  /\ runner[t].pc = "clear"
  /\ Move(t, [runner[t] EXCEPT !.pc = "diagnose", !.hand = Of(t),
                               !.then = "observe"])
  /\ UNCHANGED <<pending, old, active, monitor, History>>

\* _finish: whatever waits for the task is cleared, then the observers told.
Clear(t) ==
  /\ runner[t].pc = "clear"
  /\ TakeOut(t, Of(t), "observe")
  /\ UNCHANGED <<old, active, monitor, History>>

Observe(t) ==
  /\ runner[t].pc = "observe"
  /\ Move(t, Off) \/ ("observer" \in Faults /\ Fail(t))
  /\ UNCHANGED <<pending, old, active, monitor, History>>

\* publish_many(diagnostics) of thread t: when a handler raises, the rest of
\* the diagnostics are dropped; their requests no longer wait.
Diagnose(t) ==
  /\ runner[t].pc = "diagnose"
  /\ \/ /\ runner[t].hand = {}
        /\ Goto(t, runner[t].then)
        /\ UNCHANGED <<diagnosed, lost>>
     \/ \E q \in runner[t].hand :
          /\ diagnosed' = diagnosed \cup {q}
          /\ \/ /\ Move(t, [runner[t] EXCEPT !.hand = @ \ {q}])
                /\ UNCHANGED lost
             \/ /\ "handler" \in Faults
                /\ lost' = lost \cup (runner[t].hand \ {q})
                /\ Fail(t)
  /\ UNCHANGED <<pending, old, active, monitor, issued, answered, left>>

RunnerStep(t) ==
  \/ Launch(t) \/ Callback(t) \/ Publish(t) \/ Published(t) \/ Execute(t)
  \/ Report(t) \/ Reported(t) \/ Tick(t) \/ EndOfSource(t)
  \/ SourceRaises(t) \/ Flags(t) \/ FailTask(t) \/ Clear(t) \/ Observe(t) \/ Diagnose(t)

-----------------------------------------------------------------------------
\* The monitor.

MonitorOnly == UNCHANGED <<old, runner, active, issued, answered, left>>

\* The interval is over: a snapshot of the runtimes.
MonitorScan ==
  /\ monitor.pc = "wait"
  /\ monitor' = [monitor EXCEPT !.pc = "scan",
                                !.tasks = {t \in Task : runner[t].pc # "off"}]
  /\ MonitorOnly /\ UNCHANGED <<pending, diagnosed, lost>>

\* A live trading task in an active status is looked after.
Watched(t) == Kind[t] = "trading" /\ runner[t].pc # "off" /\ t \in active

\* The next task of the snapshot, or back to sleep.
MonitorCheck ==
  /\ monitor.pc = "scan"
  /\ \/ /\ monitor.tasks = {}
        /\ monitor' = [monitor EXCEPT !.pc = "wait"]
     \/ \E t \in monitor.tasks :
          monitor' = [monitor EXCEPT !.pc = IF Watched(t) THEN "expire" ELSE @,
                                     !.tasks = @ \ {t}, !.task = t]
  /\ MonitorOnly /\ UNCHANGED <<pending, diagnosed, lost>>

\* Mutant of MonitorExpire: the request must be past the time-out for long.
MonitorExpireNever ==
  /\ monitor.pc = "expire"
  /\ monitor' = [monitor EXCEPT !.pc = "publish"]
  /\ MonitorOnly /\ UNCHANGED <<pending, diagnosed, lost>>

\* Mutant of MonitorExpire: the requests are read, and removed by nobody.
MonitorExpireReads ==
  /\ monitor.pc = "expire"
  /\ monitor' = [monitor EXCEPT !.pc = "publish", !.hand = Overdue(monitor.task)]
  /\ MonitorOnly /\ UNCHANGED <<pending, diagnosed, lost>>

\* expire_pending takes what is overdue out of the store.
MonitorExpire ==
  LET due == Overdue(monitor.task)
  IN  /\ monitor.pc = "expire"
      /\ pending' = pending \ due
      /\ monitor' = [monitor EXCEPT !.pc = "publish", !.hand = due]
      /\ MonitorOnly /\ UNCHANGED <<diagnosed, lost>>

\* Mutant of MonitorPublish: one diagnostic for all that expired.
MonitorPublishOne ==
  /\ monitor.pc = "publish"
  /\ monitor' = [monitor EXCEPT !.pc = "scan", !.hand = {}]
  /\ IF monitor.hand = {} THEN UNCHANGED diagnosed
     ELSE \E q \in monitor.hand : diagnosed' = diagnosed \cup {q}
  /\ MonitorOnly /\ UNCHANGED <<pending, lost>>

\* publish_many(diagnostics) of the monitor: a handler that raises ends the
\* pass, with the diagnostics and the tasks that are left.
MonitorPublish ==
  /\ monitor.pc = "publish"
  /\ \/ /\ monitor.hand = {}
        /\ monitor' = [monitor EXCEPT !.pc = "scan"]
        /\ UNCHANGED <<diagnosed, lost>>
     \/ \E q \in monitor.hand :
          /\ diagnosed' = diagnosed \cup {q}
          /\ \/ /\ monitor' = [monitor EXCEPT !.hand = @ \ {q}]
                /\ UNCHANGED lost
             \/ /\ "handler" \in Faults
                /\ lost' = lost \cup (monitor.hand \ {q})
                /\ monitor' = [monitor EXCEPT !.pc = "wait", !.tasks = {},
                                              !.hand = {}]
  /\ MonitorOnly /\ UNCHANGED pending

MonitorStep == MonitorScan \/ MonitorCheck \/ MonitorExpire \/ MonitorPublish

\* The manager shuts down: the monitor is not woken again.
MonitorStop ==
  /\ monitor.pc = "wait"
  /\ monitor' = [monitor EXCEPT !.pc = "stopped"]
  /\ MonitorOnly /\ UNCHANGED <<pending, diagnosed, lost>>

-----------------------------------------------------------------------------
\* The rest of the world.

\* Time passes: q is overdue from now on.  Its timestamp is the strategy's, so
\* a request may be overdue before it is published.
Age(q) ==
  /\ q \notin old
  /\ old' = old \cup {q}
  /\ UNCHANGED <<pending, runner, active, monitor, History>>

\* The status of a task changes under its runner: stop() takes it out of the
\* active ones, a save of an older snapshot puts it back.
ChangeStatus(t) ==
  /\ runner[t].pc # "off"
  /\ \/ t \in active /\ active' = active \ {t}
     \/ t \notin active /\ active' = active \cup {t}
  /\ UNCHANGED <<pending, old, runner, monitor, History>>

\* An application thread publishes a request itself.
AppPublish(q) ==
  /\ q \in AppRequest \ issued
  /\ pending' = pending \cup ({q} \cap Broker)
  /\ issued' = issued \cup {q}
  /\ UNCHANGED <<old, runner, active, monitor, answered, diagnosed, lost, left>>

\* It publishes the response to one.
AppAnswer(q) ==
  /\ q \in AppRequest \cap Broker \cap issued
  /\ pending' = pending \ {q}
  /\ answered' = answered \cup {q}
  /\ UNCHANGED <<old, runner, active, monitor, issued, diagnosed, lost, left>>

Next ==
  \/ \E t \in Task : RunnerStep(t) \/ ChangeStatus(t)
  \/ MonitorStep \/ MonitorStop
  \/ \E q \in Request : Age(q) \/ AppPublish(q) \/ AppAnswer(q)

\* The monitor's thread is scheduled and time passes; no runner has to move.
Fairness == WF_vars(MonitorStep) /\ \A q \in Request : WF_vars(Age(q))

Spec == Init /\ [][Next]_vars /\ Fairness

-----------------------------------------------------------------------------
\* Properties.

\* The requests some thread has taken out and not diagnosed yet.
Hands ==
  monitor.hand \cup {q \in Request : \E t \in Task : q \in runner[t].hand}

\* A request is taken out of the store by one thread only: it does not wait
\* while a thread holds its diagnostic, no two threads hold one for it, and
\* none is held, or waits, after its diagnostic was published.
RemovedOnce ==
  /\ pending \cap diagnosed = {}
  /\ monitor.hand \cap (pending \cup diagnosed) = {}
  /\ \A t \in Task :
       runner[t].hand \cap (pending \cup diagnosed \cup monitor.hand) = {}
  /\ \A t, u \in Task : t # u => runner[t].hand \cap runner[u].hand = {}

\* No request vanishes: one published for the broker waits, is being
\* diagnosed, was answered or diagnosed, or lost its diagnostic to a handler
\* that raised.
Accounted ==
  issued \cap Broker \subseteq
    pending \cup Hands \cup answered \cup diagnosed \cup lost

\* A request of a strategy waits only while its runner is between its
\* publication and its report, or fails and is about to clear it; else the run
\* died telling of its failure.
Settled ==
  \A q \in (pending \ AppRequest) \ left :
    runner[TaskOf[q]].pc \in {"publish", "execute", "report", "fail", "clear"}

\* A backtest never gets an answer to a request of its strategy and the
\* diagnostic that there was none: only its own thread takes it out.
OneOutcome ==
  \A q \in Request \ AppRequest :
    Kind[TaskOf[q]] = "backtest" => q \notin answered \cap diagnosed

\* As long as a live trading task is active and the monitor runs, a request
\* of the task does not wait for ever, even when no tick arrives.
Expires ==
  \A q \in Broker :
    Kind[TaskOf[q]] = "trading" =>
      (q \in pending ~> \/ q \notin pending
                        \/ ~Watched(TaskOf[q])
                        \/ monitor.pc = "stopped")

\* A request whose diagnostic was dropped goes on waiting for those who listen.
Outcome == INSTANCE RequestOutcome
             WITH Request <- Broker, waiting <- pending \cup Hands \cup lost

\* Every step on the bus is a step of the outcomes the bus promises.
OutcomeRefined == Outcome!Spec
=============================================================================
