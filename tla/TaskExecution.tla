---------------------------- MODULE TaskExecution ----------------------------
(***************************************************************************)
(* TaskManager, its services and the runners it puts on a thread pool      *)
(* (core/tasks/manager.py, management.py, launching.py, runtime.py,        *)
(* runner.py, runner_support.py).                                          *)
(*                                                                         *)
(* A client is an application thread inside one TaskManager call; a run is *)
(* one runner.run submitted to the executor, with its future and its       *)
(* TaskExecutionControl.  The registry's get and save are each atomic      *)
(* under its lock and nothing holds the lock between them, so every        *)
(* read-modify-write of a task is two steps here, with the snapshot read   *)
(* kept in the thread's `snap`.                                            *)
(***************************************************************************)
EXTENDS ExecutableTask, Sequences, FiniteSets

CONSTANTS
  Task,        \* tasks that may be started
  Run,         \* runs that may be submitted: bounds the launches
  Client,      \* application threads
  Kind,        \* [Task -> {"backtest", "trading"}]
  Strategy,    \* strategy objects
  StrategyOf,  \* the strategy object a task is started with
  Ops,         \* the TaskManager operations a client calls
  Faults,      \* what may raise: "handler", "callback", "observer"
  MaxWorkers,  \* threads of the executor
  MaxTicks,    \* ticks of a backtest: bounds a finite source
  MaxState,    \* versions of a strategy state: bounds state changes
  MaxStarts,   \* bounds run_count
  NoRun        \* no runtime / no run

Op == {"start", "pause", "stop", "restart", "timeout", "shutdown"}

ASSUME ConstantsAssumption ==
  /\ Kind \in [Task -> {"backtest", "trading"}]
  /\ StrategyOf \in [Task -> Strategy]
  /\ Ops \in [Client -> SUBSET Op]
  /\ Faults \subseteq {"handler", "callback", "observer"}
  /\ MaxWorkers \in Nat \ {0}
  /\ MaxTicks \in Nat /\ MaxState \in Nat /\ MaxStarts \in Nat
  /\ NoRun \notin Run
  /\ Task # {}

VARIABLES
  registry,   \* InMemoryTaskRegistry: the latest snapshot of each task
  runtimes,   \* TaskRuntimeRegistry: the latest run of each task, or NoRun
  run,        \* the runner threads
  client,     \* the application threads
  queue,      \* work items of the executor no thread has taken yet
  open,       \* the executor accepts work
  stopReq,    \* runs whose stop flag is set; flags are never cleared
  pauseReq,   \* runs whose pause flag is set
  raised,     \* done runs whose future holds an exception
  notified,   \* history: runs whose observers were told of the finish
  rejected,   \* history: tasks whose latest launch raised after the save
  late        \* history: runs of launches that a shutdown did not see

vars == <<registry, runtimes, run, client, queue, open, stopReq, pauseReq,
          raised, notified, rejected, late>>

RunPC == {"unused", "queued", "boot", "boot_store", "announce", "call",
          "load", "store", "next", "lc_load", "lc_store", "lc_publish",
          "finish", "done"}

ClientPC == {"idle", "ctl_load", "ctl_store", "await", "reload",
             "restart_store", "check_task", "check_strategy", "submit",
             "register", "close", "join"}

\* The locals of a runner thread and of a call.
RunState == [task : Task, pc : RunPC, phase : {"start", "tick", "stop"},
             goal : TaskAction, snap : Snapshot, ctx : Nat, ticks : Nat]

ClientState == [pc : ClientPC, op : Op, task : Task, run : Run \cup {NoRun},
                snap : Snapshot]

TypeOK ==
  /\ registry \in [Task -> Snapshot]
  /\ runtimes \in [Task -> Run \cup {NoRun}]
  /\ run \in [Run -> RunState]
  /\ client \in [Client -> ClientState]
  /\ queue \in Seq(Run)
  /\ open \in BOOLEAN
  /\ stopReq \subseteq Run /\ pauseReq \subseteq Run
  /\ raised \subseteq Run /\ notified \subseteq Run /\ late \subseteq Run
  /\ rejected \subseteq Task

AnyTask == CHOOSE t \in Task : TRUE

IdleClient == [pc |-> "idle", op |-> "start", task |-> AnyTask, run |-> NoRun,
               snap |-> NewTask]

\* A status "created" stands for a task that is not in the registry yet: the
\* manager saves a task only after start().
Init ==
  /\ registry = [t \in Task |-> NewTask]
  /\ runtimes = [t \in Task |-> NoRun]
  /\ run = [r \in Run |-> [task |-> AnyTask, pc |-> "unused",
                           phase |-> "start", goal |-> "start",
                           snap |-> NewTask, ctx |-> 0, ticks |-> 0]]
  /\ client = [c \in Client |-> IdleClient]
  /\ queue = <<>>
  /\ open = TRUE
  /\ stopReq = {} /\ pauseReq = {} /\ raised = {} /\ notified = {}
  /\ rejected = {} /\ late = {}

Live(r) == run[r].pc \notin {"unused", "done"}    \* submitted, future not done
Done(r) == run[r].pc = "done"                     \* future.done()
Executing == {r \in Run : run[r].pc \notin {"unused", "queued", "done"}}
Unused == {r \in Run : run[r].pc = "unused"}

-----------------------------------------------------------------------------
\* The runner thread.

\* Thread r goes to pc with its other locals as in the record l.
Goto(r, pc, l) == run' = [run EXCEPT ![r] = [l EXCEPT !.pc = pc]]

RunnerVars == <<runtimes, client, open, stopReq, pauseReq, rejected, late>>

Save(t, snapshot) == registry' = [registry EXCEPT ![t] = snapshot]

\* A worker of the pool takes the next work item.
Dequeue(r) ==
  /\ run[r].pc = "queued" /\ queue # <<>> /\ r = Head(queue)
  /\ Cardinality(Executing) < MaxWorkers
  /\ queue' = Tail(queue)
  /\ Goto(r, "boot", run[r])
  /\ UNCHANGED <<RunnerVars, registry, raised, notified>>

\* TaskLifecycle.ensure_running reads the task: running already, startable
\* (a resume), or TaskStateError, which no handler of run() catches.
EnsureLoad(r) ==
  LET task == registry[run[r].task]
      l == [run[r] EXCEPT !.snap = task]
  IN  /\ run[r].pc = "boot"
      /\ \/ /\ task.status = "running"
            /\ Goto(r, "announce", l)
            /\ UNCHANGED raised
         \/ /\ Can(task, "start")
            /\ Goto(r, "boot_store", l)
            /\ UNCHANGED raised
         \/ /\ task.status # "running" /\ ~Can(task, "start")
            /\ Goto(r, "done", l)
            /\ raised' = raised \cup {r}
      /\ UNCHANGED <<RunnerVars, registry, queue, notified>>

EnsureStore(r) ==
  LET task == Start(run[r].snap)
  IN  /\ run[r].pc = "boot_store"
      /\ Save(run[r].task, task)
      /\ Goto(r, "announce", [run[r] EXCEPT !.snap = task])
      /\ UNCHANGED <<RunnerVars, queue, raised, notified>>

\* TASK_STARTED is published outside the try of run(): a handler that raises
\* ends the thread.  Otherwise the strategy context starts from the snapshot.
Announce(r) ==
  /\ run[r].pc = "announce"
  /\ \/ /\ Goto(r, "call", [run[r] EXCEPT !.ctx = run[r].snap.strategy_state,
                                          !.phase = "start"])
        /\ UNCHANGED raised
     \/ /\ "handler" \in Faults
        /\ Goto(r, "done", run[r])
        /\ raised' = raised \cup {r}
  /\ UNCHANGED <<RunnerVars, registry, queue, notified>>

\* The action of TaskLifecycle the thread performs next; the strategy context
\* and the source are not used after it.
Begin(r, action, l) ==
  Goto(r, "lc_load", [l EXCEPT !.goal = action, !.ctx = 0, !.ticks = 0])

\* Mutant of Callback: on_tick without a look at the stop flag.
CallbackNoStop(r) ==
  /\ run[r].pc = "call"
  /\ \E state \in {run[r].ctx, run[r].ctx + 1} :
       /\ state <= MaxState
       /\ Goto(r, "load", [run[r] EXCEPT !.ctx = state])
  /\ UNCHANGED <<RunnerVars, registry, queue, raised, notified>>

\* on_start, on_tick or on_stop and StrategyExecutionPipeline.process_result.
\* driver.tick looks at the stop flag just before on_tick.
Callback(r) ==
  /\ run[r].pc = "call"
  /\ \/ /\ run[r].phase = "tick" /\ r \in stopReq
        /\ Begin(r, "stop", run[r])
     \/ /\ ~(run[r].phase = "tick" /\ r \in stopReq)
        /\ \E state \in {run[r].ctx, run[r].ctx + 1} :
             /\ state <= MaxState
             /\ Goto(r, "load", [run[r] EXCEPT !.ctx = state])
     \/ /\ ~(run[r].phase = "tick" /\ r \in stopReq)
        /\ Faults \cap {"callback", "handler"} # {}
        /\ Begin(r, "fail", run[r])
  /\ UNCHANGED <<RunnerVars, registry, queue, raised, notified>>

\* After the context of a callback is stored: the tick loop, or the final
\* transition of driver.stop.
AfterStore(r, l) ==
  IF l.phase # "stop" THEN Goto(r, "next", l)
  ELSE Begin(r, IF Kind[l.task] = "backtest" THEN "complete" ELSE "stop", l)

\* TaskContextStore.save.
ContextLoad(r) ==
  LET task == registry[run[r].task]
      l == [run[r] EXCEPT !.snap = task]
  IN  /\ run[r].pc = "load"
      /\ IF task.strategy_state = run[r].ctx
         THEN AfterStore(r, l)
         ELSE Goto(r, "store", l)
      /\ UNCHANGED <<RunnerVars, registry, queue, raised, notified>>

ContextStore(r) ==
  LET task == WithStrategyState(run[r].snap, run[r].ctx)
  IN  /\ run[r].pc = "store"
      /\ Save(run[r].task, task)
      /\ AfterStore(r, [run[r] EXCEPT !.snap = task])
      /\ UNCHANGED <<RunnerVars, queue, raised, notified>>

\* Mutant of NextTick: a finite source read past its end.
NextTickUnbounded(r) ==
  /\ run[r].pc = "next"
  /\ Goto(r, "call", [run[r] EXCEPT !.phase = "tick", !.ticks = @ - 1])
  /\ UNCHANGED <<RunnerVars, registry, queue, raised, notified>>

\* The loop of run() gets a tick; driver.tick looks at the pause flag first.
\* A live stream has no end of its own; a backtest has at most MaxTicks.
NextTick(r) ==
  LET l == [run[r] EXCEPT !.phase = "tick",
                          !.ticks = IF Kind[run[r].task] = "backtest"
                                    THEN @ - 1 ELSE @]
  IN  /\ run[r].pc = "next"
      /\ Kind[run[r].task] = "backtest" => run[r].ticks > 0
      /\ IF r \in pauseReq THEN Begin(r, "pause", l) ELSE Goto(r, "call", l)
      /\ UNCHANGED <<RunnerVars, registry, queue, raised, notified>>

\* The source is exhausted: on_stop is called, whatever the flags say.
StreamEnd(r) ==
  /\ run[r].pc = "next"
  /\ Goto(r, "call", [run[r] EXCEPT !.phase = "stop"])
  /\ UNCHANGED <<RunnerVars, registry, queue, raised, notified>>

\* Mutant of LoopFault: the loop ends without fail_current.
LoopFaultSilent(r) ==
  /\ run[r].pc = "next" /\ Faults # {}
  /\ Goto(r, "done", run[r])
  /\ UNCHANGED <<RunnerVars, registry, queue, raised, notified>>

\* The source or a handler of an expiry event raises, or an observer's on_tick
\* did after the tick just processed.
LoopFault(r) ==
  /\ run[r].pc = "next"
  /\ \/ Faults \cap {"callback", "handler"} # {}
     \/ "observer" \in Faults /\ run[r].phase = "tick"
  /\ Begin(r, "fail", run[r])
  /\ UNCHANGED <<RunnerVars, registry, queue, raised, notified>>

\* Mutant of AfterTransition: a stop that skips _finish, as a pause does.
AfterTransitionNoFinish(r, l) ==
  Goto(r, IF l.goal \in {"pause", "stop"} THEN "done" ELSE "finish", l)

\* After a lifecycle action: a paused runner returns at once, every other
\* end goes through _finish.
AfterTransition(r, l) ==
  Goto(r, IF l.goal = "pause" THEN "done" ELSE "finish", l)

\* pause_current, stop_current, complete_current, fail_current.
LifecycleLoad(r) ==
  LET task == registry[run[r].task]
      l == [run[r] EXCEPT !.snap = task]
  IN  /\ run[r].pc = "lc_load"
      /\ IF Can(task, run[r].goal)
         THEN Goto(r, "lc_store", l)
         ELSE AfterTransition(r, l)
      /\ UNCHANGED <<RunnerVars, registry, queue, raised, notified>>

LifecycleStore(r) ==
  LET task == Apply(run[r].snap, run[r].goal)
  IN  /\ run[r].pc = "lc_store"
      /\ Save(run[r].task, task)
      /\ Goto(r, "lc_publish", [run[r] EXCEPT !.snap = task])
      /\ UNCHANGED <<RunnerVars, queue, raised, notified>>

\* A handler that raises on TASK_FAILED ends the thread; on the other events
\* it makes the task fail.
LifecyclePublish(r) ==
  /\ run[r].pc = "lc_publish"
  /\ \/ /\ AfterTransition(r, run[r])
        /\ UNCHANGED raised
     \/ /\ "handler" \in Faults /\ run[r].goal = "fail"
        /\ Goto(r, "done", run[r])
        /\ raised' = raised \cup {r}
     \/ /\ "handler" \in Faults /\ run[r].goal # "fail"
        /\ Begin(r, "fail", run[r])
        /\ UNCHANGED raised
  /\ UNCHANGED <<RunnerVars, registry, queue, notified>>

\* TaskRunner._finish: clear the pending requests (a handler may raise), then
\* tell the observers when the snapshot is terminal (one may raise).  A fault
\* fails the task, unless it is already failing.
Finish(r) ==
  LET told == IF run[r].snap.status \in Terminal THEN {r} ELSE {}
      Fault == IF run[r].goal = "fail" THEN Goto(r, "done", run[r])
               ELSE Begin(r, "fail", run[r])
  IN  /\ run[r].pc = "finish"
      /\ \/ /\ Goto(r, "done", run[r])
            /\ notified' = notified \cup told
         \/ /\ "handler" \in Faults
            /\ Fault
            /\ UNCHANGED notified
         \/ /\ "observer" \in Faults /\ told # {}
            /\ Fault
            /\ notified' = notified \cup told
      /\ UNCHANGED <<RunnerVars, registry, queue, raised>>

RunnerStep(r) ==
  \/ Dequeue(r) \/ EnsureLoad(r) \/ EnsureStore(r) \/ Announce(r)
  \/ Callback(r) \/ ContextLoad(r) \/ ContextStore(r)
  \/ NextTick(r) \/ StreamEnd(r) \/ LoopFault(r)
  \/ LifecycleLoad(r) \/ LifecycleStore(r) \/ LifecyclePublish(r)
  \/ Finish(r)

-----------------------------------------------------------------------------
\* The application threads.

ClientGoto(c, pc, l) == client' = [client EXCEPT ![c] = [l EXCEPT !.pc = pc]]

\* The call returns or raises: its locals are gone.
Return(c) == client' = [client EXCEPT ![c] = IdleClient]

ClientVars == <<run, queue, open, raised, notified, late>>

\* Launches in flight each need a run: keeps `submit` from waiting for one.
Launching == {c \in Client : client[c].pc \in
                {"restart_store", "check_task", "check_strategy", "submit"}}
RunLeft == Cardinality(Unused) > Cardinality(Launching)

\* start_backtest, start_trading: the started task is saved before _launch.
StartTask(c, t) ==
  /\ client[c].pc = "idle" /\ "start" \in Ops[c] /\ RunLeft
  /\ registry[t].status = "created"
  /\ Save(t, Start(registry[t]))
  /\ ClientGoto(c, "check_task",
                [client[c] EXCEPT !.op = "start", !.task = t, !.run = NoRun])
  /\ rejected' = rejected \ {t}
  /\ UNCHANGED <<ClientVars, runtimes, stopReq, pauseReq>>

\* A launch that raises leaves the saved task as it is.
Reject(c) ==
  /\ rejected' = rejected \cup {client[c].task}
  /\ Return(c)

\* _ensure_task_has_no_active_runner.
CheckTask(c) ==
  LET t == client[c].task
      current == runtimes[t]
  IN  /\ client[c].pc = "check_task"
      /\ IF current # NoRun /\ ~Done(current) /\ registry[t].status \in Active
         THEN Reject(c)
         ELSE /\ ClientGoto(c, "check_strategy", client[c])
              /\ UNCHANGED rejected
      /\ UNCHANGED <<ClientVars, registry, runtimes, stopReq, pauseReq>>

\* Mutant of UsedByAnother: future.running() in place of not future.done().
RunsForAnother(t) ==
  \E other \in Task \ {t} :
    /\ runtimes[other] \in Executing
    /\ StrategyOf[other] = StrategyOf[t]
    /\ registry[other].status \in Active

\* Another task that counts as using the strategy object.
UsedByAnother(t) ==
  \E other \in Task \ {t} :
    /\ runtimes[other] # NoRun /\ ~Done(runtimes[other])
    /\ StrategyOf[other] = StrategyOf[t]
    /\ registry[other].status \in Active

\* _ensure_strategy_has_no_active_runner.
CheckStrategy(c) ==
  /\ client[c].pc = "check_strategy"
  /\ IF UsedByAnother(client[c].task)
     THEN Reject(c)
     ELSE /\ ClientGoto(c, "submit", client[c])
          /\ UNCHANGED rejected
  /\ UNCHANGED <<ClientVars, registry, runtimes, stopReq, pauseReq>>

\* A shutdown has flagged the runs it saw and not closed the executor yet.
ShuttingDown == \E c \in Client : client[c].pc = "close"

\* TaskLauncher.launch: a fresh control and a work item, or RuntimeError when
\* the executor is shut down.
Submit(c) ==
  LET t == client[c].task
  IN  /\ client[c].pc = "submit"
      /\ \/ /\ open
            /\ \E r \in Unused :
                 /\ run' = [run EXCEPT ![r] =
                              [@ EXCEPT !.task = t, !.pc = "queued",
                                        !.ticks = MaxTicks]]
                 /\ queue' = Append(queue, r)
                 /\ ClientGoto(c, "register", [client[c] EXCEPT !.run = r])
                 /\ late' = IF ShuttingDown THEN late \cup {r} ELSE late
            /\ UNCHANGED rejected
         \/ /\ ~open
            /\ Reject(c)
            /\ UNCHANGED <<run, queue, late>>
      /\ UNCHANGED <<registry, runtimes, open, stopReq, pauseReq, raised,
                     notified>>

\* The runtime is stored after the work item was submitted.
Register(c) ==
  /\ client[c].pc = "register"
  /\ runtimes' = [runtimes EXCEPT ![client[c].task] = client[c].run]
  /\ Return(c)
  /\ UNCHANGED <<ClientVars, registry, stopReq, pauseReq, rejected>>

\* TaskControlService.pause and stop: the flag, then a read-modify-write of
\* the task.  A task without a runtime raises KeyError before either.
Control(c, t, op) ==
  /\ client[c].pc = "idle" /\ op \in Ops[c] \cap {"pause", "stop"}
  /\ runtimes[t] # NoRun
  /\ \/ /\ op = "pause" /\ pauseReq' = pauseReq \cup {runtimes[t]}
        /\ UNCHANGED stopReq
     \/ /\ op = "stop" /\ stopReq' = stopReq \cup {runtimes[t]}
        /\ UNCHANGED pauseReq
  /\ ClientGoto(c, "ctl_load", [client[c] EXCEPT !.op = op, !.task = t,
                                                 !.run = runtimes[t]])
  /\ UNCHANGED <<ClientVars, registry, runtimes, rejected>>

ControlLoad(c) ==
  LET task == registry[client[c].task]
      l == [client[c] EXCEPT !.snap = task]
  IN  /\ client[c].pc = "ctl_load"
      /\ IF Can(task, client[c].op) THEN ClientGoto(c, "ctl_store", l)
         ELSE Return(c)
      /\ UNCHANGED <<ClientVars, registry, runtimes, stopReq, pauseReq,
                     rejected>>

ControlStore(c) ==
  /\ client[c].pc = "ctl_store"
  /\ Save(client[c].task, Apply(client[c].snap, client[c].op))
  /\ Return(c)
  /\ UNCHANGED <<ClientVars, runtimes, stopReq, pauseReq, rejected>>

\* Mutant of RestartTask: waits for the run without asking it to stop.
RestartTaskNoStop(c, t) ==
  /\ client[c].pc = "idle" /\ "restart" \in Ops[c]
  /\ registry[t].run_count < MaxStarts
  /\ runtimes[t] # NoRun
  /\ ClientGoto(c, IF Done(runtimes[t]) THEN "reload" ELSE "await",
                [client[c] EXCEPT !.op = "restart", !.task = t,
                                  !.run = runtimes[t]])
  /\ UNCHANGED <<ClientVars, registry, runtimes, stopReq, pauseReq, rejected>>

\* TaskManager.restart: a run that is not done is asked to stop and awaited.
RestartTask(c, t) ==
  LET current == runtimes[t]
      l == [client[c] EXCEPT !.op = "restart", !.task = t, !.run = current]
  IN  /\ client[c].pc = "idle" /\ "restart" \in Ops[c]
      /\ registry[t].run_count < MaxStarts
      /\ current # NoRun
      /\ \/ /\ Done(current)
            /\ ClientGoto(c, "reload", l)
            /\ UNCHANGED stopReq
         \/ /\ ~Done(current)
            /\ stopReq' = stopReq \cup {current}
            /\ ClientGoto(c, "await", l)
      /\ UNCHANGED <<ClientVars, registry, runtimes, pauseReq, rejected>>

\* Mutant of AwaitRun: the run is asked to stop and not awaited.
AwaitRunNot(c) ==
  /\ client[c].pc = "await"
  /\ ClientGoto(c, "reload", client[c])
  /\ UNCHANGED <<ClientVars, registry, runtimes, stopReq, pauseReq, rejected>>

\* future.result re-raises what the run raised.
AwaitRun(c) ==
  /\ client[c].pc = "await" /\ Done(client[c].run)
  /\ IF client[c].run \in raised THEN Return(c)
     ELSE ClientGoto(c, "reload", client[c])
  /\ UNCHANGED <<ClientVars, registry, runtimes, stopReq, pauseReq, rejected>>

\* future.result(timeout) raises TimeoutError; the stop request stays.
AwaitTimeout(c) ==
  /\ client[c].pc = "await" /\ "timeout" \in Ops[c] /\ ~Done(client[c].run)
  /\ Return(c)
  /\ UNCHANGED <<ClientVars, registry, runtimes, stopReq, pauseReq, rejected>>

\* Mutant of RestartLoad: restart() without its transition check.
RestartLoadUnchecked(c) ==
  /\ client[c].pc = "reload" /\ RunLeft
  /\ ClientGoto(c, "restart_store",
                [client[c] EXCEPT !.snap = registry[client[c].task]])
  /\ UNCHANGED <<ClientVars, registry, runtimes, stopReq, pauseReq, rejected>>

\* restart() raises TaskStateError when the status does not allow it.
RestartLoad(c) ==
  LET task == registry[client[c].task]
  IN  /\ client[c].pc = "reload"
      /\ IF Can(task, "restart")
         THEN /\ RunLeft
              /\ ClientGoto(c, "restart_store", [client[c] EXCEPT !.snap = task])
         ELSE Return(c)
      /\ UNCHANGED <<ClientVars, registry, runtimes, stopReq, pauseReq,
                     rejected>>

RestartStore(c) ==
  /\ client[c].pc = "restart_store"
  /\ Save(client[c].task, Restart(client[c].snap))
  /\ rejected' = rejected \ {client[c].task}
  /\ ClientGoto(c, "check_task", client[c])
  /\ UNCHANGED <<ClientVars, runtimes, stopReq, pauseReq>>

\* A run submitted whose launch has not stored its runtime yet.
Unregistered(r) == \E c \in Client : client[c].pc = "register" /\ client[c].run = r

\* Mutant of Shutdown: the executor is closed and no run is asked to stop.
ShutdownNoStop(c) ==
  /\ client[c].pc = "idle" /\ "shutdown" \in Ops[c] /\ open
  /\ ClientGoto(c, "close", [client[c] EXCEPT !.op = "shutdown"])
  /\ UNCHANGED <<ClientVars, registry, runtimes, stopReq, pauseReq, rejected>>

\* TaskManager.shutdown(wait=True): flag the runs of the registered runtimes,
\* close the executor, then wait for its threads; queued items still run.  A
\* run submitted and not registered yet is not seen.
Shutdown(c) ==
  LET seen == {r \in Run : Live(r) /\ \E t \in Task : runtimes[t] = r}
  IN  /\ client[c].pc = "idle" /\ "shutdown" \in Ops[c] /\ open
      /\ stopReq' = stopReq \cup seen
      /\ late' = late \cup {r \in Run : Unregistered(r)}
      /\ ClientGoto(c, "close", [client[c] EXCEPT !.op = "shutdown"])
      /\ UNCHANGED <<run, queue, open, raised, notified, registry, runtimes,
                     pauseReq, rejected>>

CloseExecutor(c) ==
  /\ client[c].pc = "close"
  /\ open' = FALSE
  /\ ClientGoto(c, "join", client[c])
  /\ UNCHANGED <<registry, runtimes, run, queue, stopReq, pauseReq, raised,
                 notified, rejected, late>>

JoinExecutor(c) ==
  /\ client[c].pc = "join"
  /\ \A r \in Run : ~Live(r)
  /\ Return(c)
  /\ UNCHANGED <<ClientVars, registry, runtimes, stopReq, pauseReq, rejected>>

\* What a call does once it has begun.
ClientStep(c) ==
  \/ CheckTask(c) \/ CheckStrategy(c) \/ Submit(c) \/ Register(c)
  \/ ControlLoad(c) \/ ControlStore(c)
  \/ AwaitRun(c) \/ RestartLoad(c) \/ RestartStore(c)
  \/ CloseExecutor(c) \/ JoinExecutor(c)

ClientCall(c) ==
  \/ \E t \in Task :
       \/ StartTask(c, t) \/ RestartTask(c, t)
       \/ \E op \in {"pause", "stop"} : Control(c, t, op)
  \/ AwaitTimeout(c)
  \/ Shutdown(c)

Next == \/ \E r \in Run : RunnerStep(r)
        \/ \E c \in Client : ClientStep(c) \/ ClientCall(c)

\* A thread of the pool and a call in progress keep going; nobody has to call
\* the manager.  For a live run the same fairness makes its source deliver.
Fairness == /\ \A r \in Run : WF_vars(RunnerStep(r))
            /\ \A c \in Client : WF_vars(ClientStep(c))

Spec == Init /\ [][Next]_vars /\ Fairness

-----------------------------------------------------------------------------
\* Properties.

\* Every snapshot in the registry has the fields its status promises, even
\* when a stale snapshot was written over a newer one.
SnapshotsConsistent == \A t \in Task : Consistent(registry[t])

\* A task has one runner at a time: restart() waits for the previous future,
\* and what launch() checks afterwards never lets a second one in.
OneRunnerPerTask ==
  \A r1, r2 \in Run :
    Live(r1) /\ Live(r2) /\ run[r1].task = run[r2].task => r1 = r2

\* A task the registry shows as running is being run, or is being launched.
\* The two exceptions the code has: its launch was refused after the save, or
\* its run died while it announced TASK_STARTED.
RunningHasRunner ==
  \A t \in Task : registry[t].status = "running" =>
    \/ \E r \in Run : Live(r) /\ run[r].task = t
    \/ \E c \in Client :
         /\ client[c].pc \in {"check_task", "check_strategy", "submit"}
         /\ client[c].task = t
    \/ t \in rejected
    \/ \E r \in raised : run[r].task = t /\ run[r].snap = registry[t]

\* A strategy object is driven by one runner at a time.
Driving(r) == run[r].pc \in {"call", "load", "store", "next"}
SoloStrategy ==
  \A r1, r2 \in Run :
    /\ Driving(r1) /\ Driving(r2)
    /\ StrategyOf[run[r1].task] = StrategyOf[run[r2].task]
    => r1 = r2

\* A run that ended without a fault and returned a terminal task has told the
\* observers.
FinishObserved ==
  \A r \in Run \ raised :
    Done(r) /\ run[r].goal # "fail" /\ run[r].snap.status \in Terminal
      => r \in notified

\* TaskContextStore.save stores "strategy context state changes"
\* (runner_support.py:98): within one run of the task, a write that changes the
\* strategy state changes nothing else.
SavesOnlyState ==
  [][\A t \in Task :
       /\ registry'[t].run_count = registry[t].run_count
       /\ registry'[t].strategy_state > registry[t].strategy_state
       => registry'[t] = WithStrategyState(registry[t],
                                           registry'[t].strategy_state)]_registry

\* Every write of the registry is one step of the abstract lifecycle.
Lifecycle == INSTANCE TaskLifecycle
LifecycleRefined == Lifecycle!Spec

\* A run that has its thread and was asked to stop ends, whatever its source
\* still has to deliver.
StopEndsRun ==
  \A r \in Run : (r \in stopReq /\ r \in Executing) ~> Done(r)

\* Once shutdown() has closed the executor, every run ends that it saw, queued
\* ones too: unless all threads are taken by runs it did not see, launched by
\* another thread while it flagged and closed, which nobody asks to stop.
ShutdownDrains ==
  ~open ~> \/ \A r \in Run \ late : ~Live(r)
           \/ Cardinality(late \cap Executing) = MaxWorkers

\* restart() does not wait for ever, as the run it awaits ends: unless that run
\* is queued and all threads are taken by runs that nobody asked to stop.
RestartReturns ==
  \A c \in Client : client[c].pc = "await"
    ~> \/ client[c].pc # "await"
       \/ /\ \E r \in Run : client[c].run = r /\ run[r].pc = "queued"
          /\ Cardinality(Executing \ stopReq) = MaxWorkers
=============================================================================
