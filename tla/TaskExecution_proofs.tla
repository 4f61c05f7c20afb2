------------------------- MODULE TaskExecution_proofs -------------------------
(***************************************************************************)
(* Facts about task snapshots (ExecutableTask), type correctness of        *)
(* TaskExecution, and its safety invariants when one application thread at *)
(* most calls restart(), for every set of tasks, runs and clients.         *)
(***************************************************************************)
EXTENDS TaskExecutionInvariant, TLAPS

-----------------------------------------------------------------------------
\* Task snapshots.

\* A new task is a snapshot whose fields agree with its status.
LEMMA NewTaskConsistent == NewTask \in Snapshot /\ Consistent(NewTask)
BY DEF NewTask, Snapshot, Consistent, TaskStatus

\* start() and restart() return a running snapshot: the run count they set is
\* a number.
LEMMA StartType ==
  ASSUME NEW task \in Snapshot
  PROVE  Start(task) \in Snapshot /\ Start(task).status = "running"
<1>1. PICK count \in Nat :
        count = IF task.status = "paused" THEN task.run_count
                ELSE task.run_count + 1
  BY DEF Snapshot
<1>2. Start(task) =
        [task EXCEPT !.status = "running", !.started_at = TRUE,
                     !.paused_at = FALSE, !.stopped_at = FALSE,
                     !.completed_at = FALSE, !.failure = FALSE,
                     !.run_count = count]
  BY <1>1 DEF Start, Target
<1>3. Start(task) \in Snapshot
  BY <1>2 DEF Snapshot, TaskStatus
<1>4. Start(task).status = "running"
  BY DEF Snapshot, Start, Target
<1>5. QED
  BY <1>3, <1>4

\* restart() too, and its snapshot is running.
LEMMA RestartType ==
  ASSUME NEW task \in Snapshot
  PROVE  Restart(task) \in Snapshot /\ Restart(task).status = "running"
<1>1. PICK count, state \in Nat : count = task.run_count + 1 /\ state = 0
  BY DEF Snapshot
<1>2. Restart(task) =
        [task EXCEPT !.status = "running", !.started_at = TRUE,
                     !.paused_at = FALSE, !.stopped_at = FALSE,
                     !.completed_at = FALSE, !.failure = FALSE,
                     !.run_count = count, !.strategy_state = state]
  BY <1>1 DEF Restart, Target
<1>3. Restart(task) \in Snapshot
  BY <1>2 DEF Snapshot, TaskStatus
<1>4. Restart(task).status = "running"
  BY DEF Snapshot, Restart, Target
<1>5. QED
  BY <1>3, <1>4

\* Every action turns a snapshot into a snapshot with the status of the table.
LEMMA ApplyType ==
  ASSUME NEW task \in Snapshot, NEW action \in TaskAction
  PROVE  /\ Apply(task, action) \in Snapshot
         /\ Apply(task, action).status = Target[action]
<1>1. CASE action = "start"
  BY <1>1, StartType DEF Apply, Target
<1>2. CASE action = "pause"
  BY <1>2 DEF Snapshot, Apply, Pause, Target, TaskStatus
<1>3. CASE action = "stop"
  BY <1>3 DEF Snapshot, Apply, Stop, Target, TaskStatus
<1>4. CASE action = "restart"
  BY <1>4, RestartType DEF Apply, Target
<1>5. CASE action = "complete"
  BY <1>5 DEF Snapshot, Apply, Complete, Target, TaskStatus
<1>6. CASE action = "fail"
  BY <1>6 DEF Snapshot, Apply, Fail, Target, TaskStatus
<1>7. QED
  BY <1>1, <1>2, <1>3, <1>4, <1>5, <1>6 DEF TaskAction

\* An allowed action keeps the promises of the status: the timestamps, the
\* failure and the run count of the snapshot it returns agree with its status.
THEOREM ApplyConsistent ==
  ASSUME NEW task \in Snapshot, NEW action \in TaskAction,
         Consistent(task), Can(task, action)
  PROVE  Consistent(Apply(task, action))
<1>1. CASE action = "start"
  <2>1. Apply(task, action) = Start(task)
    BY <1>1 DEF Apply
  <2>2. Consistent(Start(task))
    BY <1>1 DEF Snapshot, Start, Can, Source, Target, Consistent
  <2>3. QED
    BY <2>1, <2>2
<1>2. CASE action = "pause"
  BY <1>2 DEF Snapshot, Apply, Pause, Can, Source, Target, Consistent
<1>3. CASE action = "stop"
  <2>1. Apply(task, action) = Stop(task)
    BY <1>3 DEF Apply
  <2>2. Consistent(Stop(task))
    BY <1>3 DEF Snapshot, Stop, Can, Source, Target, Consistent
  <2>3. QED
    BY <2>1, <2>2
<1>4. CASE action = "restart"
  <2>1. Apply(task, action) = Restart(task)
    BY <1>4 DEF Apply
  <2>2. Consistent(Restart(task))
    BY <1>4 DEF Snapshot, Restart, Can, Source, Target, Consistent
  <2>3. QED
    BY <2>1, <2>2
<1>5. CASE action = "complete"
  <2>1. Apply(task, action) = Complete(task)
    BY <1>5 DEF Apply
  <2>2. Consistent(Complete(task))
    BY <1>5 DEF Snapshot, Complete, Can, Source, Target, Consistent
  <2>3. QED
    BY <2>1, <2>2
<1>6. CASE action = "fail"
  <2>1. Apply(task, action) = Fail(task)
    BY <1>6 DEF Apply
  <2>2. Consistent(Fail(task))
    BY <1>6 DEF Snapshot, Fail, Can, Source, Target, Consistent
  <2>3. QED
    BY <2>1, <2>2
<1>7. QED
  BY <1>1, <1>2, <1>3, <1>4, <1>5, <1>6 DEF TaskAction

\* with_strategy_state changes nothing the status speaks of.
LEMMA StateConsistent ==
  ASSUME NEW task \in Snapshot, NEW state \in Nat
  PROVE  /\ WithStrategyState(task, state) \in Snapshot
         /\ Consistent(task) => Consistent(WithStrategyState(task, state))
         /\ WithStrategyState(task, state).status = task.status
BY DEF Snapshot, WithStrategyState, Consistent

-----------------------------------------------------------------------------
\* Types.

\* The initial values have their types.
LEMMA TypeInit == Init => TypeOK
<1> SUFFICES ASSUME Init PROVE TypeOK
  OBVIOUS
<1>1. AnyTask \in Task
  BY ConstantsAssumption DEF AnyTask
<1>2. registry \in [Task -> Snapshot] /\ runtimes \in [Task -> Run \cup {NoRun}]
  BY NewTaskConsistent DEF Init
<1>3. run \in [Run -> RunState]
  BY <1>1, NewTaskConsistent DEF Init, RunState, RunPC, TaskAction
<1>4. client \in [Client -> ClientState]
  BY <1>1, NewTaskConsistent DEF Init, IdleClient, ClientState, ClientPC, Op
<1>5. queue \in Seq(Run) /\ open \in BOOLEAN
  BY DEF Init
<1>6. QED
  BY <1>2, <1>3, <1>4, <1>5 DEF Init, TypeOK

\* A thread that moves to pc with locals of the type has locals of the type.
LEMMA GotoType ==
  ASSUME TypeOK, NEW r \in Run, NEW pc \in RunPC, NEW l \in RunState,
         Goto(r, pc, l)
  PROVE  run' \in [Run -> RunState]
BY DEF TypeOK, Goto, RunState

\* A call that moves on keeps its locals of the type.
LEMMA ClientGotoType ==
  ASSUME TypeOK, NEW c \in Client, NEW pc \in ClientPC, NEW l \in ClientState,
         ClientGoto(c, pc, l)
  PROVE  client' \in [Client -> ClientState]
BY DEF TypeOK, ClientGoto, ClientState

\* A thread between two calls is in the type.
LEMMA IdleClientType == IdleClient \in ClientState
BY ConstantsAssumption, NewTaskConsistent
   DEF IdleClient, ClientState, AnyTask, ClientPC, Op

\* A call that returns leaves a thread of the type.
LEMMA ReturnType ==
  ASSUME TypeOK, NEW c \in Client, Return(c)
  PROVE  client' \in [Client -> ClientState]
BY IdleClientType DEF TypeOK, Return

\* registry.save of a snapshot keeps a registry of snapshots.
LEMMA SaveType ==
  ASSUME TypeOK, NEW t \in Task, NEW snapshot \in Snapshot, Save(t, snapshot)
  PROVE  registry' \in [Task -> Snapshot]
BY DEF TypeOK, Save

\* Locals of a thread with another snapshot, action, context or countdown.
LEMMA RunLocals ==
  ASSUME NEW l \in RunState
  PROVE  /\ \A snap \in Snapshot : [l EXCEPT !.snap = snap] \in RunState
         /\ \A ctx \in Nat : [l EXCEPT !.ctx = ctx] \in RunState
         /\ \A action \in TaskAction :
              [l EXCEPT !.goal = action, !.ctx = 0, !.ticks = 0] \in RunState
         /\ \A phase \in {"start", "tick", "stop"} :
              /\ [l EXCEPT !.phase = phase] \in RunState
              /\ \A ctx \in Nat :
                   [l EXCEPT !.ctx = ctx, !.phase = phase] \in RunState
              /\ \A ticks \in Nat :
                   [l EXCEPT !.phase = phase, !.ticks = ticks] \in RunState
BY DEF RunState

\* A thread that turns to a lifecycle action keeps its locals of the type.
LEMMA BeginType ==
  ASSUME TypeOK, NEW r \in Run, NEW action \in TaskAction, NEW l \in RunState,
         Begin(r, action, l)
  PROVE  run' \in [Run -> RunState]
<1>1. [l EXCEPT !.goal = action, !.ctx = 0, !.ticks = 0] \in RunState
  BY RunLocals
<1>2. QED
  BY <1>1, GotoType DEF Begin, RunPC

\* Every step of a runner keeps the types.
LEMMA TypeRunner ==
  ASSUME TypeOK, NEW r \in Run, RunnerStep(r)
  PROVE  TypeOK'
<1> USE DEF TypeOK
<1>r. run[r] \in RunState /\ run[r].task \in Task /\ run[r].snap \in Snapshot
  BY DEF RunState
<1>t. registry[run[r].task] \in Snapshot
  BY <1>r
<1>l. \A task \in Snapshot : [run[r] EXCEPT !.snap = task] \in RunState
  BY <1>r, RunLocals
<1>1. CASE Dequeue(r)
  <2>1. run' \in [Run -> RunState]
    BY <1>1, <1>r, GotoType DEF Dequeue, RunPC
  <2>2. QED
    BY <1>1, <2>1 DEF Dequeue, RunnerVars
<1>2. CASE EnsureLoad(r)
  <2>1. run' \in [Run -> RunState]
    BY <1>2, <1>l, <1>t, GotoType DEF EnsureLoad, RunPC
  <2>2. QED
    BY <1>2, <2>1 DEF EnsureLoad, RunnerVars
<1>3. CASE EnsureStore(r)
  <2>1. Start(run[r].snap) \in Snapshot
    BY <1>r, StartType
  <2>2. run' \in [Run -> RunState] /\ registry' \in [Task -> Snapshot]
    BY <1>3, <2>1, <1>l, <1>r, GotoType, SaveType DEF EnsureStore, RunPC
  <2>3. QED
    BY <1>3, <2>2 DEF EnsureStore, RunnerVars
<1>4. CASE Announce(r)
  <2>1. [run[r] EXCEPT !.ctx = run[r].snap.strategy_state,
                       !.phase = "start"] \in RunState
    BY <1>r, RunLocals DEF Snapshot
  <2>2. run' \in [Run -> RunState]
    BY <1>4, <2>1, <1>r, GotoType DEF Announce, RunPC
  <2>3. QED
    BY <1>4, <2>2 DEF Announce, RunnerVars
<1>5. CASE Callback(r)
  <2>1. \A state \in {run[r].ctx, run[r].ctx + 1} :
          [run[r] EXCEPT !.ctx = state] \in RunState
    <3>1. {run[r].ctx, run[r].ctx + 1} \subseteq Nat
      BY <1>r DEF RunState
    <3>2. QED
      BY <3>1, <1>r, RunLocals
  <2>2. run' \in [Run -> RunState]
    <3>1. CASE \E action \in {"stop", "fail"} : Begin(r, action, run[r])
      BY <3>1, <1>r, BeginType DEF TaskAction
    <3>2. CASE \E state \in {run[r].ctx, run[r].ctx + 1} :
                 Goto(r, "load", [run[r] EXCEPT !.ctx = state])
      BY <3>2, <2>1, GotoType DEF RunPC
    <3>3. QED
      BY <1>5, <3>1, <3>2 DEF Callback
  <2>3. QED
    BY <1>5, <2>2 DEF Callback, RunnerVars
<1>6. CASE ContextLoad(r)
  <2>1. run' \in [Run -> RunState]
    BY <1>6, <1>l, <1>t, GotoType, BeginType
       DEF ContextLoad, AfterStore, RunPC, TaskAction
  <2>2. QED
    BY <1>6, <2>1 DEF ContextLoad, RunnerVars
<1>7. CASE ContextStore(r)
  <2>1. WithStrategyState(run[r].snap, run[r].ctx) \in Snapshot
    BY <1>r, StateConsistent DEF RunState
  <2>2. run' \in [Run -> RunState]
    BY <1>7, <2>1, <1>l, GotoType, BeginType
       DEF ContextStore, AfterStore, RunPC, TaskAction
  <2>3. registry' \in [Task -> Snapshot]
    BY <1>7, <2>1, <1>r, SaveType DEF ContextStore
  <2>4. QED
    BY <1>7, <2>2, <2>3 DEF ContextStore, RunnerVars
<1>8. CASE NextTick(r)
  <2>1. [run[r] EXCEPT !.phase = "tick",
                       !.ticks = IF Kind[run[r].task] = "backtest"
                                 THEN @ - 1 ELSE @] \in RunState
    <3>1. (IF Kind[run[r].task] = "backtest" THEN run[r].ticks - 1
           ELSE run[r].ticks) \in Nat
      BY <1>8, <1>r DEF NextTick, RunState
    <3>2. QED
      BY <3>1, <1>r, RunLocals
  <2>2. run' \in [Run -> RunState]
    BY <1>8, <2>1, GotoType, BeginType DEF NextTick, RunPC, TaskAction
  <2>3. QED
    BY <1>8, <2>2 DEF NextTick, RunnerVars
<1>9. CASE StreamEnd(r)
  <2>1. [run[r] EXCEPT !.phase = "stop"] \in RunState
    BY <1>r, RunLocals
  <2>2. run' \in [Run -> RunState]
    BY <1>9, <2>1, GotoType DEF StreamEnd, RunPC
  <2>3. QED
    BY <1>9, <2>2 DEF StreamEnd, RunnerVars
<1>10. CASE LoopFault(r)
  <2>1. run' \in [Run -> RunState]
    BY <1>10, <1>r, BeginType DEF LoopFault, TaskAction
  <2>2. QED
    BY <1>10, <2>1 DEF LoopFault, RunnerVars
<1>11. CASE LifecycleLoad(r)
  <2>1. run' \in [Run -> RunState]
    BY <1>11, <1>l, <1>t, GotoType DEF LifecycleLoad, AfterTransition, RunPC
  <2>2. QED
    BY <1>11, <2>1 DEF LifecycleLoad, RunnerVars
<1>12. CASE LifecycleStore(r)
  <2>1. Apply(run[r].snap, run[r].goal) \in Snapshot
    BY <1>r, ApplyType DEF RunState
  <2>2. run' \in [Run -> RunState] /\ registry' \in [Task -> Snapshot]
    BY <1>12, <2>1, <1>l, <1>r, GotoType, SaveType DEF LifecycleStore, RunPC
  <2>3. QED
    BY <1>12, <2>2 DEF LifecycleStore, RunnerVars
<1>13. CASE LifecyclePublish(r)
  <2>1. run' \in [Run -> RunState]
    BY <1>13, <1>r, GotoType, BeginType
       DEF LifecyclePublish, AfterTransition, RunPC, TaskAction
  <2>2. QED
    BY <1>13, <2>1 DEF LifecyclePublish, RunnerVars
<1>14. CASE Finish(r)
  <2>1. run' \in [Run -> RunState]
    BY <1>14, <1>r, GotoType, BeginType DEF Finish, RunPC, TaskAction
  <2>2. notified' \subseteq Run
    BY <1>14 DEF Finish
  <2>3. QED
    BY <1>14, <2>1, <2>2 DEF Finish, RunnerVars
<1>15. QED
  BY <1>1, <1>2, <1>3, <1>4, <1>5, <1>6, <1>7, <1>8, <1>9, <1>10, <1>11,
     <1>12, <1>13, <1>14 DEF RunnerStep

\* Locals of a call with another operation, task, run or snapshot.
LEMMA ClientLocals ==
  ASSUME NEW l \in ClientState
  PROVE  /\ \A snap \in Snapshot : [l EXCEPT !.snap = snap] \in ClientState
         /\ \A r \in Run : [l EXCEPT !.run = r] \in ClientState
         /\ \A op \in Op :
              /\ [l EXCEPT !.op = op] \in ClientState
              /\ \A t \in Task, r \in Run \cup {NoRun} :
                   [l EXCEPT !.op = op, !.task = t, !.run = r] \in ClientState
BY DEF ClientState

\* Every step of a call keeps the types.
LEMMA TypeClient ==
  ASSUME TypeOK, ControlOp, NEW c \in Client, ClientStep(c) \/ ClientCall(c)
  PROVE  TypeOK'
<1> USE DEF TypeOK
<1>c. /\ client[c] \in ClientState /\ client[c].task \in Task
      /\ client[c].snap \in Snapshot /\ client[c].run \in Run \cup {NoRun}
  BY DEF ClientState
<1>l. \A task \in Snapshot : [client[c] EXCEPT !.snap = task] \in ClientState
  BY <1>c, ClientLocals
<1>o. \A op \in Op, t \in Task, r \in Run \cup {NoRun} :
        [client[c] EXCEPT !.op = op, !.task = t, !.run = r] \in ClientState
  BY <1>c, ClientLocals
<1>1. CASE \E t \in Task : StartTask(c, t)
  <2>1. PICK t \in Task : StartTask(c, t)
    BY <1>1
  <2>2. client' \in [Client -> ClientState]
    BY <2>1, <1>o, ClientGotoType DEF StartTask, ClientPC, Op
  <2>3. registry' \in [Task -> Snapshot]
    BY <2>1, StartType, SaveType DEF StartTask
  <2>4. QED
    BY <2>1, <2>2, <2>3 DEF StartTask, ClientVars
<1>2. CASE CheckTask(c)
  <2>1. client' \in [Client -> ClientState] /\ rejected' \subseteq Task
    BY <1>2, <1>c, ClientGotoType, ReturnType DEF CheckTask, Reject, ClientPC
  <2>2. QED
    BY <1>2, <2>1 DEF CheckTask, ClientVars
<1>3. CASE CheckStrategy(c)
  <2>1. client' \in [Client -> ClientState] /\ rejected' \subseteq Task
    BY <1>3, <1>c, ClientGotoType, ReturnType
       DEF CheckStrategy, Reject, ClientPC
  <2>2. QED
    BY <1>3, <2>1 DEF CheckStrategy, ClientVars
<1>4. CASE Submit(c) /\ open
  <2>1. PICK r \in Run :
          /\ run' = [run EXCEPT ![r] = [@ EXCEPT !.task = client[c].task,
                                                !.pc = "queued",
                                                !.ticks = MaxTicks]]
          /\ queue' = Append(queue, r)
          /\ ClientGoto(c, "register", [client[c] EXCEPT !.run = r])
          /\ late' \subseteq late \cup {r}
    BY <1>4 DEF Submit, Unused
  <2>2. run' \in [Run -> RunState]
    <3>1. run[r] \in RunState /\ MaxTicks \in Nat /\ "queued" \in RunPC
      BY ConstantsAssumption DEF RunPC
    <3>2. [run[r] EXCEPT !.task = client[c].task, !.pc = "queued",
                         !.ticks = MaxTicks] \in RunState
      BY <3>1, <1>c DEF RunState
    <3>3. QED
      BY <2>1, <3>2
  <2>3. client' \in [Client -> ClientState]
    BY <2>1, <1>c, ClientLocals, ClientGotoType DEF ClientPC
  <2>4. queue' \in Seq(Run)
    BY <2>1
  <2>5. QED
    BY <1>4, <2>1, <2>2, <2>3, <2>4 DEF Submit
<1>5. CASE Submit(c) /\ ~open
  <2>1. client' \in [Client -> ClientState] /\ rejected' \subseteq Task
    BY <1>5, <1>c, ReturnType DEF Submit, Reject
  <2>2. QED
    BY <1>5, <2>1 DEF Submit
<1>6. CASE Register(c)
  <2>1. client' \in [Client -> ClientState]
    BY <1>6, ReturnType DEF Register
  <2>2. QED
    BY <1>6, <2>1, <1>c DEF Register, ClientVars
<1>7. CASE \E t \in Task, op \in {"pause", "stop"} : Control(c, t, op)
  <2>1. PICK t \in Task, op \in {"pause", "stop"} : Control(c, t, op)
    BY <1>7
  <2>2. client' \in [Client -> ClientState]
    BY <2>1, <1>o, ClientGotoType DEF Control, ClientPC, Op
  <2>3. stopReq' \subseteq Run /\ pauseReq' \subseteq Run
    BY <2>1 DEF Control
  <2>4. QED
    BY <2>1, <2>2, <2>3 DEF Control, ClientVars
<1>8. CASE ControlLoad(c)
  <2>1. registry[client[c].task] \in Snapshot
    BY <1>c
  <2>2. client' \in [Client -> ClientState]
    BY <1>8, <2>1, <1>l, ClientGotoType, ReturnType DEF ControlLoad, ClientPC
  <2>3. QED
    BY <1>8, <2>2 DEF ControlLoad, ClientVars
<1>9. CASE ControlStore(c)
  <2>1. client[c].op \in TaskAction
    BY <1>9 DEF ControlStore, ControlOp, TaskAction
  <2>2. Apply(client[c].snap, client[c].op) \in Snapshot
    BY <2>1, <1>c, ApplyType
  <2>3. registry' \in [Task -> Snapshot]
    BY <1>9, <2>2, <1>c, SaveType DEF ControlStore
  <2>4. client' \in [Client -> ClientState]
    BY <1>9, ReturnType DEF ControlStore
  <2>5. QED
    BY <1>9, <2>3, <2>4 DEF ControlStore, ClientVars
<1>10. CASE \E t \in Task : RestartTask(c, t)
  <2>1. PICK t \in Task : RestartTask(c, t)
    BY <1>10
  <2>2. client' \in [Client -> ClientState] /\ stopReq' \subseteq Run
    BY <2>1, <1>o, ClientGotoType DEF RestartTask, ClientPC, Op
  <2>3. QED
    BY <2>1, <2>2 DEF RestartTask, ClientVars
<1>11. CASE AwaitRun(c) \/ AwaitTimeout(c)
  <2>1. client' \in [Client -> ClientState]
    BY <1>11, <1>c, ClientGotoType, ReturnType
       DEF AwaitRun, AwaitTimeout, ClientPC
  <2>2. QED
    BY <1>11, <2>1 DEF AwaitRun, AwaitTimeout, ClientVars
<1>12. CASE RestartLoad(c)
  <2>1. registry[client[c].task] \in Snapshot
    BY <1>c
  <2>2. client' \in [Client -> ClientState]
    BY <1>12, <2>1, <1>l, ClientGotoType, ReturnType DEF RestartLoad, ClientPC
  <2>3. QED
    BY <1>12, <2>2 DEF RestartLoad, ClientVars
<1>13. CASE RestartStore(c)
  <2>1. registry' \in [Task -> Snapshot]
    BY <1>13, <1>c, RestartType, SaveType DEF RestartStore
  <2>2. client' \in [Client -> ClientState]
    BY <1>13, <1>c, ClientGotoType DEF RestartStore, ClientPC
  <2>3. QED
    BY <1>13, <2>1, <2>2 DEF RestartStore, ClientVars
<1>14. CASE Shutdown(c) \/ CloseExecutor(c)
  <2>1. client' \in [Client -> ClientState]
    BY <1>14, <1>c, ClientLocals, ClientGotoType
       DEF Shutdown, CloseExecutor, ClientPC, Op
  <2>2. QED
    BY <1>14, <2>1 DEF Shutdown, CloseExecutor, ClientVars
<1>15. CASE JoinExecutor(c)
  <2>1. client' \in [Client -> ClientState]
    BY <1>15, ReturnType DEF JoinExecutor
  <2>2. QED
    BY <1>15, <2>1 DEF JoinExecutor, ClientVars
<1>16. QED
  BY <1>1, <1>2, <1>3, <1>4, <1>5, <1>6, <1>7, <1>8, <1>9, <1>10, <1>11,
     <1>12, <1>13, <1>14, <1>15 DEF ClientStep, ClientCall

\* What a call is like after it moved on, and after it returned.
LEMMA AfterClientGoto ==
  ASSUME TypeOK, NEW c \in Client, NEW pc \in ClientPC, NEW l \in ClientState,
         ClientGoto(c, pc, l)
  PROVE  /\ client'[c].pc = pc /\ client'[c].op = l.op
         /\ client'[c].task = l.task /\ client'[c].run = l.run
         /\ client'[c].snap = l.snap
         /\ \A d \in Client \ {c} : client'[d] = client[d]
BY DEF TypeOK, ClientGoto, ClientState

\* The fields of a call that returned, and those of the others.
LEMMA AfterReturn ==
  ASSUME TypeOK, NEW c \in Client, Return(c)
  PROVE  /\ client'[c] = IdleClient /\ client'[c].pc = "idle"
         /\ \A d \in Client \ {c} : client'[d] = client[d]
BY DEF TypeOK, Return, IdleClient

-----------------------------------------------------------------------------
\* What each step of a call does to the call, said of its fields.

OthersStay(c) == \A d \in Client \ {c} : client'[d] = client[d]

\* start_backtest, start_trading: the task is saved, the checks are next.
LEMMA StartTaskEffect ==
  ASSUME TypeOK, NEW c \in Client, NEW t \in Task, StartTask(c, t)
  PROVE  /\ client'[c].pc = "check_task" /\ client'[c].op = "start"
         /\ client'[c].task = t /\ client'[c].snap = client[c].snap
         /\ OthersStay(c)
<1>1. [client[c] EXCEPT !.op = "start", !.task = t, !.run = NoRun]
        \in ClientState
  BY ClientLocals DEF TypeOK, Op
<1>2. QED
  BY <1>1, AfterClientGoto
     DEF StartTask, OthersStay, TypeOK, ClientState, ClientPC

\* launch(): one check or step further, or rejected and back.
LEMMA LaunchEffect ==
  ASSUME TypeOK, NEW c \in Client,
         CheckTask(c) \/ CheckStrategy(c) \/ Register(c) \/ Submit(c)
  PROVE  /\ \/ /\ \/ CheckTask(c) /\ client'[c].pc = "check_strategy"
                  \/ CheckStrategy(c) /\ client'[c].pc = "submit"
                  \/ Submit(c) /\ client'[c].pc = "register"
               /\ client'[c].op = client[c].op
               /\ client'[c].task = client[c].task
               /\ client'[c].snap = client[c].snap
               /\ rejected' = rejected
            \/ /\ client'[c] = IdleClient /\ client'[c].pc = "idle"
               /\ \/ Register(c)
                  \/ ~Register(c) /\ rejected' = rejected \cup {client[c].task}
         /\ OthersStay(c)
<1>1. client[c] \in ClientState
  BY DEF TypeOK
<1>r. Reject(c) => /\ client'[c] = IdleClient /\ client'[c].pc = "idle"
                   /\ rejected' = rejected \cup {client[c].task}
                   /\ OthersStay(c)
  BY AfterReturn DEF Reject, OthersStay
<1>g. \A pc \in ClientPC : ClientGoto(c, pc, client[c]) =>
        /\ client'[c].pc = pc
        /\ client'[c].op = client[c].op
        /\ client'[c].task = client[c].task
        /\ client'[c].snap = client[c].snap
        /\ OthersStay(c)
  BY <1>1, AfterClientGoto DEF OthersStay
<1>2. CASE CheckTask(c)
  <2>1. \/ Reject(c)
        \/ ClientGoto(c, "check_strategy", client[c]) /\ rejected' = rejected
    BY <1>2 DEF CheckTask
  <2>2. CASE Reject(c)
    BY <2>2, <1>r
  <2>3. CASE ClientGoto(c, "check_strategy", client[c]) /\ rejected' = rejected
    <3>1. "check_strategy" \in ClientPC
      BY DEF ClientPC
    <3>2. QED
      BY <1>2, <2>3, <3>1, <1>g
  <2>4. QED
    BY <2>1, <2>2, <2>3
<1>3. CASE CheckStrategy(c)
  <2>1. \/ Reject(c)
        \/ ClientGoto(c, "submit", client[c]) /\ rejected' = rejected
    BY <1>3 DEF CheckStrategy
  <2>2. CASE Reject(c)
    BY <2>2, <1>r
  <2>3. CASE ClientGoto(c, "submit", client[c]) /\ rejected' = rejected
    <3>1. "submit" \in ClientPC
      BY DEF ClientPC
    <3>2. QED
      BY <1>3, <2>3, <3>1, <1>g
  <2>4. QED
    BY <2>1, <2>2, <2>3
<1>4. CASE Register(c)
  BY <1>4, AfterReturn DEF Register, OthersStay
<1>5. CASE Submit(c) /\ open
  <2>1. PICK r \in Run : ClientGoto(c, "register", [client[c] EXCEPT !.run = r])
    BY <1>5 DEF Submit, Unused
  <2>2. [client[c] EXCEPT !.run = r] \in ClientState
    BY <1>1, ClientLocals
  <2>3. QED
    BY <1>1, <1>5, <2>1, <2>2, AfterClientGoto
       DEF Submit, OthersStay, ClientState, ClientPC
<1>6. CASE Submit(c) /\ ~open
  BY <1>6, AfterReturn DEF Submit, Reject, OthersStay
<1>7. QED
  BY <1>2, <1>3, <1>4, <1>5, <1>6

\* pause() and stop() raised their flag and will read the task.
LEMMA ControlEffect ==
  ASSUME TypeOK, NEW c \in Client, NEW t \in Task, NEW op \in {"pause", "stop"},
         Control(c, t, op)
  PROVE  /\ client'[c].pc = "ctl_load" /\ client'[c].op = op
         /\ client'[c].snap = client[c].snap
         /\ OthersStay(c)
<1>1. [client[c] EXCEPT !.op = op, !.task = t, !.run = runtimes[t]]
        \in ClientState
  BY ClientLocals DEF TypeOK, Op
<1>2. QED
  BY <1>1, AfterClientGoto
     DEF Control, OthersStay, TypeOK, ClientState, ClientPC

\* pause() and stop() write only what can() allowed on the snapshot they read.
LEMMA ControlLoadEffect ==
  ASSUME TypeOK, NEW c \in Client, ControlLoad(c)
  PROVE  /\ \/ /\ client'[c].pc = "ctl_store" /\ client'[c].op = client[c].op
               /\ client'[c].snap = registry[client[c].task]
               /\ Can(client'[c].snap, client'[c].op)
            \/ client'[c] = IdleClient /\ client'[c].pc = "idle"
         /\ OthersStay(c)
<1>1. client[c] \in ClientState /\ registry[client[c].task] \in Snapshot
  BY DEF TypeOK, ClientState
<1>2. [client[c] EXCEPT !.snap = registry[client[c].task]] \in ClientState
  BY <1>1, ClientLocals
<1>3. QED
  BY <1>1, <1>2, AfterClientGoto, AfterReturn
     DEF ControlLoad, OthersStay, ClientState, ClientPC

\* restart() goes on at once only when the run it looked up is done.
LEMMA RestartTaskEffect ==
  ASSUME TypeOK, NEW c \in Client, NEW t \in Task, RestartTask(c, t)
  PROVE  /\ \/ client'[c].pc = "reload" /\ Done(runtimes[t])
            \/ client'[c].pc = "await"
         /\ client'[c].op = "restart" /\ client'[c].task = t
         /\ client'[c].run = runtimes[t] /\ client'[c].snap = client[c].snap
         /\ OthersStay(c)
<1>1. [client[c] EXCEPT !.op = "restart", !.task = t, !.run = runtimes[t]]
        \in ClientState
  BY ClientLocals DEF TypeOK, Op
<1>2. PICK pc \in {"reload", "await"} :
        /\ ClientGoto(c, pc, [client[c] EXCEPT !.op = "restart", !.task = t,
                                               !.run = runtimes[t]])
        /\ pc = "reload" => Done(runtimes[t])
  BY DEF RestartTask
<1>3. client[c] \in ClientState /\ pc \in ClientPC
  BY DEF TypeOK, ClientPC
<1>4. OthersStay(c) /\ client'[c].pc = pc
  BY <1>1, <1>2, <1>3, AfterClientGoto DEF OthersStay
<1>5. /\ client'[c].op = "restart" /\ client'[c].task = t
      /\ client'[c].run = runtimes[t] /\ client'[c].snap = client[c].snap
  BY <1>1, <1>2, <1>3, AfterClientGoto DEF ClientState
<1>6. QED
  BY <1>2, <1>4, <1>5

\* restart() leaves its wait with the run done, or raises.
LEMMA AwaitEffect ==
  ASSUME TypeOK, NEW c \in Client, AwaitRun(c) \/ AwaitTimeout(c)
  PROVE  /\ \/ /\ client'[c].pc = "reload" /\ Done(client[c].run)
               /\ client'[c].op = client[c].op
               /\ client'[c].task = client[c].task
               /\ client'[c].snap = client[c].snap
            \/ client'[c] = IdleClient /\ client'[c].pc = "idle"
         /\ OthersStay(c)
<1>1. client[c] \in ClientState
  BY DEF TypeOK
<1>2. QED
  BY <1>1, AfterClientGoto, AfterReturn
     DEF AwaitRun, AwaitTimeout, OthersStay, ClientPC

\* restart() keeps the snapshot it read and was allowed on.
LEMMA RestartLoadEffect ==
  ASSUME TypeOK, NEW c \in Client, RestartLoad(c)
  PROVE  /\ \/ /\ client'[c].pc = "restart_store"
               /\ client'[c].op = client[c].op
               /\ client'[c].task = client[c].task
               /\ client'[c].snap = registry[client[c].task]
               /\ Can(client'[c].snap, "restart")
            \/ client'[c] = IdleClient /\ client'[c].pc = "idle"
         /\ OthersStay(c)
<1>1. client[c] \in ClientState /\ registry[client[c].task] \in Snapshot
  BY DEF TypeOK, ClientState
<1>2. [client[c] EXCEPT !.snap = registry[client[c].task]] \in ClientState
  BY <1>1, ClientLocals
<1>3. QED
  BY <1>1, <1>2, AfterClientGoto, AfterReturn
     DEF RestartLoad, OthersStay, ClientState, ClientPC

\* restart() saved the task, the checks are next.
LEMMA RestartStoreEffect ==
  ASSUME TypeOK, NEW c \in Client, RestartStore(c)
  PROVE  /\ client'[c].pc = "check_task" /\ client'[c].op = client[c].op
         /\ client'[c].task = client[c].task
         /\ client'[c].snap = client[c].snap
         /\ OthersStay(c)
BY AfterClientGoto DEF RestartStore, OthersStay, TypeOK, ClientPC

\* shutdown() works on no task.
LEMMA ShutdownEffect ==
  ASSUME TypeOK, NEW c \in Client,
         Shutdown(c) \/ CloseExecutor(c) \/ JoinExecutor(c)
  PROVE  /\ client'[c].pc \in {"close", "join", "idle"}
         /\ Shutdown(c) => client'[c].op = "shutdown"
         /\ CloseExecutor(c) => client'[c].op = client[c].op
         /\ JoinExecutor(c) => client'[c].pc = "idle"
         /\ client'[c].snap = client[c].snap \/ client'[c] = IdleClient
         /\ OthersStay(c)
<1>1. client[c] \in ClientState
      /\ [client[c] EXCEPT !.op = "shutdown"] \in ClientState
  BY ClientLocals DEF TypeOK, Op
<1>2. QED
  BY <1>1, AfterClientGoto, AfterReturn
     DEF Shutdown, CloseExecutor, JoinExecutor, OthersStay, ClientState,
         ClientPC, IdleClient

\* A call keeps the operation it was entered with.
LEMMA OpClient ==
  ASSUME TypeOK, ControlOp, NEW c \in Client, ClientStep(c) \/ ClientCall(c)
  PROVE  ControlOp'
<1> SUFFICES ASSUME client'[c].pc \in {"ctl_load", "ctl_store"} =>
                      client'[c].op \in {"pause", "stop"},
                    OthersStay(c)
             PROVE  ControlOp'
  <2>1. CASE \E t \in Task : StartTask(c, t)
    BY <2>1, StartTaskEffect
  <2>2. CASE \E t \in Task, op \in {"pause", "stop"} : Control(c, t, op)
    BY <2>2, ControlEffect
  <2>3. CASE ControlLoad(c)
    BY <2>3, ControlLoadEffect DEF ControlLoad, ControlOp
  <2>4. CASE \E t \in Task : RestartTask(c, t)
    BY <2>4, RestartTaskEffect
  <2>5. CASE ControlStore(c)
    BY <2>5, AfterReturn DEF ControlStore, OthersStay
  <2>6. CASE ~ControlStore(c) /\ (ClientStep(c) \/ AwaitTimeout(c) \/ Shutdown(c))
             /\ ~ControlLoad(c)
    BY <2>6, LaunchEffect, AwaitEffect, RestartLoadEffect, RestartStoreEffect,
       ShutdownEffect DEF ClientStep
  <2>7. QED
    BY <2>1, <2>2, <2>3, <2>4, <2>5, <2>6 DEF ClientStep, ClientCall
<1>1. QED
  BY DEF ControlOp, OthersStay

-----------------------------------------------------------------------------
\* What a step of a runner does to the runner.

\* The fields of a thread that moved to pc, and those of the others.
LEMMA GotoEffect ==
  ASSUME TypeOK, NEW r \in Run, NEW pc \in RunPC, NEW l \in RunState,
         Goto(r, pc, l)
  PROVE  /\ run'[r].pc = pc /\ run'[r].task = l.task
         /\ run'[r].goal = l.goal /\ run'[r].snap = l.snap
         /\ run'[r].ctx = l.ctx
         /\ \A q \in Run \ {r} : run'[q] = run[q]
BY DEF TypeOK, Goto, RunState

\* The fields of a thread that turned to a lifecycle action.
LEMMA BeginEffect ==
  ASSUME TypeOK, NEW r \in Run, NEW action \in TaskAction, NEW l \in RunState,
         Begin(r, action, l)
  PROVE  /\ run'[r].pc = "lc_load" /\ run'[r].task = l.task
         /\ run'[r].goal = action /\ run'[r].snap = l.snap
         /\ \A q \in Run \ {r} : run'[q] = run[q]
<1>1. [l EXCEPT !.goal = action, !.ctx = 0, !.ticks = 0] \in RunState
  BY RunLocals
<1>2. QED
  BY <1>1, GotoEffect DEF Begin, RunPC, RunState

-----------------------------------------------------------------------------
\* The types hold in every state of every behavior, and a call about to write a
\* pause or a stop is one.
THEOREM Typing == Spec => []TypeInv
<1>1. Init => TypeInv
  BY TypeInit DEF Init, TypeInv, ControlOp, IdleClient
<1>2. TypeInv /\ [Next]_vars => TypeInv'
  <2> SUFFICES ASSUME TypeInv, [Next]_vars PROVE TypeInv'
    OBVIOUS
  <2>1. CASE \E r \in Run : RunnerStep(r)
    <3>1. TypeOK'
      BY <2>1, TypeRunner DEF TypeInv
    <3>2. UNCHANGED client
      BY <2>1 DEF RunnerStep, RunnerVars, Dequeue, EnsureLoad, EnsureStore,
                  Announce, Callback, ContextLoad, ContextStore, NextTick,
                  StreamEnd, LoopFault, LifecycleLoad, LifecycleStore,
                  LifecyclePublish, Finish
    <3>3. QED
      BY <3>1, <3>2 DEF TypeInv, ControlOp
  <2>2. CASE \E c \in Client : ClientStep(c) \/ ClientCall(c)
    BY <2>2, TypeClient, OpClient DEF TypeInv
  <2>3. CASE UNCHANGED vars
    BY <2>3 DEF vars, TypeInv, TypeOK, ControlOp
  <2>4. QED
    BY <2>1, <2>2, <2>3 DEF Next
<1>3. QED
  BY <1>1, <1>2, PTL DEF Spec

\* Type correctness of the threads, the registry, the runtimes and the executor:
\* a runner or a call only holds snapshots, tasks and runs of the system.
THEOREM TypesHold == Spec => []TypeOK
<1>1. TypeInv => TypeOK
  BY DEF TypeInv
<1>2. QED
  BY <1>1, Typing, PTL

-----------------------------------------------------------------------------
\* The steps of a runner.

\* What every step of a runner leaves behind.
RunnerPost(r) ==
  /\ UNCHANGED <<client, runtimes, rejected>>
  /\ Live(r)
  /\ run'[r].pc # "unused" /\ run'[r].task = run[r].task
  /\ \A q \in Run \ {r} : run'[q] = run[q]
  /\ \A t \in Task \ {run[r].task} : registry'[t] = registry[t]
  /\ registry'[run[r].task].status # "created"
  /\ raised \subseteq raised' /\ raised' \subseteq raised \cup {r}
  /\ Consistent(run'[r].snap) /\ Consistent(registry'[run[r].task])
  /\ run'[r].pc = "done" =>
       \/ registry'[run[r].task].status # "running"
       \/ r \in raised' /\ run'[r].snap = registry'[run[r].task]
  /\ registry' # registry => run'[r].pc # "done"
  /\ RunOK(r)'

\* After a context save: the loop, or the final transition of driver.stop.
LEMMA AfterStoreEffect ==
  ASSUME TypeOK, NEW r \in Run, NEW l \in RunState, AfterStore(r, l)
  PROVE  /\ run'[r].pc \in {"next", "lc_load"} /\ run'[r].task = l.task
         /\ run'[r].pc = "lc_load" => run'[r].goal \in {"complete", "stop"}
         /\ run'[r].snap = l.snap
         /\ \A q \in Run \ {r} : run'[q] = run[q]
<1>1. CASE Goto(r, "next", l)
  BY <1>1, GotoEffect DEF RunPC
<1>2. CASE \E action \in {"complete", "stop"} : Begin(r, action, l)
  BY <1>2, BeginEffect DEF TaskAction
<1>3. QED
  BY <1>1, <1>2 DEF AfterStore

\* Every step of a runner has one of the effects RunnerPost lists.
LEMMA RunnerStepPost ==
  ASSUME TypeInv, RunInv, SnapshotsConsistent, LocalsConsistent,
         NEW r \in Run, RunnerStep(r)
  PROVE  RunnerPost(r)
<1> DEFINE t == run[r].task
<1>r. /\ TypeOK /\ run[r] \in RunState /\ t \in Task
      /\ run[r].snap \in Snapshot /\ registry[t] \in Snapshot
      /\ run[r].goal \in TaskAction /\ run[r].ctx \in Nat
  BY DEF TypeInv, TypeOK, RunState
<1>c. Consistent(run[r].snap) /\ Consistent(registry[t])
  BY <1>r DEF SnapshotsConsistent, LocalsConsistent
<1>o. RunOK(r)
  BY DEF RunInv
<1>l. \A task \in Snapshot : [run[r] EXCEPT !.snap = task] \in RunState
  BY <1>r, RunLocals
<1>s. \A task \in Snapshot : /\ [run[r] EXCEPT !.snap = task].task = t
                            /\ [run[r] EXCEPT !.snap = task].goal = run[r].goal
                            /\ [run[r] EXCEPT !.snap = task].snap = task
                            /\ [run[r] EXCEPT !.snap = task].phase = run[r].phase
  BY <1>r DEF RunState
<1>q. /\ run'[r].pc \in {"boot", "call", "load", "next", "lc_load"}
      /\ run'[r].pc = "lc_load" =>
           run'[r].goal \in {"pause", "stop", "complete", "fail"}
      /\ run'[r].snap \in {run[r].snap, registry[t]}
      /\ run'[r].task = t
      /\ \A q \in Run \ {r} : run'[q] = run[q]
      /\ run[r].pc \notin {"unused", "done"}
      /\ UNCHANGED <<RunnerVars, registry, raised>>
      => RunnerPost(r)
  BY <1>r, <1>c, <1>o DEF RunnerVars, RunnerPost, RunOK, Live
<1>1. CASE Dequeue(r)
  BY <1>1, <1>r, <1>q, GotoEffect DEF Dequeue, RunPC
<1>2. CASE EnsureLoad(r)
  <2>1. /\ run'[r].pc \in {"announce", "boot_store", "done"}
        /\ run'[r].pc = "announce" => registry[t].status = "running"
        /\ run'[r].pc = "boot_store" => Can(registry[t], "start")
        /\ run'[r].pc = "done" => registry[t].status # "running"
        /\ raised' = IF run'[r].pc = "done" THEN raised \cup {r} ELSE raised
        /\ run'[r].task = t /\ run'[r].snap = registry[t]
        /\ \A q \in Run \ {r} : run'[q] = run[q]
    <3> DEFINE l == [run[r] EXCEPT !.snap = registry[t]]
    <3>0. l \in RunState /\ l.task = t /\ l.snap = registry[t]
      BY <1>r, <1>l, <1>s
    <3>1. PICK pc \in {"announce", "boot_store", "done"} :
            /\ Goto(r, pc, l)
            /\ pc = "announce" => registry[t].status = "running"
            /\ pc = "boot_store" => Can(registry[t], "start")
            /\ pc = "done" => registry[t].status # "running"
            /\ raised' = IF pc = "done" THEN raised \cup {r} ELSE raised
      BY <1>2 DEF EnsureLoad
    <3> HIDE DEF l
    <3>2. /\ run'[r].pc = pc /\ run'[r].task = t /\ run'[r].snap = registry[t]
          /\ \A q \in Run \ {r} : run'[q] = run[q]
      BY <3>0, <3>1, <1>r, GotoEffect DEF RunPC
    <3>3. QED
      BY <3>1, <3>2
  <2>2. QED
    BY <1>2, <1>r, <1>c, <1>o, <2>1
       DEF EnsureLoad, RunnerVars, RunnerPost, RunOK, Live
<1>3. CASE EnsureStore(r)
  <2> DEFINE task == Start(run[r].snap)
             l == [run[r] EXCEPT !.snap = task]
  <2>1. task \in Snapshot /\ task.status = "running"
    BY <1>r, StartType
  <2>2. Can(run[r].snap, "start")
    BY <1>3, <1>o DEF EnsureStore, RunOK
  <2>3. Consistent(task)
    BY <2>2, <1>r, <1>c, ApplyConsistent DEF Apply, TaskAction
  <2>4. l \in RunState /\ l.task = t /\ l.snap = task
    BY <2>1, <1>r, <1>l, <1>s
  <2>5. Goto(r, "announce", l)
    BY <1>3 DEF EnsureStore
  <2>6. /\ registry'[t] = task
        /\ \A u \in Task \ {t} : registry'[u] = registry[u]
    BY <1>3, <1>r DEF EnsureStore, Save, TypeOK
  <2> HIDE DEF task, l
  <2>7. /\ run'[r].pc = "announce" /\ run'[r].task = t /\ run'[r].snap = task
        /\ \A q \in Run \ {r} : run'[q] = run[q]
    BY <2>4, <2>5, <1>r, GotoEffect DEF RunPC
  <2>8. QED
    BY <1>3, <1>r, <1>o, <2>1, <2>3, <2>6, <2>7
       DEF EnsureStore, RunnerVars, RunnerPost, RunOK, Live
<1>4. CASE Announce(r)
  <2>1. CASE Goto(r, "done", run[r]) /\ raised' = raised \cup {r}
    <3>1. /\ run'[r].pc = "done" /\ run'[r].task = t
          /\ run'[r].snap = run[r].snap
          /\ \A q \in Run \ {r} : run'[q] = run[q]
      BY <2>1, <1>r, GotoEffect DEF RunPC
    <3>2. QED
      BY <1>4, <1>r, <1>c, <1>o, <2>1, <3>1
         DEF Announce, RunnerVars, RunnerPost, RunOK, Live
  <2>2. CASE /\ Goto(r, "call", [run[r] EXCEPT
                                   !.ctx = run[r].snap.strategy_state,
                                   !.phase = "start"])
             /\ raised' = raised
    <3>1. [run[r] EXCEPT !.ctx = run[r].snap.strategy_state,
                         !.phase = "start"] \in RunState
      BY <1>r, RunLocals DEF Snapshot
    <3>2. /\ run'[r].pc = "call" /\ run'[r].task = t
          /\ run'[r].snap = run[r].snap
          /\ \A q \in Run \ {r} : run'[q] = run[q]
      BY <2>2, <3>1, <1>r, GotoEffect DEF RunPC, RunState
    <3>3. QED
      BY <1>4, <2>2, <3>2, <1>q DEF Announce
  <2>3. QED
    BY <1>4, <2>1, <2>2 DEF Announce
<1>5. CASE Callback(r)
  <2>1. CASE \E action \in {"stop", "fail"} : Begin(r, action, run[r])
    BY <1>5, <2>1, <1>r, <1>q, BeginEffect DEF Callback, TaskAction
  <2>2. CASE \E state \in {run[r].ctx, run[r].ctx + 1} :
               Goto(r, "load", [run[r] EXCEPT !.ctx = state])
    <3>1. PICK state \in Nat : Goto(r, "load", [run[r] EXCEPT !.ctx = state])
      BY <2>2, <1>r
    <3>2. [run[r] EXCEPT !.ctx = state] \in RunState
      BY <1>r, RunLocals
    <3>3. /\ run'[r].pc = "load" /\ run'[r].task = t
          /\ run'[r].snap = run[r].snap
          /\ \A q \in Run \ {r} : run'[q] = run[q]
      BY <3>1, <3>2, <1>r, GotoEffect DEF RunPC, RunState
    <3>4. QED
      BY <1>5, <3>3, <1>q DEF Callback
  <2>3. QED
    BY <1>5, <2>1, <2>2 DEF Callback
<1>6. CASE ContextLoad(r)
  <2> DEFINE l == [run[r] EXCEPT !.snap = registry[t]]
  <2>1. l \in RunState /\ l.task = t /\ l.snap = registry[t]
    BY <1>r, <1>l, <1>s
  <2> HIDE DEF l
  <2>2. CASE AfterStore(r, l)
    BY <1>6, <2>1, <2>2, <1>r, <1>q, AfterStoreEffect DEF ContextLoad
  <2>3. CASE Goto(r, "store", l)
    <3>1. /\ run'[r].pc = "store" /\ run'[r].task = t
          /\ run'[r].snap = registry[t]
          /\ \A q \in Run \ {r} : run'[q] = run[q]
      BY <2>1, <2>3, <1>r, GotoEffect DEF RunPC
    <3>2. QED
      BY <1>6, <3>1, <1>r, <1>c, <1>o
         DEF ContextLoad, RunnerVars, RunnerPost, RunOK, Live
  <2>4. QED
    BY <1>6, <2>2, <2>3 DEF ContextLoad, l
<1>7. CASE ContextStore(r)
  <2> DEFINE task == WithStrategyState(run[r].snap, run[r].ctx)
             l == [run[r] EXCEPT !.snap = task]
  <2>1. task \in Snapshot /\ Consistent(task) /\ task.status # "created"
    BY <1>7, <1>r, <1>c, <1>o, StateConsistent DEF ContextStore, RunOK
  <2>2. l \in RunState /\ l.task = t /\ l.snap = task
    BY <2>1, <1>r, <1>l, <1>s
  <2>3. AfterStore(r, l)
    BY <1>7 DEF ContextStore
  <2>4. /\ registry'[t] = task
        /\ \A u \in Task \ {t} : registry'[u] = registry[u]
    BY <1>7, <1>r DEF ContextStore, Save, TypeOK
  <2> HIDE DEF task, l
  <2>5. /\ run'[r].pc \in {"next", "lc_load"} /\ run'[r].task = t
        /\ run'[r].pc = "lc_load" => run'[r].goal \in {"complete", "stop"}
        /\ run'[r].snap = task
        /\ \A q \in Run \ {r} : run'[q] = run[q]
    BY <2>2, <2>3, <1>r, AfterStoreEffect
  <2>6. QED
    BY <1>7, <1>r, <1>o, <2>1, <2>4, <2>5
       DEF ContextStore, RunnerVars, RunnerPost, RunOK, Live
<1>8. CASE NextTick(r)
  <2>1. PICK ticks \in Nat :
          ticks = IF Kind[t] = "backtest" THEN run[r].ticks - 1
                  ELSE run[r].ticks
    BY <1>8, <1>r DEF NextTick, RunState
  <2> DEFINE l == [run[r] EXCEPT !.phase = "tick", !.ticks = ticks]
  <2>2. l \in RunState /\ l.task = t /\ l.snap = run[r].snap
    BY <1>r, RunLocals DEF RunState
  <2>3. Begin(r, "pause", l) \/ Goto(r, "call", l)
    BY <1>8, <2>1 DEF NextTick
  <2> HIDE DEF l
  <2>4. /\ run'[r].pc \in {"call", "lc_load"} /\ run'[r].task = t
        /\ run'[r].pc = "lc_load" => run'[r].goal = "pause"
        /\ run'[r].snap = run[r].snap
        /\ \A q \in Run \ {r} : run'[q] = run[q]
    BY <2>2, <2>3, <1>r, GotoEffect, BeginEffect DEF RunPC, TaskAction
  <2>5. QED
    BY <1>8, <2>4, <1>q DEF NextTick
<1>9. CASE StreamEnd(r)
  <2>1. [run[r] EXCEPT !.phase = "stop"] \in RunState
    BY <1>r, RunLocals
  <2>2. /\ run'[r].pc = "call" /\ run'[r].task = t
        /\ run'[r].snap = run[r].snap
        /\ \A q \in Run \ {r} : run'[q] = run[q]
    BY <1>9, <2>1, <1>r, GotoEffect DEF StreamEnd, RunPC, RunState
  <2>3. QED
    BY <1>9, <2>2, <1>q DEF StreamEnd
<1>10. CASE LoopFault(r)
  BY <1>10, <1>r, <1>q, BeginEffect DEF LoopFault, TaskAction
<1>11. CASE LifecycleLoad(r)
  <2> DEFINE l == [run[r] EXCEPT !.snap = registry[t]]
  <2>1. l \in RunState /\ l.task = t /\ l.snap = registry[t]
        /\ l.goal = run[r].goal
    BY <1>r, <1>l, <1>s
  <2>2. PICK pc \in {"lc_store", "done", "finish"} :
          /\ Goto(r, pc, l)
          /\ IF pc = "lc_store" THEN Can(registry[t], run[r].goal)
             ELSE ~Can(registry[t], run[r].goal)
    BY <1>11, <2>1 DEF LifecycleLoad, AfterTransition
  <2> HIDE DEF l
  <2>3. /\ run'[r].pc = pc /\ run'[r].task = t /\ run'[r].goal = run[r].goal
        /\ run'[r].snap = registry[t]
        /\ \A q \in Run \ {r} : run'[q] = run[q]
    BY <2>1, <2>2, <1>r, GotoEffect DEF RunPC
  <2>4. run[r].goal \in {"pause", "stop", "complete", "fail"}
    BY <1>11, <1>o DEF LifecycleLoad, RunOK
  <2>5. pc # "lc_store" => registry[t].status # "running"
    BY <2>2, <2>4 DEF Can, Source, TaskStatus
  <2>6. QED
    BY <1>11, <1>r, <1>c, <1>o, <2>2, <2>3, <2>4, <2>5
       DEF LifecycleLoad, RunnerVars, RunnerPost, RunOK, Live
<1>12. CASE LifecycleStore(r)
  <2> DEFINE task == Apply(run[r].snap, run[r].goal)
             l == [run[r] EXCEPT !.snap = task]
  <2>1. /\ run[r].goal \in {"pause", "stop", "complete", "fail"}
        /\ Can(run[r].snap, run[r].goal)
    BY <1>12, <1>o DEF LifecycleStore, RunOK
  <2>2. /\ task \in Snapshot /\ Consistent(task)
        /\ task.status = Target[run[r].goal]
    BY <2>1, <1>r, <1>c, ApplyType, ApplyConsistent
  <2>3. task.status \notin {"running", "created"}
    BY <2>1, <2>2 DEF Target
  <2>4. l \in RunState /\ l.task = t /\ l.snap = task /\ l.goal = run[r].goal
    BY <2>2, <1>r, <1>l, <1>s
  <2>5. Goto(r, "lc_publish", l)
    BY <1>12 DEF LifecycleStore
  <2>6. /\ registry'[t] = task
        /\ \A u \in Task \ {t} : registry'[u] = registry[u]
    BY <1>12, <1>r DEF LifecycleStore, Save, TypeOK
  <2> HIDE DEF task, l
  <2>7. /\ run'[r].pc = "lc_publish" /\ run'[r].task = t
        /\ run'[r].goal = run[r].goal /\ run'[r].snap = task
        /\ \A q \in Run \ {r} : run'[q] = run[q]
    BY <2>4, <2>5, <1>r, GotoEffect DEF RunPC
  <2>8. QED
    BY <1>12, <1>r, <1>o, <2>1, <2>2, <2>3, <2>6, <2>7
       DEF LifecycleStore, RunnerVars, RunnerPost, RunOK, Live
<1>13. CASE LifecyclePublish(r)
  <2>1. CASE Begin(r, "fail", run[r]) /\ raised' = raised
    <3>1. /\ run'[r].pc = "lc_load" /\ run'[r].task = t
          /\ run'[r].goal = "fail" /\ run'[r].snap = run[r].snap
          /\ \A q \in Run \ {r} : run'[q] = run[q]
      BY <2>1, <1>r, BeginEffect DEF TaskAction
    <3>2. QED
      BY <1>13, <2>1, <3>1, <1>q DEF LifecyclePublish
  <2>2. CASE \E pc \in {"done", "finish"} :
               /\ Goto(r, pc, run[r])
               /\ \/ raised' = raised
                  \/ pc = "done" /\ raised' = raised \cup {r}
    <3>1. PICK pc \in {"done", "finish"} :
               /\ Goto(r, pc, run[r])
               /\ \/ raised' = raised
                  \/ pc = "done" /\ raised' = raised \cup {r}
      BY <2>2
    <3>2. /\ run'[r].pc = pc /\ run'[r].task = t /\ run'[r].goal = run[r].goal
          /\ run'[r].snap = run[r].snap
          /\ \A q \in Run \ {r} : run'[q] = run[q]
      BY <3>1, <1>r, GotoEffect DEF RunPC
    <3>3. QED
      BY <1>13, <1>r, <1>c, <1>o, <3>1, <3>2
         DEF LifecyclePublish, RunnerVars, RunnerPost, RunOK, Live
  <2>3. QED
    BY <1>13, <2>1, <2>2 DEF LifecyclePublish, AfterTransition
<1>14. CASE Finish(r)
  <2>1. CASE Begin(r, "fail", run[r])
    BY <1>14, <2>1, <1>r, <1>q, BeginEffect DEF Finish, TaskAction
  <2>2. CASE Goto(r, "done", run[r])
    <3>1. /\ run'[r].pc = "done" /\ run'[r].task = t
          /\ run'[r].snap = run[r].snap
          /\ \A q \in Run \ {r} : run'[q] = run[q]
      BY <2>2, <1>r, GotoEffect DEF RunPC
    <3>2. QED
      BY <1>14, <1>r, <1>c, <1>o, <3>1
         DEF Finish, RunnerVars, RunnerPost, RunOK, Live
  <2>3. QED
    BY <1>14, <2>1, <2>2 DEF Finish
<1>15. QED
  BY <1>1, <1>2, <1>3, <1>4, <1>5, <1>6, <1>7, <1>8, <1>9, <1>10, <1>11,
     <1>12, <1>13, <1>14 DEF RunnerStep

\* No task has two live runners: both would be the task's runtime, or the run
\* a call is about to register, and a call registers the only one.
LEMMA OneRunner == TypeOK /\ RuntimeInv => OneRunnerPerTask
<1> SUFFICES ASSUME TypeOK, RuntimeInv,
                    NEW r1 \in Run, NEW r2 \in Run, Live(r1), Live(r2),
                    run[r1].task = run[r2].task
             PROVE  r1 = r2
  BY DEF OneRunnerPerTask
<1> DEFINE Registered(r) == runtimes[run[r].task] = r
<1>1. /\ Registered(r1) \/ \E c \in Client : Pending(c, r1)
      /\ Registered(r2) \/ \E c \in Client : Pending(c, r2)
  BY DEF RuntimeInv, LiveKnown
<1>2. \A c \in Client : Pending(c, r1) \/ Pending(c, r2) => r1 = r2
  BY DEF RuntimeInv, RegisterOwn, Pending
<1>3. QED
  BY <1>1, <1>2

\* A step of a runner keeps what the calls know.
LEMMA RunnerKeepsCalls ==
  ASSUME IInv, NEW r \in Run, RunnerPost(r)
  PROVE  ClientInv' /\ OneLauncher'
<1>1. ClientInv'
  <2> SUFFICES ASSUME NEW c \in Client PROVE ClientOK(c)'
    BY DEF ClientInv
  <2>1. ClientOK(c) /\ client'[c] = client[c] /\ runtimes' = runtimes
    BY DEF IInv, ClientInv, RunnerPost
  <2>2. client[c].task \in Task /\ run[r].task \in Task
    BY DEF IInv, TypeInv, TypeOK, ClientState, RunState
  <2>3. registry[client[c].task].status # "created"
          => registry'[client[c].task].status # "created"
    BY <2>2 DEF RunnerPost
  <2>4. QED
    BY <2>1, <2>3 DEF ClientOK, Starting, Restarting
<1>2. OneLauncher'
  BY DEF IInv, OneLauncher, RunnerPost, Starting, Restarting
<1>3. QED
  BY <1>1, <1>2

\* A step of a runner makes no run live.
LEMMA RunnerKeepsRuntimes ==
  ASSUME IInv, NEW r \in Run, RunnerPost(r)
  PROVE  RuntimeInv'
<1>1. /\ UNCHANGED <<client, runtimes>>
      /\ \A q \in Run : /\ run'[q].task = run[q].task
                        /\ run'[q].pc = "unused" <=> run[q].pc = "unused"
                        /\ Live(q)' => Live(q)
  BY DEF RunnerPost, Live
<1>2. RuntimesOK /\ LiveKnown /\ LaunchAlone /\ RegisterOwn
  BY DEF IInv, RuntimeInv
<1>t. runtimes \in [Task -> Run \cup {NoRun}]
  BY DEF IInv, TypeInv, TypeOK
<1>3. RuntimesOK'
  BY <1>1, <1>2, <1>t DEF RuntimesOK
<1>4. LiveKnown'
  BY <1>1, <1>2 DEF LiveKnown, Pending
<1>5. LaunchAlone'
  BY <1>1, <1>2 DEF LaunchAlone
<1>6. RegisterOwn'
  BY <1>1, <1>2 DEF RegisterOwn
<1>7. QED
  BY <1>3, <1>4, <1>5, <1>6 DEF RuntimeInv

\* A step of a runner keeps what the other runners know: they work on other
\* tasks, or have not started, or are done.
LEMMA RunnerKeepsRuns ==
  ASSUME IInv, NEW r \in Run, RunnerPost(r)
  PROVE  RunInv'
<1> SUFFICES ASSUME NEW q \in Run \ {r} PROVE RunOK(q)'
  BY DEF RunInv, RunnerPost
<1>1. RunOK(q) /\ run'[q] = run[q] /\ (q \in raised' => q \in raised)
  BY DEF IInv, RunInv, RunnerPost
<1>t. run[q].task \in Task /\ run[r].task \in Task
  BY DEF IInv, TypeInv, TypeOK, RunState
<1>2. CASE run[q].task # run[r].task
  <2>1. registry'[run[q].task] = registry[run[q].task]
    BY <1>2, <1>t DEF RunnerPost
  <2>2. QED
    BY <1>1, <2>1 DEF RunOK
<1>3. CASE run[q].task = run[r].task
  <2>1. ~Live(q)
    BY <1>3, OneRunner DEF IInv, TypeInv, OneRunnerPerTask, RunnerPost
  <2>2. registry'[run[q].task].status # "created"
    BY <1>3 DEF RunnerPost
  <2>3. QED
    BY <1>1, <2>1, <2>2 DEF RunOK, Live
<1>4. QED
  BY <1>2, <1>3

\* A runner that leaves its task running is still there, or has raised while
\* it announced TASK_STARTED.
LEMMA RunnerKeepsRunning ==
  ASSUME IInv, NEW r \in Run, RunnerPost(r)
  PROVE  RunningHasRunner'
<1> SUFFICES ASSUME NEW t \in Task, registry'[t].status = "running"
             PROVE  \/ \E q \in Run : Live(q)' /\ run'[q].task = t
                    \/ \E c \in Client :
                         /\ client'[c].pc \in {"check_task", "check_strategy",
                                               "submit"}
                         /\ client'[c].task = t
                    \/ t \in rejected'
                    \/ \E q \in raised' :
                         run'[q].task = t /\ run'[q].snap = registry'[t]
  BY DEF RunningHasRunner
<1>1. run[r].task \in Task /\ raised \subseteq Run
  BY DEF IInv, TypeInv, TypeOK, RunState
<1>2. CASE t = run[r].task
  BY <1>1, <1>2 DEF RunnerPost, Live
<1>3. CASE t # run[r].task
  <2>1. registry'[t] = registry[t]
    BY <1>3 DEF RunnerPost
  <2>2. \/ \E q \in Run : Live(q) /\ run[q].task = t
        \/ \E c \in Client :
             /\ client[c].pc \in {"check_task", "check_strategy", "submit"}
             /\ client[c].task = t
        \/ t \in rejected
        \/ \E q \in raised : run[q].task = t /\ run[q].snap = registry[t]
    BY <2>1 DEF IInv, RunningHasRunner
  <2>3. QED
    BY <1>1, <1>3, <2>1, <2>2 DEF RunnerPost, Live
<1>4. QED
  BY <1>2, <1>3

\* Every step of a runner keeps the invariant.
LEMMA RunnerKeepsInv ==
  ASSUME IInv, TypeInv', NEW r \in Run, RunnerStep(r)
  PROVE  IInv'
<1>1. RunnerPost(r)
  BY RunnerStepPost DEF IInv
<1>2. SnapshotsConsistent' /\ LocalsConsistent'
  BY <1>1 DEF IInv, TypeInv, TypeOK, RunState, SnapshotsConsistent,
              LocalsConsistent, RunnerPost
<1>3. QED
  BY <1>1, <1>2, RunnerKeepsCalls, RunnerKeepsRuntimes, RunnerKeepsRuns,
     RunnerKeepsRunning DEF IInv

-----------------------------------------------------------------------------
\* The steps of a call.

Launches(c) == Starting(c) \/ Restarting(c)

\* The other calls know what they knew: no status goes back to "created", and
\* the runtime of a task is replaced by the one call that launches it.
LEMMA OtherCallsKnow ==
  ASSUME IInv, NEW c \in Client, OthersStay(c),
         \A t \in Task : registry[t].status # "created" =>
                           registry'[t].status # "created",
         \A t \in Task : \/ runtimes'[t] = runtimes[t]
                         \/ Launches(c) /\ t = client[c].task
  PROVE  \A d \in Client \ {c} : ClientOK(d)'
<1> SUFFICES ASSUME NEW d \in Client \ {c} PROVE ClientOK(d)'
  OBVIOUS
<1>1. ClientOK(d) /\ client'[d] = client[d] /\ client[d].task \in Task
  BY DEF IInv, ClientInv, TypeInv, TypeOK, ClientState, OthersStay
<1>2. Launches(d) => runtimes'[client[d].task] = runtimes[client[d].task]
  BY <1>1 DEF IInv, OneLauncher, Launches
<1>3. client[d].pc = "await" => Launches(d)
  BY <1>1 DEF ClientOK, Launches, Restarting
<1>4. QED
  BY <1>1, <1>2, <1>3 DEF ClientOK, Launches, Starting, Restarting

\* A call that launches, and did not before, launches what no other does.
LEMMA LaunchersApart ==
  ASSUME IInv, NEW c \in Client, OthersStay(c),
         Launches(c)' =>
           \/ Launches(c) /\ client'[c].task = client[c].task
           \/ \A d \in Client \ {c} :
                Launches(d) => client[d].task # client'[c].task
  PROVE  OneLauncher'
<1> SUFFICES ASSUME NEW d \in Client, NEW e \in Client,
                    Launches(d)', Launches(e)',
                    client'[d].task = client'[e].task
             PROVE  d = e
  BY DEF OneLauncher, Launches
<1>1. \A f \in Client \ {c} : /\ Launches(f)' => Launches(f)
                              /\ client'[f] = client[f]
  BY DEF OthersStay, Launches, Starting, Restarting
<1>2. \A f, g \in Client : Launches(f) /\ Launches(g)
                           /\ client[f].task = client[g].task => f = g
  BY DEF IInv, OneLauncher, Launches
<1>3. QED
  BY <1>1, <1>2

\* Two calls that restart are one; a task with a runtime is not being started.
LEMMA RestartApart ==
  ASSUME IInv, SoleRestarter, NEW c \in Client, "restart" \in Ops[c],
         NEW t \in Task, runtimes[t] # NoRun
  PROVE  \A d \in Client \ {c} : Launches(d) => client[d].task # t
BY DEF IInv, ClientInv, ClientOK, SoleRestarter, Launches

\* A step that writes nothing shared and is before or beside a launch.
LEMMA CallOnly ==
  ASSUME IInv, TypeInv', NEW c \in Client, OthersStay(c),
         UNCHANGED <<registry, runtimes, run, raised, rejected>>,
         client[c].pc \notin AfterSave \cup {"register"},
         client'[c].pc \notin AfterSave \cup {"register"},
         Consistent(client'[c].snap), ClientOK(c)', OneLauncher',
         client'[c].pc \in BeforeSubmit =>
           \A r \in Run : Live(r) => run[r].task # client'[c].task
  PROVE  IInv'
<1>1. ClientInv'
  BY OtherCallsKnow DEF ClientInv
<1>2. RuntimeInv'
  <2>1. RuntimesOK /\ LiveKnown /\ LaunchAlone /\ RegisterOwn
    BY DEF IInv, RuntimeInv
  <2>2. RuntimesOK'
    BY <2>1 DEF RuntimesOK
  <2>3. LiveKnown'
    BY <2>1 DEF LiveKnown, Pending, Live, OthersStay
  <2>4. LaunchAlone'
    BY <2>1 DEF LaunchAlone, Live, OthersStay
  <2>5. RegisterOwn'
    BY <2>1 DEF RegisterOwn, Live, OthersStay
  <2>6. QED
    BY <2>2, <2>3, <2>4, <2>5 DEF RuntimeInv
<1>3. RunInv' /\ SnapshotsConsistent'
  BY DEF IInv, RunInv, RunOK, SnapshotsConsistent
<1>4. LocalsConsistent'
  BY DEF IInv, LocalsConsistent, OthersStay
<1>5. RunningHasRunner'
  BY DEF IInv, RunningHasRunner, Live, OthersStay, AfterSave
<1>6. QED
  BY <1>1, <1>2, <1>3, <1>4, <1>5 DEF IInv

\* A run of a task that is done is the only run of it that was live, unless a
\* call is launching the task.
LEMMA NoLiveRun ==
  ASSUME IInv, NEW t \in Task, runtimes[t] # NoRun, Done(runtimes[t]),
         \A d \in Client : client[d].pc = "register" => client[d].task # t
  PROVE  \A r \in Run : Live(r) => run[r].task # t
BY DEF IInv, RuntimeInv, LiveKnown, Pending, Live, Done

\* A thread between two calls promises nothing.
LEMMA IdleClientOK ==
  ASSUME NEW c \in Client, client'[c] = IdleClient
  PROVE  ClientOK(c)' /\ Consistent(client'[c].snap) /\ ~Launches(c)'
BY NewTaskConsistent
   DEF ClientOK, IdleClient, Launches, Starting, Restarting, AfterSave

\* pause(), stop(), restart() before its save, shutdown().
LEMMA CallOnlyKeepsInv ==
  ASSUME IInv, TypeInv', SoleRestarter, NEW c \in Client,
         \/ \E t \in Task :
              \/ RestartTask(c, t)
              \/ \E op \in {"pause", "stop"} : Control(c, t, op)
         \/ ControlLoad(c) \/ AwaitRun(c) \/ AwaitTimeout(c) \/ RestartLoad(c)
         \/ Shutdown(c) \/ CloseExecutor(c) \/ JoinExecutor(c)
  PROVE  IInv'
<1>t. /\ TypeOK /\ client[c] \in ClientState /\ client[c].task \in Task
      /\ ClientOK(c) /\ Consistent(client[c].snap)
  BY DEF IInv, TypeInv, TypeOK, ClientState, ClientInv, LocalsConsistent
<1>s. Consistent(registry[client[c].task])
  BY <1>t DEF IInv, SnapshotsConsistent
<1>o. OneLauncher
  BY DEF IInv
<1>1. CASE \E t \in Task : RestartTask(c, t)
  <2>1. PICK t \in Task : RestartTask(c, t)
    BY <1>1
  <2>2. /\ client[c].pc = "idle" /\ runtimes[t] # NoRun /\ "restart" \in Ops[c]
        /\ UNCHANGED <<registry, runtimes, run, raised, rejected>>
    BY <2>1 DEF RestartTask, ClientVars
  <2>3. /\ client'[c].pc \in {"reload", "await"}
        /\ client'[c].pc = "reload" => Done(runtimes[t])
        /\ client'[c].op = "restart" /\ client'[c].task = t
        /\ client'[c].run = runtimes[t] /\ client'[c].snap = client[c].snap
        /\ OthersStay(c)
    BY <2>1, <1>t, RestartTaskEffect
  <2>4. ClientOK(c)'
    BY <2>2, <2>3 DEF ClientOK, Starting, Restarting, AfterSave
  <2>5. \A d \in Client \ {c} : Launches(d) => client[d].task # t
    BY <2>2, RestartApart
  <2>6. OneLauncher'
    BY <2>3, <2>5, LaunchersApart
  <2>7. client'[c].pc \in BeforeSubmit =>
          \A r \in Run : Live(r) => run[r].task # t
    <3>1. \A d \in Client : client[d].pc = "register" => client[d].task # t
      BY <2>2, <2>5
         DEF IInv, ClientInv, ClientOK, Launches, Starting, Restarting
    <3>2. QED
      BY <2>2, <2>3, <3>1, NoLiveRun DEF BeforeSubmit, AfterSave
  <2>8. QED
    BY <2>2, <2>3, <2>4, <2>6, <2>7, <1>t, CallOnly DEF AfterSave
<1>2. CASE \E t \in Task, op \in {"pause", "stop"} : Control(c, t, op)
  <2>1. PICK t \in Task, op \in {"pause", "stop"} : Control(c, t, op)
    BY <1>2
  <2>2. /\ client[c].pc = "idle"
        /\ UNCHANGED <<registry, runtimes, run, raised, rejected>>
    BY <2>1 DEF Control, ClientVars
  <2>3. /\ client'[c].pc = "ctl_load" /\ client'[c].op = op
        /\ client'[c].snap = client[c].snap /\ OthersStay(c)
    BY <2>1, <1>t, ControlEffect
  <2>4. ClientOK(c)' /\ ~Launches(c)'
    BY <2>3 DEF ClientOK, Launches, Starting, Restarting, AfterSave
  <2>5. QED
    BY <2>2, <2>3, <2>4, <1>t, LaunchersApart, CallOnly
       DEF AfterSave, BeforeSubmit
<1>3. CASE ControlLoad(c)
  <2>1. /\ client[c].pc = "ctl_load" /\ client[c].op \in {"pause", "stop"}
        /\ UNCHANGED <<registry, runtimes, run, raised, rejected>>
    BY <1>3 DEF ControlLoad, ClientVars, IInv, TypeInv, ControlOp
  <2>2. /\ \/ /\ client'[c].pc = "ctl_store" /\ client'[c].op = client[c].op
              /\ client'[c].snap = registry[client[c].task]
              /\ Can(client'[c].snap, client'[c].op)
           \/ client'[c] = IdleClient /\ client'[c].pc = "idle"
        /\ OthersStay(c)
    BY <1>3, <1>t, ControlLoadEffect
  <2>3. ClientOK(c)' /\ ~Launches(c)' /\ Consistent(client'[c].snap)
    BY <2>1, <2>2, <1>s, IdleClientOK
       DEF ClientOK, Launches, Starting, Restarting, AfterSave
  <2>4. QED
    BY <2>1, <2>2, <2>3, LaunchersApart, CallOnly DEF AfterSave, BeforeSubmit
<1>4. CASE AwaitRun(c) \/ AwaitTimeout(c)
  <2>1. /\ client[c].pc = "await"
        /\ UNCHANGED <<registry, runtimes, run, raised, rejected>>
    BY <1>4 DEF AwaitRun, AwaitTimeout, ClientVars
  <2>2. /\ \/ /\ client'[c].pc = "reload" /\ Done(client[c].run)
              /\ client'[c].op = client[c].op
              /\ client'[c].task = client[c].task
              /\ client'[c].snap = client[c].snap
           \/ client'[c] = IdleClient /\ client'[c].pc = "idle"
        /\ OthersStay(c)
    BY <1>4, <1>t, AwaitEffect
  <2>3. /\ client[c].op = "restart" /\ Restarting(c)
        /\ client[c].run = runtimes[client[c].task]
        /\ runtimes[client[c].task] # NoRun /\ "restart" \in Ops[c]
    BY <2>1, <1>t DEF ClientOK, Restarting
  <2>4. ClientOK(c)' /\ Consistent(client'[c].snap)
    BY <2>1, <2>2, <2>3, <1>t, IdleClientOK
       DEF ClientOK, Starting, Restarting, AfterSave
  <2>5. OneLauncher'
    BY <2>2, <2>3, IdleClientOK, LaunchersApart DEF Launches
  <2>6. client'[c].pc = "reload" =>
          \A r \in Run : Live(r) => run[r].task # client[c].task
    <3>1. \A d \in Client : client[d].pc = "register" =>
            client[d].task # client[c].task
      BY <2>1, <2>3, <1>t, RestartApart
         DEF IInv, ClientInv, ClientOK, Launches, Starting, Restarting
    <3>2. QED
      BY <2>2, <2>3, <3>1, <1>t, NoLiveRun DEF IdleClient
  <2>7. QED
    BY <2>1, <2>2, <2>4, <2>5, <2>6, CallOnly DEF AfterSave, BeforeSubmit
<1>5. CASE RestartLoad(c)
  <2>1. /\ client[c].pc = "reload"
        /\ UNCHANGED <<registry, runtimes, run, raised, rejected>>
    BY <1>5 DEF RestartLoad, ClientVars
  <2>2. /\ \/ /\ client'[c].pc = "restart_store"
              /\ client'[c].op = client[c].op
              /\ client'[c].task = client[c].task
              /\ client'[c].snap = registry[client[c].task]
              /\ Can(client'[c].snap, "restart")
           \/ client'[c] = IdleClient /\ client'[c].pc = "idle"
        /\ OthersStay(c)
    BY <1>5, <1>t, RestartLoadEffect
  <2>3. /\ client[c].op = "restart" /\ Restarting(c)
        /\ runtimes[client[c].task] # NoRun /\ "restart" \in Ops[c]
    BY <2>1, <1>t DEF ClientOK, Restarting
  <2>4. ClientOK(c)' /\ Consistent(client'[c].snap)
    BY <2>1, <2>2, <2>3, <1>s, IdleClientOK
       DEF ClientOK, Starting, Restarting, AfterSave
  <2>5. OneLauncher'
    BY <2>2, <2>3, IdleClientOK, LaunchersApart DEF Launches
  <2>6. \A r \in Run : Live(r) => run[r].task # client[c].task
    BY <2>1 DEF IInv, RuntimeInv, LaunchAlone, BeforeSubmit
  <2>7. QED
    BY <2>1, <2>2, <2>4, <2>5, <2>6, CallOnly DEF AfterSave, BeforeSubmit
<1>6. CASE Shutdown(c) \/ CloseExecutor(c) \/ JoinExecutor(c)
  <2>1. /\ client[c].pc \in {"idle", "close", "join"}
        /\ UNCHANGED <<registry, runtimes, run, raised, rejected>>
    BY <1>6 DEF Shutdown, CloseExecutor, JoinExecutor, ClientVars
  <2>2. /\ client'[c].pc \in {"close", "join", "idle"}
        /\ client'[c].op = "shutdown" \/ client'[c].pc = "idle"
        /\ client'[c].snap = client[c].snap \/ client'[c] = IdleClient
        /\ OthersStay(c)
    BY <1>6, <1>t, ShutdownEffect DEF CloseExecutor, ClientOK
  <2>3. ClientOK(c)' /\ ~Launches(c)' /\ Consistent(client'[c].snap)
    BY <2>2, <1>t, NewTaskConsistent
       DEF ClientOK, Launches, Starting, Restarting, AfterSave, IdleClient
  <2>4. QED
    BY <2>1, <2>2, <2>3, LaunchersApart, CallOnly DEF AfterSave, BeforeSubmit
<1>7. QED
  BY <1>1, <1>2, <1>3, <1>4, <1>5, <1>6

\* The launch checks, and a submit the executor refuses.
LEMMA CheckKeepsInv ==
  ASSUME IInv, TypeInv', NEW c \in Client,
         CheckTask(c) \/ CheckStrategy(c) \/ (Submit(c) /\ ~open)
  PROVE  IInv'
<1>t. /\ TypeOK /\ client[c].task \in Task /\ raised \subseteq Run
      /\ ClientOK(c) /\ Consistent(client[c].snap)
  BY DEF IInv, TypeInv, TypeOK, ClientState, ClientInv, LocalsConsistent
<1>1. /\ client[c].pc \in AfterSave
      /\ UNCHANGED <<registry, runtimes, run, raised>>
  BY DEF CheckTask, CheckStrategy, Submit, ClientVars, AfterSave
<1>2. /\ \/ /\ client'[c].pc \in {"check_strategy", "submit"}
            /\ client'[c].op = client[c].op
            /\ client'[c].task = client[c].task
            /\ client'[c].snap = client[c].snap
            /\ rejected' = rejected
         \/ /\ client'[c] = IdleClient /\ client'[c].pc = "idle"
            /\ rejected' = rejected \cup {client[c].task}
      /\ OthersStay(c)
  <2>1. ~Register(c)
    BY <1>1 DEF Register, AfterSave
  <2>2. CASE CheckTask(c) \/ CheckStrategy(c)
    BY <1>t, <2>1, <2>2, LaunchEffect DEF CheckTask, CheckStrategy, Submit
  <2>3. CASE Submit(c) /\ ~open
    BY <1>t, <2>3, AfterReturn DEF Submit, Reject, OthersStay
  <2>4. QED
    BY <2>2, <2>3
<1>3. Launches(c)
  BY <1>1, <1>t DEF ClientOK, Launches, Starting, Restarting, AfterSave
<1>4. ClientOK(c)' /\ Consistent(client'[c].snap)
  BY <1>1, <1>2, <1>t, IdleClientOK
     DEF ClientOK, Starting, Restarting, AfterSave
<1>5. ClientInv' /\ OneLauncher' /\ LocalsConsistent'
  BY <1>1, <1>2, <1>3, <1>4, OtherCallsKnow, LaunchersApart, IdleClientOK
     DEF ClientInv, IInv, LocalsConsistent, OthersStay
<1>6. RuntimeInv'
  <2>1. RuntimesOK /\ LiveKnown /\ LaunchAlone /\ RegisterOwn
    BY DEF IInv, RuntimeInv
  <2>2. RuntimesOK' /\ LiveKnown'
    BY <1>1, <1>2, <2>1
       DEF RuntimesOK, LiveKnown, Pending, Live, OthersStay, AfterSave
  <2>3. LaunchAlone' /\ RegisterOwn'
    BY <1>1, <1>2, <2>1
       DEF LaunchAlone, RegisterOwn, Live, OthersStay, BeforeSubmit, AfterSave
  <2>4. QED
    BY <2>2, <2>3 DEF RuntimeInv
<1>7. RunInv' /\ SnapshotsConsistent'
  BY <1>1 DEF IInv, RunInv, RunOK, SnapshotsConsistent
<1>8. RunningHasRunner'
  BY <1>1, <1>2 DEF IInv, RunningHasRunner, Live, OthersStay
<1>9. QED
  BY <1>4, <1>5, <1>6, <1>7, <1>8 DEF IInv

\* The work item of a launch: the task has no other live run.
LEMMA SubmitKeepsInv ==
  ASSUME IInv, TypeInv', NEW c \in Client, Submit(c), open
  PROVE  IInv'
<1> DEFINE t == client[c].task
<1>t. /\ TypeOK /\ t \in Task /\ raised \subseteq Run
      /\ ClientOK(c) /\ Consistent(client[c].snap)
      /\ run \in [Run -> RunState] /\ client \in [Client -> ClientState]
  BY DEF IInv, TypeInv, TypeOK, ClientState, ClientInv, LocalsConsistent
<1>1. PICK r \in Unused :
        /\ run' = [run EXCEPT ![r] = [@ EXCEPT !.task = t, !.pc = "queued",
                                               !.ticks = MaxTicks]]
        /\ ClientGoto(c, "register", [client[c] EXCEPT !.run = r])
  BY DEF Submit
<1>r. r \in Run /\ run[r].pc = "unused"
  BY <1>1 DEF Unused
<1>2. /\ client[c].pc = "submit"
      /\ UNCHANGED <<registry, runtimes, raised, rejected>>
  BY DEF Submit
<1>3. /\ client'[c].pc = "register" /\ client'[c].op = client[c].op
      /\ client'[c].task = t /\ client'[c].run = r
      /\ client'[c].snap = client[c].snap /\ OthersStay(c)
  <2>1. [client[c] EXCEPT !.run = r] \in ClientState
    BY <1>t, <1>r, ClientLocals
  <2>2. QED
    BY <2>1, <1>1, <1>t, AfterClientGoto
       DEF OthersStay, ClientState, ClientPC
<1>4. /\ run'[r].task = t /\ run'[r].pc = "queued"
      /\ run'[r].snap = run[r].snap
      /\ \A q \in Run \ {r} : run'[q] = run[q]
  BY <1>1, <1>r, <1>t DEF RunState
<1>5. Launches(c)
  BY <1>2, <1>t DEF ClientOK, Launches, Starting, Restarting, AfterSave
<1>6. ClientOK(c)'
  BY <1>2, <1>3, <1>t DEF ClientOK, Starting, Restarting, AfterSave
<1>7. ClientInv' /\ OneLauncher'
  BY <1>2, <1>3, <1>5, <1>6, OtherCallsKnow, LaunchersApart DEF ClientInv
<1>8. LocalsConsistent' /\ SnapshotsConsistent'
  BY <1>2, <1>3, <1>4, <1>r
     DEF IInv, LocalsConsistent, SnapshotsConsistent, OthersStay
<1>9. RuntimesOK /\ LiveKnown /\ LaunchAlone /\ RegisterOwn
  BY DEF IInv, RuntimeInv
<1>10. registry[t].status # "created"
  <2>1. CASE Starting(c)
    BY <2>1, <1>t DEF ClientOK
  <2>2. CASE Restarting(c)
    <3>1. runtimes[t] \in Run /\ run[runtimes[t]].task = t
          /\ run[runtimes[t]].pc # "unused"
      BY <2>2, <1>t, <1>9 DEF ClientOK, RuntimesOK, TypeOK
    <3>2. QED
      BY <3>1 DEF IInv, RunInv, RunOK
  <2>3. QED
    BY <1>5, <2>1, <2>2 DEF Launches
<1>11. RunInv'
  <2>1. r \notin raised
    BY <1>r DEF IInv, RunInv, RunOK
  <2>2. RunOK(r)'
    BY <1>2, <1>4, <1>10, <2>1 DEF RunOK
  <2>3. \A q \in Run \ {r} : RunOK(q)'
    BY <1>2, <1>4 DEF IInv, RunInv, RunOK
  <2>4. QED
    BY <2>2, <2>3 DEF RunInv
<1>12. RuntimesOK'
  BY <1>2, <1>4, <1>r, <1>9, <1>t DEF RuntimesOK, TypeOK
<1>13. LiveKnown'
  <2>1. Pending(c, r)'
    BY <1>3, <1>4 DEF Pending
  <2>2. \A q \in Run \ {r} : Live(q)' =>
          runtimes'[run'[q].task] = q \/ \E d \in Client : Pending(d, q)'
    BY <1>2, <1>3, <1>4, <1>9 DEF LiveKnown, Live, Pending, OthersStay
  <2>3. QED
    BY <2>1, <2>2 DEF LiveKnown
<1>14. \A q \in Run : Live(q) => run[q].task # t
  BY <1>2, <1>9 DEF LaunchAlone, BeforeSubmit, AfterSave
<1>15. \A d \in Client \ {c} : Launches(d) => client[d].task # t
  BY <1>5 DEF IInv, OneLauncher, Launches
<1>16. LaunchAlone'
  <2> SUFFICES ASSUME NEW d \in Client, client'[d].pc \in BeforeSubmit,
                      NEW q \in Run, Live(q)'
               PROVE  run'[q].task # client'[d].task
    BY DEF LaunchAlone
  <2>1. d # c /\ client'[d] = client[d] /\ Launches(d)
    BY <1>3 DEF OthersStay, BeforeSubmit, AfterSave, IInv, ClientInv, ClientOK,
                Launches, Starting, Restarting
  <2>2. QED
    BY <1>4, <1>9, <1>15, <2>1 DEF LaunchAlone, Live
<1>17. RegisterOwn'
  <2> SUFFICES ASSUME NEW d \in Client, client'[d].pc = "register"
               PROVE  /\ client'[d].run \in Run
                      /\ run'[client'[d].run].task = client'[d].task
                      /\ run'[client'[d].run].pc # "unused"
                      /\ \A q \in Run : Live(q)' /\ run'[q].task = client'[d].task
                           => q = client'[d].run
    BY DEF RegisterOwn
  <2>1. CASE d = c
    BY <1>3, <1>4, <1>14, <1>r, <2>1 DEF Live
  <2>2. CASE d # c
    <3>1. client'[d] = client[d] /\ Launches(d)
      BY <1>3, <2>2 DEF OthersStay, IInv, ClientInv, ClientOK,
                        Launches, Starting, Restarting, AfterSave
    <3>2. QED
      BY <1>4, <1>9, <1>15, <1>r, <2>2, <3>1 DEF RegisterOwn, Live
  <2>3. QED
    BY <2>1, <2>2
<1>18. RunningHasRunner'
  <2> SUFFICES ASSUME NEW u \in Task, registry'[u].status = "running"
               PROVE  \/ \E q \in Run : Live(q)' /\ run'[q].task = u
                      \/ \E d \in Client :
                           /\ client'[d].pc \in {"check_task",
                                                 "check_strategy", "submit"}
                           /\ client'[d].task = u
                      \/ u \in rejected'
                      \/ \E q \in raised' :
                           run'[q].task = u /\ run'[q].snap = registry'[u]
    BY DEF RunningHasRunner
  <2>1. CASE u = t
    BY <1>4, <1>r, <2>1 DEF Live
  <2>2. CASE u # t
    <3>1. \/ \E q \in Run : Live(q) /\ run[q].task = u
          \/ \E d \in Client :
               /\ client[d].pc \in {"check_task", "check_strategy", "submit"}
               /\ client[d].task = u
          \/ u \in rejected
          \/ \E q \in raised : run[q].task = u /\ run[q].snap = registry[u]
      BY <1>2 DEF IInv, RunningHasRunner
    <3>2. \A q \in raised : q # r
      BY <1>r DEF IInv, RunInv, RunOK
    <3>3. QED
      BY <1>2, <1>3, <1>4, <1>r, <1>t, <2>2, <3>1, <3>2 DEF Live, OthersStay
  <2>3. QED
    BY <2>1, <2>2
<1>19. QED
  BY <1>7, <1>8, <1>11, <1>12, <1>13, <1>16, <1>17, <1>18 DEF IInv, RuntimeInv

\* The runtime takes the run the call submitted, the only live one.
LEMMA RegisterKeepsInv ==
  ASSUME IInv, TypeInv', NEW c \in Client, Register(c)
  PROVE  IInv'
<1> DEFINE t == client[c].task
           r == client[c].run
<1>t. /\ TypeOK /\ t \in Task /\ ClientOK(c)
      /\ runtimes \in [Task -> Run \cup {NoRun}]
  BY DEF IInv, TypeInv, TypeOK, ClientState, ClientInv
<1>9. RuntimesOK /\ LiveKnown /\ LaunchAlone /\ RegisterOwn
  BY DEF IInv, RuntimeInv
<1>1. /\ client[c].pc = "register"
      /\ UNCHANGED <<registry, run, raised, rejected>>
      /\ runtimes' = [runtimes EXCEPT ![t] = r]
  BY DEF Register, ClientVars
<1>2. client'[c] = IdleClient /\ client'[c].pc = "idle" /\ OthersStay(c)
  BY <1>t, AfterReturn DEF Register, OthersStay
<1>3. /\ r \in Run /\ r # NoRun /\ run[r].task = t /\ run[r].pc # "unused"
      /\ \A q \in Run : Live(q) /\ run[q].task = t => q = r
  BY <1>1, <1>9, ConstantsAssumption DEF RegisterOwn
<1>4. /\ runtimes'[t] = r
      /\ \A u \in Task \ {t} : runtimes'[u] = runtimes[u]
  BY <1>1, <1>t
<1>5. Launches(c)
  BY <1>1, <1>t DEF ClientOK, Launches, Starting, Restarting
<1>6. ClientInv' /\ OneLauncher' /\ LocalsConsistent'
  BY <1>1, <1>2, <1>4, <1>5, IdleClientOK, OtherCallsKnow, LaunchersApart
     DEF ClientInv, IInv, LocalsConsistent, OthersStay
<1>7. RuntimesOK'
  BY <1>1, <1>3, <1>4, <1>9 DEF RuntimesOK
<1>8. LiveKnown'
  <2> SUFFICES ASSUME NEW q \in Run, Live(q)'
               PROVE  runtimes'[run'[q].task] = q
                      \/ \E d \in Client : Pending(d, q)'
    BY DEF LiveKnown
  <2>1. Live(q) /\ run' = run /\ run[q].task \in Task
    BY <1>1, <1>t DEF Live, TypeOK, RunState
  <2>2. CASE run[q].task = t
    BY <1>3, <1>4, <2>1, <2>2
  <2>3. CASE run[q].task # t
    BY <1>2, <1>4, <1>9, <2>1, <2>3 DEF LiveKnown, Pending, OthersStay
  <2>4. QED
    BY <2>2, <2>3
<1>10. LaunchAlone' /\ RegisterOwn'
  BY <1>1, <1>2, <1>9
     DEF LaunchAlone, RegisterOwn, Live, OthersStay, BeforeSubmit, AfterSave
<1>11. RunInv' /\ SnapshotsConsistent'
  BY <1>1 DEF IInv, RunInv, RunOK, SnapshotsConsistent
<1>12. RunningHasRunner'
  BY <1>1, <1>2 DEF IInv, RunningHasRunner, Live, OthersStay
<1>13. QED
  BY <1>6, <1>7, <1>8, <1>10, <1>11, <1>12 DEF IInv, RuntimeInv

\* A call that writes a task nobody runs yet, or a status that is not running.
LEMMA WriteKeepsInv ==
  ASSUME IInv, TypeInv', NEW c \in Client, OthersStay(c),
         UNCHANGED <<runtimes, run, raised>>,
         NEW t \in Task, rejected' \in {rejected, rejected \ {t}},
         \A u \in Task \ {t} : registry'[u] = registry[u],
         registry'[t].status # "created", Consistent(registry'[t]),
         ClientOK(c)', OneLauncher', Consistent(client'[c].snap),
         client[c].pc \notin AfterSave \cup {"register"},
         \/ /\ client'[c].pc = "idle" /\ registry'[t].status # "running"
            /\ rejected' = rejected
         \/ /\ client'[c].pc = "check_task" /\ client'[c].task = t
            /\ \A r \in Run : Live(r) => run[r].task # t
  PROVE  IInv'
<1>1. ClientInv'
  BY OtherCallsKnow DEF ClientInv
<1>2. RuntimeInv'
  <2>1. RuntimesOK /\ LiveKnown /\ LaunchAlone /\ RegisterOwn
    BY DEF IInv, RuntimeInv
  <2>2. RuntimesOK' /\ LiveKnown'
    BY <2>1 DEF RuntimesOK, LiveKnown, Pending, Live, OthersStay
  <2>3. LaunchAlone' /\ RegisterOwn'
    BY <2>1 DEF LaunchAlone, RegisterOwn, Live, OthersStay, BeforeSubmit,
                AfterSave
  <2>4. QED
    BY <2>2, <2>3 DEF RuntimeInv
<1>3. RunInv'
  <2> SUFFICES ASSUME NEW q \in Run PROVE RunOK(q)'
    BY DEF RunInv
  <2>1. RunOK(q) /\ run[q].task \in Task
    BY DEF IInv, RunInv, TypeInv, TypeOK, RunState
  <2>2. CASE run[q].task # t
    BY <2>1, <2>2 DEF RunOK
  <2>3. CASE run[q].task = t /\ registry'[t].status # "running"
    BY <2>1, <2>3 DEF RunOK
  <2>4. CASE run[q].task = t /\ ~Live(q)
    BY <2>1, <2>4 DEF RunOK, Live
  <2>5. QED
    BY <2>2, <2>3, <2>4
<1>4. SnapshotsConsistent' /\ LocalsConsistent'
  BY DEF IInv, SnapshotsConsistent, LocalsConsistent, OthersStay
<1>5. RunningHasRunner'
  <2> SUFFICES ASSUME NEW u \in Task, registry'[u].status = "running"
               PROVE  \/ \E q \in Run : Live(q)' /\ run'[q].task = u
                      \/ \E d \in Client :
                           /\ client'[d].pc \in {"check_task",
                                                 "check_strategy", "submit"}
                           /\ client'[d].task = u
                      \/ u \in rejected'
                      \/ \E q \in raised' :
                           run'[q].task = u /\ run'[q].snap = registry'[u]
    BY DEF RunningHasRunner
  <2>1. CASE u = t
    BY <2>1
  <2>2. CASE u # t
    <3>1. registry[u].status = "running" /\ registry'[u] = registry[u]
      BY <2>2
    <3>2. QED
      BY <2>2, <3>1
         DEF IInv, RunningHasRunner, Live, OthersStay, AfterSave
  <2>3. QED
    BY <2>1, <2>2
<1>6. QED
  BY <1>1, <1>2, <1>3, <1>4, <1>5 DEF IInv

\* start_backtest, start_trading: a new task has no run.
LEMMA StartTaskKeepsInv ==
  ASSUME IInv, TypeInv', NEW c \in Client, NEW t \in Task, StartTask(c, t)
  PROVE  IInv'
<1>t. /\ TypeOK /\ registry[t] \in Snapshot /\ Consistent(registry[t])
      /\ Consistent(client[c].snap)
  BY DEF IInv, TypeInv, TypeOK, SnapshotsConsistent, LocalsConsistent
<1>1. /\ client[c].pc = "idle" /\ registry[t].status = "created"
      /\ registry' = [registry EXCEPT ![t] = Start(registry[t])]
      /\ rejected' = rejected \ {t}
      /\ UNCHANGED <<runtimes, run, raised>>
  BY DEF StartTask, Save, ClientVars
<1>2. Start(registry[t]).status = "running" /\ Consistent(Start(registry[t]))
  <2>1. Can(registry[t], "start")
    BY <1>1 DEF Can, Source
  <2>2. QED
    BY <2>1, <1>t, StartType, ApplyConsistent DEF Apply, TaskAction
<1>3. /\ registry'[t] = Start(registry[t])
      /\ \A u \in Task \ {t} : registry'[u] = registry[u]
  BY <1>1, <1>t DEF TypeOK
<1>4. /\ client'[c].pc = "check_task" /\ client'[c].op = "start"
      /\ client'[c].task = t /\ client'[c].snap = client[c].snap
      /\ OthersStay(c)
  BY <1>t, StartTaskEffect
<1>5. \A r \in Run : run[r].pc # "unused" => run[r].task # t
  BY <1>1 DEF IInv, RunInv, RunOK
<1>6. runtimes[t] = NoRun
  BY <1>5, <1>t DEF IInv, RuntimeInv, RuntimesOK, TypeOK
<1>7. ClientOK(c)'
  BY <1>1, <1>2, <1>3, <1>4, <1>6
     DEF ClientOK, Starting, Restarting, AfterSave
<1>8. \A d \in Client : Launches(d) => client[d].task # t
  BY <1>1, <1>6 DEF IInv, ClientInv, ClientOK, Launches
<1>9. OneLauncher'
  BY <1>4, <1>8, LaunchersApart
<1>10. QED
  BY <1>1, <1>2, <1>3, <1>4, <1>5, <1>7, <1>9, <1>t, WriteKeepsInv
     DEF Live, AfterSave

\* The save of restart(): the old run is done.
LEMMA RestartStoreKeepsInv ==
  ASSUME IInv, TypeInv', NEW c \in Client, RestartStore(c)
  PROVE  IInv'
<1> DEFINE t == client[c].task
           task == Restart(client[c].snap)
<1>t. /\ TypeOK /\ t \in Task /\ ClientOK(c)
      /\ client[c].snap \in Snapshot /\ Consistent(client[c].snap)
  BY DEF IInv, TypeInv, TypeOK, ClientState, ClientInv, LocalsConsistent
<1>1. /\ client[c].pc = "restart_store"
      /\ registry' = [registry EXCEPT ![t] = task]
      /\ rejected' = rejected \ {t}
      /\ UNCHANGED <<runtimes, run, raised>>
  BY DEF RestartStore, Save, ClientVars
<1>2. task.status = "running" /\ Consistent(task)
  <2>1. Can(client[c].snap, "restart")
    BY <1>1, <1>t DEF ClientOK
  <2>2. QED
    BY <2>1, <1>t, RestartType, ApplyConsistent DEF Apply, TaskAction
<1>3. /\ registry'[t] = task
      /\ \A u \in Task \ {t} : registry'[u] = registry[u]
  BY <1>1, <1>t DEF TypeOK
<1> HIDE DEF task
<1>4. /\ client'[c].pc = "check_task" /\ client'[c].op = client[c].op
      /\ client'[c].task = t /\ client'[c].snap = client[c].snap
      /\ OthersStay(c)
  BY <1>t, RestartStoreEffect
<1>5. /\ client[c].op = "restart" /\ Restarting(c) /\ "restart" \in Ops[c]
      /\ runtimes[t] # NoRun
  BY <1>1, <1>t DEF ClientOK, Restarting
<1>6. ClientOK(c)'
  BY <1>1, <1>2, <1>3, <1>4, <1>5
     DEF ClientOK, Starting, Restarting, AfterSave
<1>7. OneLauncher'
  BY <1>4, <1>5, LaunchersApart DEF Launches
<1>8. \A r \in Run : Live(r) => run[r].task # t
  BY <1>1 DEF IInv, RuntimeInv, LaunchAlone, BeforeSubmit
<1>9. QED
  BY <1>1, <1>2, <1>3, <1>4, <1>6, <1>7, <1>8, <1>t, WriteKeepsInv
     DEF AfterSave

\* The save of pause() and stop(): whatever it overwrites, the task is not
\* running after it.
LEMMA ControlStoreKeepsInv ==
  ASSUME IInv, TypeInv', NEW c \in Client, ControlStore(c)
  PROVE  IInv'
<1> DEFINE t == client[c].task
           task == Apply(client[c].snap, client[c].op)
<1>t. /\ TypeOK /\ t \in Task /\ ClientOK(c)
      /\ client[c].snap \in Snapshot /\ Consistent(client[c].snap)
  BY DEF IInv, TypeInv, TypeOK, ClientState, ClientInv, LocalsConsistent
<1>1. /\ client[c].pc = "ctl_store" /\ client[c].op \in {"pause", "stop"}
      /\ registry' = [registry EXCEPT ![t] = task]
      /\ UNCHANGED <<runtimes, run, raised, rejected>>
  BY DEF ControlStore, Save, ClientVars, IInv, TypeInv, ControlOp
<1>2. task.status \notin {"running", "created"} /\ Consistent(task)
  <2>1. Can(client[c].snap, client[c].op) /\ client[c].op \in TaskAction
    BY <1>1, <1>t DEF ClientOK, TaskAction
  <2>2. task.status = Target[client[c].op] /\ Consistent(task)
    BY <2>1, <1>t, ApplyType, ApplyConsistent
  <2>3. QED
    BY <2>2, <1>1 DEF Target
<1>3. /\ registry'[t] = task
      /\ \A u \in Task \ {t} : registry'[u] = registry[u]
  BY <1>1, <1>t DEF TypeOK
<1> HIDE DEF task
<1>4. client'[c] = IdleClient /\ client'[c].pc = "idle" /\ OthersStay(c)
  BY <1>t, AfterReturn DEF ControlStore, OthersStay
<1>5. ClientOK(c)' /\ Consistent(client'[c].snap) /\ ~Launches(c)'
  BY <1>4, IdleClientOK
<1>6. OneLauncher'
  BY <1>4, <1>5, LaunchersApart
<1>7. QED
  BY <1>1, <1>2, <1>3, <1>4, <1>5, <1>6, <1>t, WriteKeepsInv DEF AfterSave

-----------------------------------------------------------------------------
\* The invariant and what it implies.

\* The initial states satisfy the strengthened invariant.
LEMMA InvInit == Init => IInv
<1> SUFFICES ASSUME Init PROVE IInv
  OBVIOUS
<1>1. TypeInv
  BY TypeInit DEF Init, TypeInv, ControlOp, IdleClient
<1>2. ClientInv /\ OneLauncher
  BY DEF Init, IdleClient, ClientInv, ClientOK, OneLauncher, Starting,
         Restarting, AfterSave
<1>3. RuntimeInv
  BY DEF Init, IdleClient, RuntimeInv, RuntimesOK, LiveKnown, LaunchAlone,
         RegisterOwn, Live, BeforeSubmit, AfterSave
<1>4. RunInv
  BY NewTaskConsistent DEF Init, RunInv, RunOK
<1>5. SnapshotsConsistent /\ LocalsConsistent
  BY NewTaskConsistent
     DEF Init, IdleClient, SnapshotsConsistent, LocalsConsistent
<1>6. RunningHasRunner
  BY DEF Init, NewTask, RunningHasRunner
<1>7. QED
  BY <1>1, <1>2, <1>3, <1>4, <1>5, <1>6 DEF IInv

\* Every step keeps it, whichever thread takes the step.
LEMMA InvNext == SoleRestarter /\ IInv /\ TypeInv' /\ [Next]_vars => IInv'
<1> SUFFICES ASSUME SoleRestarter, IInv, TypeInv', [Next]_vars PROVE IInv'
  OBVIOUS
<1>1. ASSUME NEW r \in Run, RunnerStep(r) PROVE IInv'
  BY <1>1, RunnerKeepsInv
<1>2. ASSUME NEW c \in Client, ClientStep(c) \/ ClientCall(c) PROVE IInv'
  <2>1. CASE CheckTask(c) \/ CheckStrategy(c) \/ (Submit(c) /\ ~open)
    BY <2>1, CheckKeepsInv
  <2>2. CASE Submit(c) /\ open
    BY <2>2, SubmitKeepsInv
  <2>3. CASE Register(c)
    BY <2>3, RegisterKeepsInv
  <2>4. CASE \E t \in Task : StartTask(c, t)
    BY <2>4, StartTaskKeepsInv
  <2>5. CASE RestartStore(c)
    BY <2>5, RestartStoreKeepsInv
  <2>6. CASE ControlStore(c)
    BY <2>6, ControlStoreKeepsInv
  <2>7. CASE \/ \E t \in Task :
                  \/ RestartTask(c, t)
                  \/ \E op \in {"pause", "stop"} : Control(c, t, op)
             \/ ControlLoad(c) \/ AwaitRun(c) \/ AwaitTimeout(c)
             \/ RestartLoad(c)
             \/ Shutdown(c) \/ CloseExecutor(c) \/ JoinExecutor(c)
    BY <2>7, CallOnlyKeepsInv
  <2>8. QED
    BY <1>2, <2>1, <2>2, <2>3, <2>4, <2>5, <2>6, <2>7
       DEF ClientStep, ClientCall
<1>3. CASE UNCHANGED vars
  <2>1. ClientInv' /\ OneLauncher' /\ LocalsConsistent'
    BY <1>3 DEF vars, IInv, ClientInv, ClientOK, OneLauncher, Starting,
                Restarting, LocalsConsistent
  <2>2. RuntimeInv'
    BY <1>3 DEF vars, IInv, RuntimeInv, RuntimesOK, LiveKnown, LaunchAlone,
                RegisterOwn, Pending, Live
  <2>3. RunInv' /\ SnapshotsConsistent' /\ RunningHasRunner'
    BY <1>3 DEF vars, IInv, RunInv, RunOK, SnapshotsConsistent,
                RunningHasRunner, Live
  <2>4. QED
    BY <2>1, <2>2, <2>3 DEF IInv
<1>4. QED
  BY <1>1, <1>2, <1>3 DEF Next

\* The strengthened invariant holds in every state when at most one thread
\* calls restart() (manager.py:233-252), for any tasks, runs, calls and faults.
THEOREM Invariance == SoleRestarter => (Spec => []IInv)
<1>1. SoleRestarter /\ IInv /\ TypeInv' /\ [Next]_vars => IInv'
  BY InvNext
<1>2. Spec => []TypeInv
  BY Typing
<1>3. ASSUME SoleRestarter PROVE Spec => []IInv
  <2>1. IInv /\ TypeInv' /\ [Next]_vars => IInv'
    BY <1>1, <1>3
  <2>2. QED
    BY <1>2, <2>1, InvInit, PTL DEF Spec
<1>4. QED
  BY <1>3

\* A task has one runner at a time: no interleaving of start, restart, pause,
\* stop and shutdown calls lets launch() submit a second runner for a task whose
\* runner has not returned (management.py:116-139, manager.py:233-252).
THEOREM OneRunnerHolds == SoleRestarter => (Spec => []OneRunnerPerTask)
<1>1. IInv => OneRunnerPerTask
  BY OneRunner DEF IInv, TypeInv
<1>2. QED
  BY <1>1, Invariance, PTL

\* A task shown as running has a runner, whatever the threads write over each
\* other, but for a refused launch and a runner that died announcing.
THEOREM RunningHasRunnerHolds == SoleRestarter => (Spec => []RunningHasRunner)
<1>1. IInv => RunningHasRunner
  BY DEF IInv
<1>2. QED
  BY <1>1, Invariance, PTL

\* No interleaving of reads and writes makes a snapshot contradict its status.
THEOREM SnapshotsHold == SoleRestarter => (Spec => []SnapshotsConsistent)
<1>1. IInv => SnapshotsConsistent
  BY DEF IInv
<1>2. QED
  BY <1>1, Invariance, PTL
=============================================================================
