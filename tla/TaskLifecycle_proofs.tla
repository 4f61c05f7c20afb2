------------------------- MODULE TaskLifecycle_proofs -------------------------
(***************************************************************************)
(* TaskExecution implements TaskLifecycle when no application thread calls *)
(* pause() or stop(): no snapshot is then written over a newer one.        *)
(* When none calls stop(), a paused task may be written over a newer one,  *)
(* and a task still counts as used for as long as a run drives its         *)
(* strategy, and its observers are told of its end.                        *)
(***************************************************************************)
EXTENDS TaskExecution_proofs

-----------------------------------------------------------------------------
\* The writes of the registry.

\* Registry writes task t by one step of the abstract lifecycle, or not at all.
Moved(t) ==
  \/ registry' = registry
  \/ \E action \in TaskAction :
       /\ Can(registry[t], action)
       /\ registry' = [registry EXCEPT ![t] = Apply(registry[t], action)]
  \/ /\ registry[t].status = "running"
     /\ \E state \in 0..MaxState :
          /\ state > registry[t].strategy_state
          /\ registry' = [registry EXCEPT
                            ![t] = WithStrategyState(registry[t], state)]

\* A write of the newest copy is such a step.
LEMMA MovedIsStep ==
  ASSUME TypeOK, NEW t \in Task, Moved(t)
  PROVE  [Lifecycle!Next]_registry
<1>1. ASSUME NEW action \in TaskAction, Can(registry[t], action),
             registry' = [registry EXCEPT ![t] = Apply(registry[t], action)]
      PROVE  Lifecycle!Transition(t, action)
  <2>1. Lifecycle!Can(registry[t], action)
    BY <1>1 DEF Can, Source, Lifecycle!Can, Lifecycle!Source,
                TaskStatus, Lifecycle!TaskStatus
  <2>2. Lifecycle!Apply(registry[t], action) = Apply(registry[t], action)
    BY DEF Apply, Lifecycle!Apply, Start, Lifecycle!Start, Pause,
           Lifecycle!Pause, Stop, Lifecycle!Stop, Restart, Lifecycle!Restart,
           Complete, Lifecycle!Complete, Fail, Lifecycle!Fail, Target,
           Lifecycle!Target
  <2>3. QED
    BY <1>1, <2>1, <2>2 DEF Lifecycle!Transition
<1>2. ASSUME NEW state \in 0..MaxState, registry[t].status = "running",
             state > registry[t].strategy_state,
             registry' = [registry EXCEPT
                            ![t] = WithStrategyState(registry[t], state)]
      PROVE  Lifecycle!SaveState(t, state)
  BY <1>2 DEF Lifecycle!SaveState, Lifecycle!WithStrategyState,
              WithStrategyState
<1>3. TaskAction = Lifecycle!TaskAction
  BY DEF TaskAction, Lifecycle!TaskAction
<1>4. QED
  BY <1>1, <1>2, <1>3 DEF Moved, Lifecycle!Next

\* An action sets the version of the strategy state to 0 or leaves it.
LEMMA ApplyState ==
  ASSUME NEW task \in Snapshot, NEW action \in TaskAction
  PROVE  Apply(task, action).strategy_state \in {0, task.strategy_state}
<1>1. CASE action = "start"
  BY <1>1 DEF Snapshot, Apply, Start
<1>2. CASE action = "pause"
  BY <1>2 DEF Snapshot, Apply, Pause
<1>3. CASE action = "stop"
  BY <1>3 DEF Snapshot, Apply, Stop
<1>4. CASE action = "restart"
  BY <1>4 DEF Snapshot, Apply, Restart
<1>5. CASE action = "complete"
  BY <1>5 DEF Snapshot, Apply, Complete
<1>6. CASE action = "fail"
  BY <1>6 DEF Snapshot, Apply, Fail
<1>7. QED
  BY <1>1, <1>2, <1>3, <1>4, <1>5, <1>6 DEF TaskAction

\* So the versions stay bounded.
LEMMA MovedBounded ==
  ASSUME TypeOK, StatesBounded, NEW t \in Task, Moved(t)
  PROVE  StatesBounded'
<1> SUFFICES ASSUME NEW u \in Task
             PROVE  registry'[u].strategy_state <= MaxState
  BY DEF StatesBounded
<1>1. /\ registry[t] \in Snapshot /\ registry[t].strategy_state \in Nat
      /\ registry[u].strategy_state <= MaxState
      /\ registry[t].strategy_state <= MaxState
  BY DEF TypeOK, StatesBounded, Snapshot
<1>2. CASE registry'[u] = registry[u]
  BY <1>1, <1>2
<1>3. CASE u = t /\ \E action \in TaskAction :
                       registry'[t] = Apply(registry[t], action)
  BY <1>1, <1>3, ApplyState, ConstantsAssumption
<1>4. CASE u = t /\ \E state \in 0..MaxState :
                       registry'[t] = WithStrategyState(registry[t], state)
  BY <1>1, <1>4, ConstantsAssumption DEF WithStrategyState, Snapshot
<1>5. QED
  BY <1>2, <1>3, <1>4 DEF Moved, TypeOK

-----------------------------------------------------------------------------
\* The steps of a runner.

\* What a step of a runner does to its task and to what the runner knows of it.
RunnerMoves(r) ==
  /\ Moved(run[r].task)
  /\ RunnerWrites(r)'

\* A step after which the runner is between two writes.
LEMMA BetweenWrites ==
  ASSUME TypeOK, NEW r \in Run, UNCHANGED registry,
         run'[r].task = run[r].task,
         run'[r].pc \in BeforeEnd \cup {"lc_load"},
         run'[r].pc \in BeforeEnd => run[r].pc \in BeforeEnd,
         run[r].pc \in BeforeEnd => registry[run[r].task].status = "running",
         run'[r].pc \in {"call", "load", "next"} =>
           run'[r].ctx \in registry[run[r].task].strategy_state .. MaxState,
         run'[r].pc \notin {"store", "boot_store"}
  PROVE  RunnerMoves(r)
BY DEF RunnerMoves, Moved, RunnerWrites, BeforeEnd

\* Fields of the runner after the steps that go to the tick loop or to its end.
LEMMA AfterStoreFields ==
  ASSUME TypeOK, NEW r \in Run, NEW l \in RunState, AfterStore(r, l)
  PROVE  /\ run'[r].task = l.task
         /\ \/ run'[r].pc = "next" /\ run'[r].ctx = l.ctx
            \/ run'[r].pc = "lc_load" /\ run'[r].goal \in {"stop", "complete"}
<1>1. CASE Goto(r, "next", l)
  BY <1>1, GotoEffect DEF RunPC
<1>2. CASE \E action \in {"complete", "stop"} : Begin(r, action, l)
  BY <1>2, BeginEffect DEF TaskAction
<1>3. QED
  BY <1>1, <1>2 DEF AfterStore

\* Whatever the runner does, it writes the newest copy of its task.
LEMMA RunnerStepMoves ==
  ASSUME IInv, WriterInv, NEW r \in Run, RunnerStep(r)
  PROVE  RunnerMoves(r)
<1> DEFINE t == run[r].task
<1>r. /\ TypeOK /\ run[r] \in RunState /\ t \in Task
      /\ run[r].snap \in Snapshot /\ registry[t] \in Snapshot
      /\ run[r].goal \in TaskAction /\ run[r].ctx \in Nat
      /\ registry[t].strategy_state \in Nat
  BY DEF IInv, TypeInv, TypeOK, RunState, Snapshot
<1>w. RunnerWrites(r) /\ registry[t].strategy_state <= MaxState
  BY <1>r DEF WriterInv, StatesBounded
<1>o. RunOK(r)
  BY DEF IInv, RunInv
<1>p. run'[r].task = t
  BY RunnerStepPost DEF RunnerPost, IInv
<1>l. \A task \in Snapshot : [run[r] EXCEPT !.snap = task] \in RunState
  BY <1>r, RunLocals
<1>s. \A task \in Snapshot : /\ [run[r] EXCEPT !.snap = task].task = t
                            /\ [run[r] EXCEPT !.snap = task].goal = run[r].goal
                            /\ [run[r] EXCEPT !.snap = task].snap = task
                            /\ [run[r] EXCEPT !.snap = task].ctx = run[r].ctx
  BY <1>r DEF RunState
<1>1. CASE Dequeue(r)
  <2>1. run'[r].pc = "boot" /\ UNCHANGED registry
        /\ run[r].pc = "queued"
    BY <1>1, <1>r, GotoEffect DEF Dequeue, RunPC
  <2>2. QED
    BY <2>1, <1>r, <1>w, <1>p, BetweenWrites DEF RunnerWrites, BeforeEnd
<1>2. CASE EnsureLoad(r)
  <2> DEFINE l == [run[r] EXCEPT !.snap = registry[t]]
  <2>1. l \in RunState
    BY <1>r, <1>l
  <2>2. run[r].pc = "boot" /\ UNCHANGED registry
        /\ registry[t].status = "running"
    BY <1>2, <1>w DEF EnsureLoad, RunnerWrites, BeforeEnd
  <2>3. Goto(r, "announce", l)
    BY <1>2, <2>2 DEF EnsureLoad, Can, Source
  <2> HIDE DEF l
  <2>4. run'[r].pc = "announce"
    BY <2>1, <2>3, <1>r, GotoEffect DEF RunPC
  <2>5. QED
    BY <2>2, <2>4, <1>r, <1>p, BetweenWrites DEF BeforeEnd
<1>3. CASE EnsureStore(r)
  BY <1>3, <1>w DEF EnsureStore, RunnerWrites
<1>4. CASE Announce(r)
  <2>1. run[r].pc = "announce" /\ UNCHANGED registry
        /\ registry[t].status = "running" /\ run[r].snap = registry[t]
    BY <1>4, <1>w, <1>o DEF Announce, RunnerWrites, RunOK, BeforeEnd
  <2>2. CASE Goto(r, "done", run[r])
    <3>1. run'[r].pc = "done"
      BY <2>2, <1>r, GotoEffect DEF RunPC
    <3>2. QED
      BY <2>1, <3>1 DEF RunnerMoves, Moved, RunnerWrites, BeforeEnd
  <2>3. CASE Goto(r, "call", [run[r] EXCEPT
                                   !.ctx = run[r].snap.strategy_state,
                                   !.phase = "start"])
    <3> DEFINE l == [run[r] EXCEPT !.ctx = run[r].snap.strategy_state,
                                   !.phase = "start"]
    <3>1. l \in RunState /\ l.ctx = registry[t].strategy_state
      BY <1>r, <2>1, RunLocals DEF RunState
    <3> HIDE DEF l
    <3>2. run'[r].pc = "call" /\ run'[r].ctx = registry[t].strategy_state
      BY <2>3, <3>1, <1>r, GotoEffect DEF RunPC, l
    <3>3. QED
      BY <2>1, <3>2, <1>r, <1>w, <1>p, BetweenWrites, ConstantsAssumption
         DEF BeforeEnd
  <2>4. QED
    BY <1>4, <2>2, <2>3 DEF Announce
<1>5. CASE Callback(r)
  <2>1. run[r].pc = "call" /\ UNCHANGED registry
        /\ registry[t].status = "running"
        /\ run[r].ctx \in registry[t].strategy_state .. MaxState
    BY <1>5, <1>w DEF Callback, RunnerWrites, BeforeEnd
  <2>2. CASE \E action \in {"stop", "fail"} : Begin(r, action, run[r])
    <3>1. run'[r].pc = "lc_load"
      BY <2>2, <1>r, BeginEffect DEF TaskAction
    <3>2. QED
      BY <2>1, <3>1, <1>r, <1>p, BetweenWrites DEF BeforeEnd
  <2>3. CASE \E state \in {run[r].ctx, run[r].ctx + 1} :
               /\ state <= MaxState
               /\ Goto(r, "load", [run[r] EXCEPT !.ctx = state])
    <3>1. PICK state \in registry[t].strategy_state .. MaxState :
               Goto(r, "load", [run[r] EXCEPT !.ctx = state])
      BY <2>1, <2>3, <1>r, ConstantsAssumption
    <3>2. /\ state \in Nat /\ [run[r] EXCEPT !.ctx = state] \in RunState
          /\ [run[r] EXCEPT !.ctx = state].ctx = state
      <4>1. state \in Nat
        BY <1>r, ConstantsAssumption
      <4>2. QED
        BY <4>1, <1>r, RunLocals DEF RunState
    <3>3. run'[r].pc = "load" /\ run'[r].ctx = state
      BY <3>1, <3>2, <1>r, GotoEffect DEF RunPC
    <3>4. QED
      BY <2>1, <3>3, <1>r, <1>p, BetweenWrites DEF BeforeEnd
  <2>4. QED
    BY <1>5, <2>2, <2>3 DEF Callback
<1>6. CASE ContextLoad(r)
  <2> DEFINE l == [run[r] EXCEPT !.snap = registry[t]]
  <2>1. l \in RunState /\ l.task = t /\ l.snap = registry[t]
        /\ l.ctx = run[r].ctx
    BY <1>r, <1>l, <1>s
  <2> HIDE DEF l
  <2>2. run[r].pc = "load" /\ UNCHANGED registry
        /\ registry[t].status = "running"
        /\ run[r].ctx \in registry[t].strategy_state .. MaxState
    BY <1>6, <1>w DEF ContextLoad, RunnerWrites, BeforeEnd
  <2>3. CASE AfterStore(r, l)
    <3>1. \/ run'[r].pc = "next" /\ run'[r].ctx = run[r].ctx
          \/ run'[r].pc = "lc_load" /\ run'[r].goal \in {"stop", "complete"}
      BY <2>1, <2>3, <1>r, AfterStoreFields
    <3>2. QED
      BY <2>2, <3>1, <1>r, <1>p, BetweenWrites DEF BeforeEnd
  <2>4. CASE Goto(r, "store", l) /\ registry[t].strategy_state # run[r].ctx
    <3>1. run'[r].pc = "store" /\ run'[r].ctx = run[r].ctx
          /\ run'[r].snap = registry[t]
      BY <2>1, <2>4, <1>r, GotoEffect DEF RunPC
    <3>2. QED
      BY <2>2, <2>4, <3>1, <1>p DEF RunnerMoves, Moved, RunnerWrites, BeforeEnd
  <2>5. QED
    BY <1>6, <2>3, <2>4 DEF ContextLoad, l
<1>7. CASE ContextStore(r)
  <2> DEFINE task == WithStrategyState(run[r].snap, run[r].ctx)
             l == [run[r] EXCEPT !.snap = task]
  <2>1. run[r].pc = "store"
        /\ registry[t].status = "running" /\ run[r].snap = registry[t]
        /\ run[r].ctx \in registry[t].strategy_state .. MaxState
        /\ run[r].ctx # registry[t].strategy_state
    BY <1>7, <1>w DEF ContextStore, RunnerWrites, BeforeEnd
  <2>2. task \in Snapshot /\ task.status = "running"
        /\ task.strategy_state = run[r].ctx
    BY <2>1, <1>r, StateConsistent DEF WithStrategyState, Snapshot
  <2>3. l \in RunState /\ l.ctx = run[r].ctx
    BY <2>2, <1>l, <1>s
  <2>4. AfterStore(r, l) /\ registry' = [registry EXCEPT ![t] = task]
    BY <1>7 DEF ContextStore, Save
  <2>5. registry'[t] = task
    BY <2>4, <1>r DEF TypeOK
  <2>6. Moved(t)
    <3>1. run[r].ctx \in 0..MaxState /\ run[r].ctx > registry[t].strategy_state
      BY <2>1, <1>r, ConstantsAssumption
    <3>2. task = WithStrategyState(registry[t], run[r].ctx)
      BY <2>1
    <3> HIDE DEF task
    <3>3. QED
      BY <2>1, <2>4, <3>1, <3>2 DEF Moved
  <2> HIDE DEF task, l
  <2>7. \/ run'[r].pc = "next" /\ run'[r].ctx = run[r].ctx
        \/ run'[r].pc = "lc_load" /\ run'[r].goal \in {"stop", "complete"}
    BY <2>3, <2>4, <1>r, AfterStoreFields
  <2>8. QED
    BY <2>1, <2>2, <2>5, <2>6, <2>7, <1>p, <1>r, ConstantsAssumption
       DEF RunnerMoves, RunnerWrites, BeforeEnd
<1>8. CASE NextTick(r)
  <2>1. PICK ticks \in Nat :
          ticks = IF Kind[t] = "backtest" THEN run[r].ticks - 1
                  ELSE run[r].ticks
    BY <1>8, <1>r DEF NextTick, RunState
  <2> DEFINE l == [run[r] EXCEPT !.phase = "tick", !.ticks = ticks]
  <2>2. l \in RunState /\ l.ctx = run[r].ctx
    BY <1>r, RunLocals DEF RunState
  <2>3. Begin(r, "pause", l) \/ Goto(r, "call", l)
    BY <1>8, <2>1 DEF NextTick
  <2>4. run[r].pc = "next" /\ UNCHANGED registry
        /\ registry[t].status = "running"
        /\ run[r].ctx \in registry[t].strategy_state .. MaxState
    BY <1>8, <1>w DEF NextTick, RunnerWrites, BeforeEnd
  <2> HIDE DEF l
  <2>5. \/ run'[r].pc = "lc_load"
        \/ run'[r].pc = "call" /\ run'[r].ctx = run[r].ctx
    BY <2>2, <2>3, <1>r, GotoEffect, BeginEffect DEF RunPC, TaskAction
  <2>6. QED
    BY <2>4, <2>5, <1>p, <1>r, BetweenWrites DEF BeforeEnd
<1>9. CASE StreamEnd(r)
  <2>1. [run[r] EXCEPT !.phase = "stop"] \in RunState
        /\ [run[r] EXCEPT !.phase = "stop"].ctx = run[r].ctx
    BY <1>r, RunLocals DEF RunState
  <2>2. run'[r].pc = "call" /\ run'[r].ctx = run[r].ctx
    BY <1>9, <2>1, <1>r, GotoEffect DEF StreamEnd, RunPC
  <2>3. run[r].pc = "next" /\ UNCHANGED registry
        /\ registry[t].status = "running"
        /\ run[r].ctx \in registry[t].strategy_state .. MaxState
    BY <1>9, <1>w DEF StreamEnd, RunnerWrites, BeforeEnd
  <2>4. QED
    BY <2>2, <2>3, <1>p, <1>r, BetweenWrites DEF BeforeEnd
<1>10. CASE LoopFault(r)
  <2>1. run'[r].pc = "lc_load"
        /\ UNCHANGED registry
    BY <1>10, <1>r, BeginEffect DEF LoopFault, TaskAction
  <2>2. QED
    BY <2>1, <1>p, <1>r, <1>w, BetweenWrites DEF BeforeEnd, RunnerWrites
<1>11. CASE LifecycleLoad(r)
  <2> DEFINE l == [run[r] EXCEPT !.snap = registry[t]]
  <2>1. l \in RunState /\ l.snap = registry[t] /\ l.goal = run[r].goal
    BY <1>r, <1>l, <1>s
  <2>2. run[r].pc = "lc_load" /\ UNCHANGED registry
    BY <1>11 DEF LifecycleLoad
  <2>3. PICK pc \in {"lc_store", "finish", "done"} : Goto(r, pc, l)
    BY <1>11, <2>1 DEF LifecycleLoad, AfterTransition
  <2> HIDE DEF l
  <2>4. run'[r].pc = pc /\ run'[r].snap = registry[t]
    BY <2>1, <2>3, <1>r, GotoEffect DEF RunPC
  <2>5. QED
    BY <2>2, <2>4, <1>p DEF RunnerMoves, Moved, RunnerWrites, BeforeEnd
<1>12. CASE LifecycleStore(r)
  <2> DEFINE task == Apply(run[r].snap, run[r].goal)
             l == [run[r] EXCEPT !.snap = task]
  <2>1. run[r].pc = "lc_store"
        /\ run[r].snap = registry[t] /\ Can(registry[t], run[r].goal)
    BY <1>12, <1>w, <1>o DEF LifecycleStore, RunnerWrites, RunOK
  <2>2. task \in Snapshot /\ task.status = Target[run[r].goal]
    BY <1>r, ApplyType
  <2>3. l \in RunState /\ l.goal = run[r].goal /\ l.snap = task
    BY <2>2, <1>l, <1>s
  <2>4. Goto(r, "lc_publish", l) /\ registry' = [registry EXCEPT ![t] = task]
    BY <1>12 DEF LifecycleStore, Save
  <2>5. Moved(t)
    BY <2>1, <2>4, <1>r DEF Moved
  <2> HIDE DEF task, l
  <2>6. run'[r].pc = "lc_publish" /\ run'[r].goal = run[r].goal
        /\ run'[r].snap.status = Target[run[r].goal]
    BY <2>2, <2>3, <2>4, <1>r, GotoEffect DEF RunPC
  <2>7. QED
    BY <2>1, <2>5, <2>6 DEF RunnerMoves, RunnerWrites, BeforeEnd, Target
<1>13. CASE LifecyclePublish(r)
  <2>1. run[r].pc = "lc_publish" /\ UNCHANGED registry
    BY <1>13 DEF LifecyclePublish
  <2>2. CASE Begin(r, "fail", run[r])
    <3>1. run'[r].pc = "lc_load" /\ run'[r].goal = "fail"
      BY <2>2, <1>r, BeginEffect DEF TaskAction
    <3>2. QED
      BY <2>1, <3>1, <1>p, <1>r, BetweenWrites DEF BeforeEnd
  <2>3. CASE Goto(r, "finish", run[r])
    <3>1. run'[r].pc = "finish"
      BY <2>3, <1>r, GotoEffect DEF RunPC
    <3>2. QED
      BY <2>1, <3>1 DEF RunnerMoves, Moved, RunnerWrites, BeforeEnd
  <2>4. CASE Goto(r, "done", run[r])
    <3>1. run'[r].pc = "done"
      BY <2>4, <1>r, GotoEffect DEF RunPC
    <3>2. QED
      BY <2>1, <3>1 DEF RunnerMoves, Moved, RunnerWrites, BeforeEnd
  <2>5. QED
    BY <1>13, <2>2, <2>3, <2>4 DEF LifecyclePublish, AfterTransition
<1>14. CASE Finish(r)
  <2>1. run[r].pc = "finish" /\ UNCHANGED registry
    BY <1>14 DEF Finish
  <2>2. CASE Begin(r, "fail", run[r])
    <3>1. run'[r].pc = "lc_load" /\ run'[r].goal = "fail"
      BY <2>2, <1>r, BeginEffect DEF TaskAction
    <3>2. QED
      BY <2>1, <3>1 DEF RunnerMoves, Moved, RunnerWrites, BeforeEnd
  <2>3. CASE Goto(r, "done", run[r])
    <3>1. run'[r].pc = "done"
      BY <2>3, <1>r, GotoEffect DEF RunPC
    <3>2. QED
      BY <2>1, <2>3, <3>1 DEF RunnerMoves, Moved, RunnerWrites, BeforeEnd
  <2>4. QED
    BY <1>14, <2>2, <2>3 DEF Finish
<1>15. QED
  BY <1>1, <1>2, <1>3, <1>4, <1>5, <1>6, <1>7, <1>8, <1>9, <1>10, <1>11,
     <1>12, <1>13, <1>14 DEF RunnerStep

-----------------------------------------------------------------------------
\* The invariant of the only writers.

\* A runner's step.
LEMMA RunnerKeepsWriter ==
  ASSUME IInv, WriterInv, NEW r \in Run, RunnerStep(r)
  PROVE  WriterInv' /\ [Lifecycle!Next]_registry
<1>1. RunnerMoves(r) /\ RunnerPost(r)
  BY RunnerStepMoves, RunnerStepPost DEF IInv
<1>2. TypeOK /\ run[r].task \in Task /\ OneRunnerPerTask
  BY OneRunner DEF IInv, TypeInv, TypeOK, RunState
<1>3. StatesBounded' /\ [Lifecycle!Next]_registry
  BY <1>1, <1>2, MovedBounded, MovedIsStep DEF RunnerMoves, WriterInv
<1>4. ASSUME NEW q \in Run PROVE RunnerWrites(q)'
  <2>1. CASE q = r
    BY <1>1, <2>1 DEF RunnerMoves
  <2>2. CASE q # r /\ ~Live(q)
    <3>1. ~Live(q)'
      BY <1>1, <2>2 DEF RunnerPost, Live
    <3>2. QED
      BY <3>1 DEF Live, RunnerWrites, BeforeEnd
  <2>3. CASE q # r /\ Live(q)
    <3>1. run'[q] = run[q] /\ run[q].task \in Task /\ run[q].task # run[r].task
      BY <1>1, <1>2, <2>3 DEF RunnerPost, OneRunnerPerTask, TypeOK, RunState
    <3>2. registry'[run[q].task] = registry[run[q].task]
      BY <1>1, <3>1 DEF RunnerPost
    <3>3. QED
      BY <3>1, <3>2 DEF WriterInv, RunnerWrites
  <2>4. QED
    BY <2>1, <2>2, <2>3
<1>5. ASSUME NEW c \in Client PROVE CallWrites(c)'
  <2>1. CallWrites(c) /\ client' = client /\ client[c].task \in Task
    BY <1>1, <1>2 DEF WriterInv, RunnerPost, TypeOK, ClientState
  <2>2. client[c].pc \in BeforeSubmit => client[c].task # run[r].task
    BY <1>1 DEF IInv, RuntimeInv, LaunchAlone, RunnerPost
  <2>3. QED
    BY <1>1, <2>1, <2>2 DEF CallWrites, RunnerPost, BeforeSubmit, AfterSave
<1>6. QED
  BY <1>3, <1>4, <1>5 DEF WriterInv

\* A call that writes no task and starts no run.
LEMMA QuietCallKeepsWriter ==
  ASSUME IInv, WriterInv, NEW c \in Client, OthersStay(c),
         UNCHANGED registry,
         \A r \in Run : run'[r] = run[r],
         client'[c].pc \notin {"ctl_load", "ctl_store"},
         client'[c].pc = "restart_store" =>
           client'[c].snap = registry[client'[c].task],
         client'[c].pc \in AfterSave =>
           client[c].pc \in AfterSave /\ client'[c].task = client[c].task
  PROVE  WriterInv'
<1>1. ASSUME NEW d \in Client PROVE CallWrites(d)'
  BY DEF WriterInv, CallWrites, OthersStay
<1>2. QED
  BY <1>1 DEF WriterInv, RunnerWrites, StatesBounded

\* A call that writes a task nobody runs: start() and restart().
LEMMA LaunchWriteKeepsWriter ==
  ASSUME IInv, WriterInv, NEW c \in Client, OthersStay(c),
         UNCHANGED run,
         NEW t \in Task, NEW action \in TaskAction,
         Can(registry[t], action),
         registry' = [registry EXCEPT ![t] = Apply(registry[t], action)],
         \A r \in Run : Live(r) => run[r].task # t,
         \A d \in Client \ {c} :
           client[d].pc \in BeforeSubmit => client[d].task # t,
         client'[c].pc = "check_task", client'[c].task = t,
         action \in {"start", "restart"}
  PROVE  WriterInv' /\ [Lifecycle!Next]_registry
<1>1. /\ TypeOK /\ \A u \in Task \ {t} : registry'[u] = registry[u]
  BY DEF IInv, TypeInv, TypeOK
<1>2. Moved(t)
  BY DEF Moved
<1>3. StatesBounded' /\ [Lifecycle!Next]_registry
  BY <1>1, <1>2, MovedBounded, MovedIsStep DEF WriterInv
<1>4. ASSUME NEW q \in Run PROVE RunnerWrites(q)'
  <2>1. CASE Live(q)
    <3>1. run[q].task \in Task \ {t}
      BY <1>1, <2>1 DEF TypeOK, RunState
    <3>2. QED
      BY <1>1, <3>1 DEF WriterInv, RunnerWrites
  <2>2. CASE ~Live(q)
    BY <2>2 DEF Live, RunnerWrites, BeforeEnd
  <2>3. QED
    BY <2>1, <2>2
<1>5. ASSUME NEW d \in Client PROVE CallWrites(d)'
  <2>1. client[d].task \in Task /\ CallWrites(d)
    BY <1>1 DEF TypeOK, ClientState, WriterInv
  <2>2. registry'[t].status = "running"
    BY <1>1, ApplyType DEF Target, TypeOK
  <2>3. QED
    BY <1>1, <2>1, <2>2
       DEF CallWrites, OthersStay, BeforeSubmit, AfterSave
<1>6. QED
  BY <1>3, <1>4, <1>5 DEF WriterInv

\* The executor takes a run for a task that is running and nobody runs.
LEMMA SubmitKeepsWriter ==
  ASSUME IInv, WriterInv, NEW c \in Client, Submit(c), open
  PROVE  WriterInv'
<1> DEFINE t == client[c].task
<1>1. PICK r \in Unused :
        run' = [run EXCEPT ![r] = [@ EXCEPT !.task = t, !.pc = "queued",
                                            !.ticks = MaxTicks]]
  BY DEF Submit
<1>2. /\ TypeOK /\ t \in Task /\ client[c].pc = "submit"
      /\ UNCHANGED registry
  BY DEF IInv, TypeInv, TypeOK, ClientState, Submit
<1>3. client'[c].pc \in {"register", "idle"} /\ OthersStay(c)
  BY <1>2, LaunchEffect DEF CheckTask, CheckStrategy, Register
<1>4. /\ r \in Run /\ run'[r].task = t /\ run'[r].pc = "queued"
      /\ \A q \in Run \ {r} : run'[q] = run[q]
  BY <1>1, <1>2 DEF TypeOK, RunState, Unused
<1>5. registry[t].status = "running"
  BY <1>2 DEF WriterInv, CallWrites, AfterSave
<1>6. ASSUME NEW q \in Run PROVE RunnerWrites(q)'
  <2>1. CASE q = r
    BY <1>2, <1>4, <1>5, <2>1 DEF RunnerWrites, BeforeEnd
  <2>2. CASE q # r
    BY <1>2, <1>4, <2>2 DEF WriterInv, RunnerWrites
  <2>3. QED
    BY <2>1, <2>2
<1>7. ASSUME NEW d \in Client PROVE CallWrites(d)'
  BY <1>2, <1>3 DEF WriterInv, CallWrites, OthersStay, AfterSave
<1>8. QED
  BY <1>2, <1>4, <1>6, <1>7
     DEF WriterInv, StatesBounded

\* The steps of the calls.
LEMMA CallKeepsWriter ==
  ASSUME NoControl, IInv, WriterInv, NEW c \in Client,
         ClientStep(c) \/ ClientCall(c)
  PROVE  WriterInv' /\ [Lifecycle!Next]_registry
<1>t. /\ TypeOK /\ client[c].task \in Task /\ ClientOK(c) /\ CallWrites(c)
      /\ registry[client[c].task] \in Snapshot
  BY DEF IInv, TypeInv, TypeOK, ClientState, ClientInv, WriterInv
<1>1. ASSUME NEW t \in Task, StartTask(c, t)
      PROVE  WriterInv' /\ [Lifecycle!Next]_registry
  <2>1. /\ registry[t].status = "created"
        /\ registry' = [registry EXCEPT ![t] = Apply(registry[t], "start")]
        /\ UNCHANGED run
    BY <1>1 DEF StartTask, Save, ClientVars, Apply
  <2>2. client'[c].pc = "check_task" /\ client'[c].task = t /\ OthersStay(c)
    BY <1>1, <1>t, StartTaskEffect
  <2>3. \A r \in Run : run[r].pc # "unused" => run[r].task # t
    BY <2>1 DEF IInv, RunInv, RunOK
  <2>4. runtimes[t] = NoRun
    BY <2>3, <1>t DEF IInv, RuntimeInv, RuntimesOK, TypeOK
  <2>5. \A d \in Client \ {c} :
          client[d].pc \in BeforeSubmit => client[d].task # t
    BY <2>1, <2>4 DEF IInv, ClientInv, ClientOK, Starting, Restarting,
                      BeforeSubmit, AfterSave
  <2>6. /\ Can(registry[t], "start") /\ "start" \in TaskAction
        /\ "start" \in {"start", "restart"}
    BY <2>1 DEF Can, Source, TaskAction
  <2>7. \A r \in Run : Live(r) => run[r].task # t
    BY <2>3 DEF Live
  <2>8. QED
    BY <2>1, <2>2, <2>5, <2>6, <2>7, LaunchWriteKeepsWriter
<1>2. CASE RestartStore(c)
  <2> DEFINE t == client[c].task
  <2>1. /\ client[c].pc = "restart_store" /\ client[c].snap = registry[t]
        /\ Can(registry[t], "restart")
        /\ UNCHANGED run
    BY <1>2, <1>t DEF RestartStore, ClientVars, CallWrites, ClientOK
  <2>2. registry' = [registry EXCEPT ![t] = Apply(registry[t], "restart")]
    BY <1>2, <2>1 DEF RestartStore, Save, Apply
  <2>3. client'[c].pc = "check_task" /\ client'[c].task = t /\ OthersStay(c)
    BY <1>2, <1>t, RestartStoreEffect
  <2>4. \A r \in Run : Live(r) => run[r].task # t
    BY <2>1 DEF IInv, RuntimeInv, LaunchAlone, BeforeSubmit
  <2>5. \A d \in Client \ {c} : client[d].pc \in BeforeSubmit => client[d].task # t
    BY <2>1, <1>t DEF IInv, ClientInv, ClientOK, OneLauncher, Starting,
                      Restarting, BeforeSubmit, AfterSave
  <2>6. QED
    BY <2>1, <2>2, <2>3, <2>4, <2>5, <1>t, LaunchWriteKeepsWriter DEF TaskAction
<1>3. CASE Submit(c) /\ open
  BY <1>3, SubmitKeepsWriter DEF Submit
<1>4. CASE ControlStore(c) \/ ControlLoad(c)
  BY <1>4, <1>t DEF ControlStore, ControlLoad, CallWrites
<1>5. CASE \E t \in Task, op \in {"pause", "stop"} : Control(c, t, op)
  BY <1>5 DEF Control, NoControl
<1>6. CASE \/ CheckTask(c) \/ CheckStrategy(c) \/ (Submit(c) /\ ~open)
           \/ Register(c)
  <2>1. UNCHANGED <<registry, run>>
    BY <1>6 DEF CheckTask, CheckStrategy, Submit, Register, ClientVars
  <2>2. /\ OthersStay(c) /\ client'[c].pc \in
             {"check_strategy", "submit", "idle", "register"}
        /\ client'[c].pc \in AfterSave =>
             client[c].pc \in AfterSave /\ client'[c].task = client[c].task
    BY <1>6, <1>t, LaunchEffect DEF CheckTask, CheckStrategy, Submit, AfterSave
  <2>3. QED
    BY <2>1, <2>2, QuietCallKeepsWriter
<1>7. CASE \E t \in Task : RestartTask(c, t)
  <2>1. UNCHANGED <<registry, run>>
    BY <1>7 DEF RestartTask, ClientVars
  <2>2. OthersStay(c) /\ client'[c].pc \in {"reload", "await"}
    BY <1>7, <1>t, RestartTaskEffect
  <2>3. QED
    BY <2>1, <2>2, QuietCallKeepsWriter DEF AfterSave
<1>8. CASE \/ AwaitRun(c) \/ AwaitTimeout(c) \/ RestartLoad(c)
           \/ Shutdown(c) \/ CloseExecutor(c) \/ JoinExecutor(c)
  <2>1. UNCHANGED <<registry, run>>
    BY <1>8 DEF AwaitRun, AwaitTimeout, RestartLoad, Shutdown, CloseExecutor,
                JoinExecutor, ClientVars
  <2>2. /\ OthersStay(c)
        /\ client'[c].pc \in {"reload", "restart_store", "close", "join", "idle"}
        /\ client'[c].pc = "restart_store" =>
             client'[c].snap = registry[client'[c].task]
    BY <1>8, <1>t, AwaitEffect, RestartLoadEffect, ShutdownEffect
  <2>3. QED
    BY <2>1, <2>2, QuietCallKeepsWriter DEF AfterSave
<1>9. QED
  <2>1. CASE ClientStep(c)
    BY <1>2, <1>3, <1>4, <1>6, <1>8, <2>1 DEF ClientStep
  <2>2. CASE ClientCall(c)
    BY <1>1, <1>5, <1>7, <1>8, <2>2 DEF ClientCall
  <2>3. QED
    BY <2>1, <2>2

-----------------------------------------------------------------------------
\* The theorems.

LEMMA WriterInit == Init => WriterInv
<1> SUFFICES ASSUME Init PROVE WriterInv
  OBVIOUS
<1>1. \A t \in Task : registry[t].strategy_state <= MaxState
  BY ConstantsAssumption DEF Init, NewTask
<1>2. QED
  BY <1>1 DEF Init, WriterInv, RunnerWrites, BeforeEnd, CallWrites, IdleClient,
              StatesBounded, AfterSave

LEMMA WriterNext ==
  NoControl /\ IInv /\ WriterInv /\ [Next]_vars
    => WriterInv' /\ [Lifecycle!Next]_registry
<1> SUFFICES ASSUME NoControl, IInv, WriterInv, [Next]_vars
             PROVE  WriterInv' /\ [Lifecycle!Next]_registry
  OBVIOUS
<1>1. CASE UNCHANGED vars
  BY <1>1 DEF vars, WriterInv, RunnerWrites, CallWrites, StatesBounded
<1>2. QED
  BY <1>1, RunnerKeepsWriter, CallKeepsWriter DEF Next

\* Without pause() and stop() from other threads each thread writes the newest
\* copy of a task it read.
THEOREM SoleWriters == SoleRestarter /\ NoControl => (Spec => []WriterInv)
<1>1. ASSUME SoleRestarter, NoControl PROVE Spec => []WriterInv
  <2>1. IInv /\ WriterInv /\ [Next]_vars => WriterInv'
    BY <1>1, WriterNext
  <2>2. Spec => []IInv
    BY <1>1, Invariance
  <2>3. QED
    BY <2>1, <2>2, WriterInit, PTL DEF Spec
<1>2. QED
  BY <1>1

\* TaskExecution implements TaskLifecycle: every write of the registry is then
\* one allowed transition of the task as it is, or a newer strategy state of a
\* running one (management.py, runner_support.py).
THEOREM Refinement == SoleRestarter /\ NoControl => (Spec => LifecycleRefined)
<1>1. ASSUME SoleRestarter, NoControl PROVE Spec => LifecycleRefined
  <2>1. Init => Lifecycle!Init
    BY DEF Init, Lifecycle!Init, NewTask, Lifecycle!NewTask
  <2>2. IInv /\ WriterInv /\ [Next]_vars => [Lifecycle!Next]_registry
    BY <1>1, WriterNext
  <2>3. Spec => []IInv /\ []WriterInv
    BY <1>1, Invariance, SoleWriters
  <2>4. QED
    BY <2>1, <2>2, <2>3, PTL DEF Spec, LifecycleRefined, Lifecycle!Spec
<1>2. QED
  BY <1>1

-----------------------------------------------------------------------------
\* Nobody calls stop(): until a run comes to its last transition its task is
\* running or paused, whichever snapshot is written over which.

\* What a step of a runner keeps of that, and whom it tells.
RunnerActs(r) ==
  /\ RunnerActive(r)'
  /\ run'[r].pc \in BeforeEnd => run[r].pc \in BeforeEnd
  /\ notified \subseteq notified'
  /\ run'[r].pc = "done" =>
       \/ r \in raised' \cup notified' \/ run'[r].goal = "fail"
       \/ run'[r].snap.status \notin Terminal

\* A step after which the runner is not about to write or to return.
LEMMA StaysActive ==
  ASSUME TypeOK, NEW r \in Run, UNCHANGED <<registry, notified>>,
         run'[r].task = run[r].task,
         run'[r].pc \in (BeforeEnd \ {"store"}) \cup {"lc_load"},
         run[r].pc \in BeforeEnd,
         registry[run[r].task].status \in Active
  PROVE  RunnerActs(r)
BY DEF RunnerActs, RunnerActive, BeforeEnd

\* A step to a transition that is no pause.
LEMMA EndsActive ==
  ASSUME NEW r \in Run, notified \subseteq notified',
         run'[r].pc = "lc_load", run'[r].goal # "pause"
  PROVE  RunnerActs(r)
BY DEF RunnerActs, RunnerActive, BeforeEnd

\* Each step of a runner.
LEMMA RunnerStepActs ==
  ASSUME IInv, ActiveInv, NEW r \in Run, RunnerStep(r)
  PROVE  RunnerActs(r)
<1> DEFINE t == run[r].task
           Read == [run[r] EXCEPT !.snap = registry[t]]
<1>r. /\ TypeOK /\ run[r] \in RunState /\ t \in Task
      /\ run[r].snap \in Snapshot /\ registry[t] \in Snapshot
      /\ run[r].goal \in TaskAction /\ run[r].ctx \in Nat
  BY DEF IInv, TypeInv, TypeOK, RunState
<1>a. RunnerActive(r) /\ RunOK(r)
  BY DEF ActiveInv, IInv, RunInv
<1>p. run'[r].task = t
  BY RunnerStepPost DEF RunnerPost, IInv
<1>l. /\ Read \in RunState /\ Read.task = t /\ Read.snap = registry[t]
      /\ Read.goal = run[r].goal
  BY <1>r, RunLocals DEF RunState
<1>b. run[r].pc \in BeforeEnd => registry[t].status \in Active
  BY <1>a DEF RunnerActive
<1> HIDE DEF Read
<1>1. CASE Dequeue(r)
  <2>1. run'[r].pc = "boot" /\ UNCHANGED <<registry, notified>>
        /\ run[r].pc = "queued"
    BY <1>1, <1>r, GotoEffect DEF Dequeue, RunPC
  <2>2. QED
    BY <2>1, <1>r, <1>p, <1>b, StaysActive DEF BeforeEnd
<1>2. CASE EnsureLoad(r)
  <2>1. run[r].pc = "boot" /\ UNCHANGED <<registry, notified>>
    BY <1>2 DEF EnsureLoad
  <2>2. PICK pc \in {"announce", "boot_store", "done"} :
          Goto(r, pc, Read) /\ (pc = "done" => r \in raised')
    BY <1>2 DEF EnsureLoad, Read
  <2>3. run'[r].pc = pc
    BY <2>2, <1>l, <1>r, GotoEffect DEF RunPC
  <2>4. CASE pc = "done"
    BY <2>1, <2>2, <2>3, <2>4 DEF RunnerActs, RunnerActive, BeforeEnd
  <2>5. CASE pc # "done"
    BY <2>1, <2>3, <2>5, <1>r, <1>p, <1>b, StaysActive DEF BeforeEnd
  <2>6. QED
    BY <2>4, <2>5
<1>3. CASE EnsureStore(r)
  <2> DEFINE task == Start(run[r].snap)
  <2>1. task \in Snapshot /\ task.status = "running"
    BY <1>r, StartType
  <2>2. [run[r] EXCEPT !.snap = task] \in RunState
    BY <2>1, <1>r, RunLocals
  <2>3. /\ run[r].pc = "boot_store" /\ UNCHANGED notified
        /\ registry' = [registry EXCEPT ![t] = task]
        /\ Goto(r, "announce", [run[r] EXCEPT !.snap = task])
    BY <1>3 DEF EnsureStore, RunnerVars, Save
  <2> HIDE DEF task
  <2>4. run'[r].pc = "announce" /\ registry'[t].status = "running"
    BY <2>1, <2>2, <2>3, <1>r, GotoEffect DEF RunPC, TypeOK
  <2>5. QED
    BY <2>3, <2>4, <1>p DEF RunnerActs, RunnerActive, BeforeEnd, Active
<1>4. CASE Announce(r)
  <2>1. run[r].pc = "announce" /\ UNCHANGED <<registry, notified>>
    BY <1>4 DEF Announce
  <2>2. [run[r] EXCEPT !.ctx = run[r].snap.strategy_state, !.phase = "start"]
          \in RunState
    BY <1>r, RunLocals DEF RunState, Snapshot
  <2>3. \/ run'[r].pc = "call"
        \/ run'[r].pc = "done" /\ r \in raised'
    BY <1>4, <2>2, <1>r, GotoEffect DEF Announce, RunPC
  <2>4. CASE run'[r].pc = "call"
    BY <2>1, <2>4, <1>r, <1>p, <1>b, StaysActive DEF BeforeEnd
  <2>5. CASE run'[r].pc = "done" /\ r \in raised'
    BY <2>1, <2>5 DEF RunnerActs, RunnerActive, BeforeEnd
  <2>6. QED
    BY <2>3, <2>4, <2>5
<1>5. CASE Callback(r)
  <2>1. run[r].pc = "call" /\ UNCHANGED <<registry, notified>>
    BY <1>5 DEF Callback
  <2>2. \A state \in {run[r].ctx, run[r].ctx + 1} :
          [run[r] EXCEPT !.ctx = state] \in RunState
    <3>1. {run[r].ctx, run[r].ctx + 1} \subseteq Nat
      BY <1>r
    <3>2. QED
      BY <3>1, <1>r, RunLocals
  <2>3. run'[r].pc \in {"load", "lc_load"}
    BY <1>5, <2>2, <1>r, GotoEffect, BeginEffect DEF Callback, RunPC, TaskAction
  <2>4. QED
    BY <2>1, <2>3, <1>r, <1>p, <1>b, StaysActive DEF BeforeEnd
<1>6. CASE ContextLoad(r)
  <2>1. run[r].pc = "load" /\ UNCHANGED <<registry, notified>>
    BY <1>6 DEF ContextLoad
  <2>2. AfterStore(r, Read) \/ Goto(r, "store", Read)
    BY <1>6 DEF ContextLoad, Read
  <2>3. CASE AfterStore(r, Read)
    <3>1. run'[r].pc \in {"next", "lc_load"}
      BY <2>3, <1>l, <1>r, AfterStoreEffect
    <3>2. QED
      BY <2>1, <3>1, <1>r, <1>p, <1>b, StaysActive DEF BeforeEnd
  <2>4. CASE Goto(r, "store", Read)
    <3>1. run'[r].pc = "store" /\ run'[r].snap = registry[t]
      BY <2>4, <1>l, <1>r, GotoEffect DEF RunPC
    <3>2. QED
      BY <2>1, <3>1, <1>p, <1>b DEF RunnerActs, RunnerActive, BeforeEnd
  <2>5. QED
    BY <2>2, <2>3, <2>4
<1>7. CASE ContextStore(r)
  <2> DEFINE task == WithStrategyState(run[r].snap, run[r].ctx)
             l == [run[r] EXCEPT !.snap = task]
  <2>1. task \in Snapshot /\ task.status = run[r].snap.status
    BY <1>r DEF WithStrategyState, Snapshot
  <2>2. l \in RunState
    BY <2>1, <1>r, RunLocals
  <2>3. /\ run[r].pc = "store" /\ UNCHANGED notified
        /\ registry' = [registry EXCEPT ![t] = task]
        /\ AfterStore(r, l)
    BY <1>7 DEF ContextStore, RunnerVars, Save
  <2> HIDE DEF task, l
  <2>4. /\ \/ run'[r].pc = "next"
           \/ run'[r].pc = "lc_load" /\ run'[r].goal \in {"complete", "stop"}
        /\ registry'[t].status \in Active
    BY <2>1, <2>2, <2>3, <1>r, <1>a, AfterStoreEffect DEF TypeOK, RunnerActive
  <2>5. QED
    BY <2>3, <2>4, <1>p DEF RunnerActs, RunnerActive, BeforeEnd
<1>8. CASE NextTick(r)
  <2>1. PICK ticks \in Nat :
          ticks = IF Kind[t] = "backtest" THEN run[r].ticks - 1
                  ELSE run[r].ticks
    BY <1>8, <1>r DEF NextTick, RunState
  <2>2. [run[r] EXCEPT !.phase = "tick", !.ticks = ticks] \in RunState
    BY <1>r, RunLocals DEF RunState
  <2>3. run[r].pc = "next" /\ UNCHANGED <<registry, notified>>
    BY <1>8 DEF NextTick
  <2>4. run'[r].pc \in {"call", "lc_load"}
    BY <1>8, <2>1, <2>2, <1>r, GotoEffect, BeginEffect
       DEF NextTick, RunPC, TaskAction
  <2>5. QED
    BY <2>3, <2>4, <1>r, <1>p, <1>b, StaysActive DEF BeforeEnd
<1>9. CASE StreamEnd(r)
  <2>1. [run[r] EXCEPT !.phase = "stop"] \in RunState
    BY <1>r, RunLocals DEF RunState
  <2>2. /\ run[r].pc = "next" /\ UNCHANGED <<registry, notified>>
        /\ run'[r].pc = "call"
    BY <1>9, <2>1, <1>r, GotoEffect DEF StreamEnd, RunPC
  <2>3. QED
    BY <2>2, <1>r, <1>p, <1>b, StaysActive DEF BeforeEnd
<1>10. CASE LoopFault(r)
  <2>1. /\ run[r].pc = "next" /\ UNCHANGED <<registry, notified>>
        /\ run'[r].pc = "lc_load"
    BY <1>10, <1>r, BeginEffect DEF LoopFault, TaskAction
  <2>2. QED
    BY <2>1, <1>r, <1>p, <1>b, StaysActive DEF BeforeEnd
<1>11. CASE LifecycleLoad(r)
  <2>1. run[r].pc = "lc_load" /\ UNCHANGED <<registry, notified>>
    BY <1>11 DEF LifecycleLoad
  <2>2. PICK pc \in {"lc_store", "finish", "done"} :
          Goto(r, pc, Read) /\ (pc = "done" => run[r].goal = "pause")
    BY <1>11, <1>l DEF LifecycleLoad, AfterTransition, Read
  <2>3. run'[r].pc = pc /\ run'[r].snap = registry[t]
    BY <2>2, <1>l, <1>r, GotoEffect DEF RunPC
  <2>4. pc = "done" => registry[t].status \notin Terminal
    BY <2>1, <2>2, <1>a DEF RunnerActive, Active, Terminal
  <2>5. QED
    BY <2>1, <2>3, <2>4 DEF RunnerActs, RunnerActive, BeforeEnd
<1>12. CASE LifecycleStore(r)
  <2> DEFINE task == Apply(run[r].snap, run[r].goal)
             l == [run[r] EXCEPT !.snap = task]
  <2>1. task \in Snapshot /\ task.status = Target[run[r].goal]
    <3>1. run[r].pc = "lc_store"
      BY <1>12 DEF LifecycleStore
    <3>2. QED
      BY <3>1, <1>r, <1>a, ApplyType DEF RunOK
  <2>2. l \in RunState /\ l.goal = run[r].goal /\ l.snap = task
    <3> HIDE DEF task
    <3>1. QED
      BY <2>1, <1>r, RunLocals DEF RunState
  <2>3. UNCHANGED notified /\ Goto(r, "lc_publish", l)
    BY <1>12 DEF LifecycleStore, RunnerVars
  <2> HIDE DEF task, l
  <2>4. run'[r].pc = "lc_publish" /\ run'[r].goal = run[r].goal
        /\ run'[r].snap.status = Target[run[r].goal]
    BY <2>1, <2>2, <2>3, <1>r, GotoEffect DEF RunPC
  <2>5. QED
    BY <2>3, <2>4 DEF RunnerActs, RunnerActive, BeforeEnd, Target
<1>13. CASE LifecyclePublish(r)
  <2>1. run[r].pc = "lc_publish" /\ UNCHANGED notified
    BY <1>13 DEF LifecyclePublish
  <2>2. CASE Begin(r, "fail", run[r])
    BY <2>1, <2>2, <1>r, BeginEffect, EndsActive DEF TaskAction
  <2>3. CASE Goto(r, "finish", run[r])
    <3>1. run'[r].pc = "finish"
      BY <2>3, <1>r, GotoEffect DEF RunPC
    <3>2. QED
      BY <2>1, <3>1 DEF RunnerActs, RunnerActive, BeforeEnd
  <2>4. CASE Goto(r, "done", run[r]) /\ run[r].goal \in {"pause", "fail"}
    <3>1. run'[r].pc = "done" /\ run'[r].goal = run[r].goal
          /\ run'[r].snap = run[r].snap
      BY <2>4, <1>r, GotoEffect DEF RunPC
    <3>2. run[r].goal = "fail" \/ run[r].snap.status \notin Terminal
      BY <2>1, <2>4, <1>a DEF RunnerActive, Terminal
    <3>3. QED
      BY <2>1, <3>1, <3>2 DEF RunnerActs, RunnerActive, BeforeEnd
  <2>5. QED
    BY <1>13, <2>2, <2>3, <2>4 DEF LifecyclePublish, AfterTransition
<1>14. CASE Finish(r)
  <2>1. run[r].pc = "finish" /\ notified \subseteq notified'
    BY <1>14 DEF Finish
  <2>2. CASE Begin(r, "fail", run[r])
    BY <2>1, <2>2, <1>r, BeginEffect, EndsActive DEF TaskAction
  <2>3. CASE /\ Goto(r, "done", run[r])
             /\ \/ run[r].goal = "fail"
                \/ r \in notified' \/ run[r].snap.status \notin Terminal
    <3>1. run'[r].pc = "done" /\ run'[r].goal = run[r].goal
          /\ run'[r].snap = run[r].snap
      BY <2>3, <1>r, GotoEffect DEF RunPC
    <3>2. QED
      BY <2>1, <2>3, <3>1 DEF RunnerActs, RunnerActive, BeforeEnd
  <2>4. QED
    BY <1>14, <2>2, <2>3 DEF Finish
<1>15. QED
  BY <1>1, <1>2, <1>3, <1>4, <1>5, <1>6, <1>7, <1>8, <1>9, <1>10, <1>11,
     <1>12, <1>13, <1>14 DEF RunnerStep

\* A runner's step: the task it writes is nobody else's to run or to launch.
LEMMA RunnerKeepsActive ==
  ASSUME IInv, ActiveInv, NEW r \in Run, RunnerStep(r)
  PROVE  ActiveInv'
<1>1. RunnerActs(r) /\ RunnerPost(r)
  BY RunnerStepActs, RunnerStepPost DEF IInv
<1>2. TypeOK /\ OneRunnerPerTask
  BY OneRunner DEF IInv, TypeInv
<1>3. ASSUME NEW q \in Run PROVE RunnerActive(q)'
  <2>1. CASE q = r
    BY <1>1, <2>1 DEF RunnerActs
  <2>2. CASE q # r /\ ~Live(q)
    BY <1>1, <2>2 DEF RunnerPost, Live, RunnerActive, BeforeEnd
  <2>3. CASE q # r /\ Live(q)
    <3>1. run'[q] = run[q] /\ run[q].task \in Task /\ run[q].task # run[r].task
      BY <1>1, <1>2, <2>3 DEF RunnerPost, OneRunnerPerTask, TypeOK, RunState
    <3>2. registry'[run[q].task] = registry[run[q].task]
      BY <1>1, <3>1 DEF RunnerPost
    <3>3. QED
      BY <3>1, <3>2 DEF ActiveInv, RunnerActive
  <2>4. QED
    BY <2>1, <2>2, <2>3
<1>4. ASSUME NEW c \in Client PROVE CallActive(c)'
  <2>1. CallActive(c) /\ client' = client /\ client[c].task \in Task
    BY <1>1, <1>2 DEF ActiveInv, RunnerPost, TypeOK, ClientState
  <2>2. client[c].pc \in AfterSave => client[c].task # run[r].task
    BY <1>1 DEF IInv, RuntimeInv, LaunchAlone, RunnerPost, BeforeSubmit
  <2>3. QED
    BY <1>1, <2>1, <2>2 DEF CallActive, RunnerPost
<1>5. FinishObserved'
  <2> SUFFICES ASSUME NEW q \in Run, q \notin raised', run'[q].pc = "done",
                      run'[q].goal # "fail", run'[q].snap.status \in Terminal
               PROVE  q \in notified'
    BY DEF FinishObserved, Done
  <2>1. CASE q = r
    BY <1>1, <2>1 DEF RunnerActs
  <2>2. CASE q # r
    BY <1>1, <2>2 DEF ActiveInv, FinishObserved, Done, RunnerPost, RunnerActs
  <2>3. QED
    BY <2>1, <2>2
<1>6. QED
  BY <1>3, <1>4, <1>5 DEF ActiveInv

\* A call that starts no run and makes no task inactive.
LEMMA QuietCallKeepsActive ==
  ASSUME ActiveInv, TypeOK, NEW c \in Client, OthersStay(c),
         UNCHANGED <<raised, notified>>,
         \A r \in Run : run'[r] = run[r],
         \A t \in Task : registry[t].status \in Active =>
                           registry'[t].status \in Active,
         CallActive(c)'
  PROVE  ActiveInv'
<1>1. ASSUME NEW d \in Client PROVE CallActive(d)'
  BY DEF ActiveInv, CallActive, OthersStay, TypeOK, ClientState
<1>2. ASSUME NEW r \in Run PROVE RunnerActive(r)'
  BY DEF ActiveInv, RunnerActive, TypeOK, RunState
<1>3. QED
  BY <1>1, <1>2 DEF ActiveInv, FinishObserved, Done

\* start(), restart() and pause() save a task that is then active.
LEMMA WriteKeepsActive ==
  ASSUME ActiveInv, TypeOK, NEW c \in Client, OthersStay(c),
         UNCHANGED <<run, raised, notified>>, NEW t \in Task,
         NEW task \in Snapshot, task.status \in Active,
         registry' = [registry EXCEPT ![t] = task],
         client'[c].pc # "idle" => client'[c].op \in Ops[c],
         client'[c].pc \in AfterSave => client'[c].task = t
  PROVE  ActiveInv'
<1>1. /\ registry'[t] = task
      /\ \A u \in Task \ {t} : registry'[u] = registry[u]
  BY DEF TypeOK
<1>2. QED
  BY <1>1, QuietCallKeepsActive DEF CallActive

\* The executor takes a run for an active task.
LEMMA SubmitKeepsActive ==
  ASSUME IInv, ActiveInv, NEW c \in Client, Submit(c), open
  PROVE  ActiveInv'
<1> DEFINE t == client[c].task
<1>1. PICK r \in Unused :
        run' = [run EXCEPT ![r] = [@ EXCEPT !.task = t, !.pc = "queued",
                                            !.ticks = MaxTicks]]
  BY DEF Submit
<1>2. /\ TypeOK /\ t \in Task /\ client[c].pc = "submit"
      /\ UNCHANGED <<registry, raised, notified>>
  BY DEF IInv, TypeInv, TypeOK, ClientState, Submit
<1>3. /\ client'[c].pc \in {"register", "idle"} /\ OthersStay(c)
      /\ client'[c].pc = "register" => client'[c].op = client[c].op
  BY <1>2, LaunchEffect DEF CheckTask, CheckStrategy, Register
<1>4. /\ r \in Run /\ run'[r].task = t /\ run'[r].pc = "queued"
      /\ \A q \in Run \ {r} : run'[q] = run[q]
  BY <1>1, <1>2 DEF TypeOK, RunState, Unused
<1>5. CallActive(c)
  BY DEF ActiveInv
<1>6. ASSUME NEW q \in Run PROVE RunnerActive(q)'
  <2>1. CASE q = r
    BY <1>2, <1>4, <1>5, <2>1 DEF RunnerActive, CallActive, AfterSave
  <2>2. CASE q # r
    BY <1>2, <1>4, <2>2 DEF ActiveInv, RunnerActive
  <2>3. QED
    BY <2>1, <2>2
<1>7. ASSUME NEW d \in Client PROVE CallActive(d)'
  BY <1>2, <1>3 DEF ActiveInv, CallActive, OthersStay, AfterSave
<1>8. QED
  BY <1>2, <1>4, <1>6, <1>7 DEF ActiveInv, FinishObserved, Done

\* The steps of the calls.
LEMMA CallKeepsActive ==
  ASSUME NoStop, IInv, ActiveInv, NEW c \in Client,
         ClientStep(c) \/ ClientCall(c)
  PROVE  ActiveInv'
<1>t. /\ TypeOK /\ client[c].task \in Task /\ client[c].snap \in Snapshot
      /\ CallActive(c) /\ ClientOK(c)
  BY DEF IInv, TypeInv, TypeOK, ClientState, ActiveInv, ClientInv
<1>1. ASSUME NEW t \in Task, StartTask(c, t) PROVE ActiveInv'
  <2>1. /\ registry' = [registry EXCEPT ![t] = Start(registry[t])]
        /\ UNCHANGED <<run, raised, notified>> /\ "start" \in Ops[c]
    BY <1>1 DEF StartTask, Save, ClientVars
  <2>2. Start(registry[t]) \in Snapshot /\ Start(registry[t]).status \in Active
    BY <1>t, StartType DEF TypeOK, Active
  <2>3. QED
    BY <1>1, <1>t, <2>1, <2>2, StartTaskEffect, WriteKeepsActive
<1>2. CASE RestartStore(c)
  <2> DEFINE task == Restart(client[c].snap)
  <2>1. /\ registry' = [registry EXCEPT ![client[c].task] = task]
        /\ UNCHANGED <<run, raised, notified>> /\ client[c].op \in Ops[c]
    BY <1>2, <1>t DEF RestartStore, Save, ClientVars, CallActive
  <2>2. task \in Snapshot /\ task.status \in Active
    BY <1>t, RestartType DEF Active
  <2> HIDE DEF task
  <2>3. QED
    BY <1>2, <1>t, <2>1, <2>2, RestartStoreEffect, WriteKeepsActive
<1>3. CASE ControlStore(c)
  <2> DEFINE task == Apply(client[c].snap, client[c].op)
  <2>1. /\ registry' = [registry EXCEPT ![client[c].task] = task]
        /\ UNCHANGED <<run, raised, notified>> /\ Return(c)
        /\ client[c].pc = "ctl_store"
    BY <1>3 DEF ControlStore, Save, ClientVars
  <2>2. client[c].op = "pause"
    BY <1>t, <2>1 DEF IInv, TypeInv, ControlOp, CallActive, NoStop
  <2>3. task \in Snapshot /\ task.status \in Active
    BY <1>t, <2>1, <2>2, ApplyType DEF ClientOK, TaskAction, Target, Active
  <2> HIDE DEF task
  <2>4. QED
    BY <1>t, <2>1, <2>3, AfterReturn, WriteKeepsActive
       DEF OthersStay, AfterSave
<1>4. CASE Submit(c) /\ open
  BY <1>4, SubmitKeepsActive
<1> DEFINE Quiet == /\ UNCHANGED <<registry, run, raised, notified>>
                    /\ OthersStay(c) /\ CallActive(c)'
<1>5. Quiet => ActiveInv'
  BY <1>t, QuietCallKeepsActive
<1>6. CASE \/ CheckTask(c) \/ CheckStrategy(c) \/ (Submit(c) /\ ~open)
           \/ Register(c)
  <2>1. UNCHANGED <<registry, run, raised, notified>>
    BY <1>6 DEF CheckTask, CheckStrategy, Submit, Register, ClientVars
  <2>2. /\ OthersStay(c)
        /\ client'[c].pc # "idle" =>
             /\ client[c].pc \in AfterSave /\ client'[c].task = client[c].task
             /\ client'[c].op = client[c].op
    BY <1>6, <1>t, LaunchEffect DEF CheckTask, CheckStrategy, Submit, AfterSave
  <2>3. CallActive(c)'
    BY <1>t, <2>1, <2>2 DEF CallActive, AfterSave
  <2>4. QED
    BY <1>5, <2>1, <2>2, <2>3
<1>7. CASE ControlLoad(c)
  <2>1. UNCHANGED <<registry, run, raised, notified>> /\ client[c].pc # "idle"
    BY <1>7 DEF ControlLoad, ClientVars
  <2>2. OthersStay(c) /\ CallActive(c)'
    BY <1>7, <1>t, <2>1, ControlLoadEffect DEF CallActive, AfterSave
  <2>3. QED
    BY <1>5, <2>1, <2>2
<1>8. ASSUME NEW t \in Task, NEW op \in {"pause", "stop"}, Control(c, t, op)
      PROVE  ActiveInv'
  <2>1. UNCHANGED <<registry, run, raised, notified>> /\ op \in Ops[c]
    BY <1>8 DEF Control, ClientVars
  <2>2. OthersStay(c) /\ CallActive(c)'
    BY <1>8, <1>t, <2>1, ControlEffect DEF CallActive, AfterSave
  <2>3. QED
    BY <1>5, <2>1, <2>2
<1>9. ASSUME NEW t \in Task, RestartTask(c, t) PROVE ActiveInv'
  <2>1. UNCHANGED <<registry, run, raised, notified>> /\ "restart" \in Ops[c]
    BY <1>9 DEF RestartTask, ClientVars
  <2>2. OthersStay(c) /\ CallActive(c)'
    BY <1>9, <1>t, <2>1, RestartTaskEffect DEF CallActive, AfterSave
  <2>3. QED
    BY <1>5, <2>1, <2>2
<1>10. CASE AwaitRun(c) \/ AwaitTimeout(c) \/ RestartLoad(c)
  <2>1. UNCHANGED <<registry, run, raised, notified>> /\ client[c].pc # "idle"
    BY <1>10 DEF AwaitRun, AwaitTimeout, RestartLoad, ClientVars
  <2>2. OthersStay(c) /\ CallActive(c)'
    BY <1>10, <1>t, <2>1, AwaitEffect, RestartLoadEffect
       DEF CallActive, AfterSave
  <2>3. QED
    BY <1>5, <2>1, <2>2
<1>11. CASE Shutdown(c) \/ CloseExecutor(c) \/ JoinExecutor(c)
  <2>1. /\ UNCHANGED <<registry, run, raised, notified>>
        /\ Shutdown(c) => "shutdown" \in Ops[c]
        /\ CloseExecutor(c) => client[c].pc # "idle"
    BY <1>11 DEF Shutdown, CloseExecutor, JoinExecutor, ClientVars
  <2>2. OthersStay(c) /\ CallActive(c)'
    BY <1>11, <1>t, <2>1, ShutdownEffect DEF CallActive, AfterSave
  <2>3. QED
    BY <1>5, <2>1, <2>2
<1>12. QED
  BY <1>1, <1>2, <1>3, <1>4, <1>6, <1>7, <1>8, <1>9, <1>10, <1>11
     DEF ClientStep, ClientCall

LEMMA ActiveNext == NoStop /\ IInv /\ ActiveInv /\ [Next]_vars => ActiveInv'
<1> SUFFICES ASSUME NoStop, IInv, ActiveInv, [Next]_vars PROVE ActiveInv'
  OBVIOUS
<1>1. CASE UNCHANGED vars
  BY <1>1 DEF vars, ActiveInv, RunnerActive, CallActive, FinishObserved, Done
<1>2. QED
  BY <1>1, RunnerKeepsActive, CallKeepsActive DEF Next

\* When no other thread calls stop(), a task counts as used for as long as its
\* run drives the strategy: also when a pause is written over a newer snapshot,
\* or the context save writes the paused task back (management.py:32-64,
\* runner_support.py:89-105).
THEOREM ActiveWhileDriven == SoleRestarter /\ NoStop => (Spec => []ActiveInv)
<1>1. ASSUME SoleRestarter, NoStop PROVE Spec => []ActiveInv
  <2>1. Init => ActiveInv
    BY DEF Init, ActiveInv, RunnerActive, CallActive, FinishObserved, Done,
           BeforeEnd, AfterSave, IdleClient
  <2>2. IInv /\ ActiveInv /\ [Next]_vars => ActiveInv'
    BY <1>1, ActiveNext
  <2>3. Spec => []IInv
    BY <1>1, Invariance
  <2>4. QED
    BY <2>1, <2>2, <2>3, PTL DEF Spec
<1>2. QED
  BY <1>1

\* The observers of a run that ended without a fault and left its task terminal
\* were told (runner.py:357-363): when no other thread calls stop(), no pause
\* makes the runner return by the way that tells nobody.
THEOREM FinishObservedHolds ==
  SoleRestarter /\ NoStop => (Spec => []FinishObserved)
<1>1. ActiveInv => FinishObserved
  BY DEF ActiveInv
<1>2. QED
  BY <1>1, ActiveWhileDriven, PTL

-----------------------------------------------------------------------------
\* One thread launches: a strategy object has one runner.

\* A call other than the check and the submission moves no strategy.
LEMMA OtherCallKeepsStrategy ==
  ASSUME StrategyInv, NEW c \in Client, OthersStay(c), UNCHANGED run,
         client'[c].pc # "submit"
  PROVE  StrategyInv'
BY DEF StrategyInv, OthersStay

\* The call that found the strategy free.
LEMMA CheckKeepsStrategy ==
  ASSUME SoleLauncher, IInv, ActiveInv, StrategyInv, NEW c \in Client,
         CheckStrategy(c), client'[c].pc = "submit"
  PROVE  StrategyInv'
<1> DEFINE t == client[c].task
<1>1. /\ TypeOK /\ t \in Task /\ client[c].pc = "check_strategy"
      /\ UNCHANGED <<run, runtimes, registry>>
  BY DEF IInv, TypeInv, TypeOK, ClientState, CheckStrategy, ClientVars
<1>2. OthersStay(c) /\ client'[c].op = client[c].op /\ client'[c].task = t
  BY <1>1, LaunchEffect DEF CheckTask, Register, Submit, IdleClient
<1>3. ~UsedByAnother(t)
  <2>1. SUFFICES ASSUME Reject(c) PROVE FALSE
    BY DEF CheckStrategy
  <2>2. QED
    BY <1>1, <2>1, AfterReturn DEF Reject
<1>4. ASSUME NEW r \in Run, run[r].pc \in BeforeEnd,
             StrategyOf[run[r].task] = StrategyOf[t]
      PROVE  FALSE
  <2> DEFINE u == run[r].task
  <2>1. /\ Live(r) /\ u \in Task /\ registry[u].status \in Active
        /\ r # NoRun
    BY <1>1, <1>4, ConstantsAssumption
       DEF Live, BeforeEnd, ActiveInv, RunnerActive, TypeOK, RunState
  <2>2. u # t
    BY <1>1, <2>1 DEF IInv, RuntimeInv, LaunchAlone, BeforeSubmit, AfterSave
  <2>3. runtimes[u] # r
    BY <1>3, <1>4, <2>1, <2>2 DEF UsedByAnother, Done, Live
  <2>4. PICK d \in Client : Pending(d, r)
    BY <2>1, <2>3 DEF IInv, RuntimeInv, LiveKnown
  <2>5. /\ client[c].op \in {"start", "restart"} /\ client[c].op \in Ops[c]
        /\ client[d].op \in {"start", "restart"} /\ client[d].op \in Ops[d]
    BY <1>1, <2>4
       DEF IInv, ClientInv, ClientOK, AfterSave, Pending, ActiveInv, CallActive
  <2>6. c = d
    BY <2>5 DEF SoleLauncher
  <2>7. QED
    BY <1>1, <2>4, <2>6 DEF Pending
<1>5. QED
  BY <1>1, <1>2, <1>4 DEF StrategyInv, OthersStay

\* The run of a launch is the first of its strategy.
LEMMA SubmitKeepsStrategy ==
  ASSUME SoleLauncher, IInv, ActiveInv, StrategyInv,
         NEW c \in Client, Submit(c), open
  PROVE  StrategyInv'
<1> DEFINE t == client[c].task
<1>1. PICK r \in Unused :
        /\ run' = [run EXCEPT ![r] = [@ EXCEPT !.task = t, !.pc = "queued",
                                               !.ticks = MaxTicks]]
        /\ ClientGoto(c, "register", [client[c] EXCEPT !.run = r])
  BY DEF Submit
<1>2. TypeOK /\ t \in Task /\ client[c].pc = "submit"
  BY DEF IInv, TypeInv, TypeOK, ClientState, Submit
<1>3. /\ r \in Run /\ run'[r].task = t /\ run'[r].pc = "queued"
      /\ \A q \in Run \ {r} : run'[q] = run[q]
  BY <1>1, <1>2 DEF TypeOK, RunState, Unused
<1>4. /\ client'[c].pc \in {"register", "idle"} /\ OthersStay(c)
      /\ client'[c].pc = "register" => client'[c].op = client[c].op
  BY <1>2, LaunchEffect DEF CheckTask, CheckStrategy, Register
<1>5. /\ client[c].op \in Ops[c] /\ client[c].op \in {"start", "restart"}
      /\ \A q \in Run : run[q].pc \in BeforeEnd =>
           StrategyOf[run[q].task] # StrategyOf[t]
  BY <1>2
     DEF StrategyInv, ActiveInv, CallActive, IInv, ClientInv, ClientOK, AfterSave
<1>6. \A d \in Client : client[d].pc = "submit" => d = c
  <2> SUFFICES ASSUME NEW d \in Client, client[d].pc = "submit" PROVE d = c
    OBVIOUS
  <2>1. client[d].op \in Ops[d] /\ client[d].op \in {"start", "restart"}
    BY DEF ActiveInv, CallActive, IInv, ClientInv, ClientOK, AfterSave
  <2>2. QED
    BY <1>5, <2>1 DEF SoleLauncher
<1>7. \A r1, r2 \in Run :
        /\ run'[r1].pc \in BeforeEnd /\ run'[r2].pc \in BeforeEnd
        /\ StrategyOf[run'[r1].task] = StrategyOf[run'[r2].task]
        => r1 = r2
  BY <1>3, <1>5 DEF StrategyInv
<1>8. QED
  BY <1>4, <1>5, <1>6, <1>7 DEF StrategyInv, OthersStay

LEMMA StrategyNext ==
  SoleLauncher /\ IInv /\ ActiveInv /\ StrategyInv /\ [Next]_vars
    => StrategyInv'
<1> SUFFICES ASSUME SoleLauncher, IInv, ActiveInv, StrategyInv,
                    [Next]_vars
             PROVE  StrategyInv'
  OBVIOUS
<1>t. TypeOK
  BY DEF IInv, TypeInv
<1>1. ASSUME NEW r \in Run, RunnerStep(r) PROVE StrategyInv'
  <2>1. RunnerActs(r) /\ RunnerPost(r)
    BY <1>1, RunnerStepActs, RunnerStepPost DEF IInv
  <2>2. \A q \in Run : /\ run'[q].task = run[q].task
                       /\ run'[q].pc \in BeforeEnd => run[q].pc \in BeforeEnd
    BY <2>1 DEF RunnerActs, RunnerPost
  <2>3. QED
    BY <2>1, <2>2 DEF StrategyInv, RunnerPost
<1>2. ASSUME NEW c \in Client, ClientStep(c) \/ ClientCall(c)
      PROVE  StrategyInv'
  <2>1. CASE CheckStrategy(c)
    <3>1. UNCHANGED run /\ OthersStay(c) /\ client'[c].pc \in {"submit", "idle"}
      BY <1>t, <2>1, LaunchEffect DEF CheckStrategy, ClientVars, Register, Submit,
         CheckTask
    <3>2. QED
      BY <2>1, <3>1, CheckKeepsStrategy, OtherCallKeepsStrategy
  <2>2. CASE Submit(c) /\ open
    BY <2>2, SubmitKeepsStrategy
  <2>3. CASE Submit(c) /\ ~open
    <3>1. UNCHANGED run /\ OthersStay(c) /\ client'[c].pc = "idle"
      BY <1>t, <2>3, AfterReturn DEF Submit, Reject, OthersStay
    <3>2. QED
      BY <3>1, OtherCallKeepsStrategy
  <2>4. CASE CheckTask(c) \/ Register(c)
    BY <1>t, <2>4, LaunchEffect, OtherCallKeepsStrategy
       DEF CheckTask, Register, CheckStrategy, Submit, ClientVars
  <2>5. CASE ControlLoad(c) \/ ControlStore(c)
    <3>1. /\ UNCHANGED run /\ OthersStay(c)
          /\ client'[c].pc \in {"ctl_store", "idle"}
      BY <1>t, <2>5, ControlLoadEffect, AfterReturn
         DEF ControlLoad, ControlStore, OthersStay, ClientVars
    <3>2. QED
      BY <3>1, OtherCallKeepsStrategy
  <2>6. CASE \E t \in Task, op \in {"pause", "stop"} : Control(c, t, op)
    BY <1>t, <2>6, ControlEffect, OtherCallKeepsStrategy DEF Control, ClientVars
  <2>7. CASE AwaitRun(c) \/ AwaitTimeout(c) \/ RestartLoad(c) \/ RestartStore(c)
    <3>1. UNCHANGED run /\ OthersStay(c) /\ client'[c].pc # "submit"
      BY <1>t, <2>7, AwaitEffect, RestartLoadEffect, RestartStoreEffect
         DEF AwaitRun, AwaitTimeout, RestartLoad, RestartStore, ClientVars
    <3>2. QED
      BY <3>1, OtherCallKeepsStrategy
  <2>8. CASE \E t \in Task : StartTask(c, t) \/ RestartTask(c, t)
    BY <1>t, <2>8, StartTaskEffect, RestartTaskEffect, OtherCallKeepsStrategy
       DEF StartTask, RestartTask, ClientVars
  <2>9. CASE Shutdown(c) \/ CloseExecutor(c) \/ JoinExecutor(c)
    BY <1>t, <2>9, ShutdownEffect, OtherCallKeepsStrategy
       DEF Shutdown, CloseExecutor, JoinExecutor, ClientVars
  <2>10. QED
    BY <1>2, <2>1, <2>2, <2>3, <2>4, <2>5, <2>6, <2>7, <2>8, <2>9
       DEF ClientStep, ClientCall
<1>3. CASE UNCHANGED vars
  BY <1>3 DEF vars, StrategyInv
<1>4. QED
  BY <1>1, <1>2, <1>3 DEF Next

\* Tasks that share a strategy object: when one thread launches and no thread
\* calls stop(), no two runs drive the object at a time (management.py:116-139).
\* The check before a launch sees every other run that drives it or will, one
\* that is queued and one whose task was paused meanwhile too.  With a second
\* launching thread, or after a stop(), the code does not keep it.
THEOREM SoloStrategyHolds ==
  SoleLauncher /\ NoStop => (Spec => []SoloStrategy)
<1>1. ASSUME SoleLauncher, NoStop PROVE Spec => []SoloStrategy
  <2>1. SoleRestarter
    BY <1>1 DEF SoleLauncher, SoleRestarter
  <2>2. Init => StrategyInv
    BY DEF Init, StrategyInv, BeforeEnd, IdleClient
  <2>3. IInv /\ ActiveInv /\ StrategyInv /\ [Next]_vars => StrategyInv'
    BY <1>1, StrategyNext
  <2>4. Spec => []IInv /\ []ActiveInv
    BY <1>1, <2>1, Invariance, ActiveWhileDriven
  <2>5. StrategyInv => SoloStrategy
    BY DEF StrategyInv, SoloStrategy, Driving, BeforeEnd
  <2>6. QED
    BY <2>2, <2>3, <2>4, <2>5, PTL DEF Spec
<1>2. QED
  BY <1>1
=============================================================================
