---------------------------- MODULE ExecutableTask ----------------------------
(***************************************************************************)
(* The immutable task snapshot of core/tasks/execution.py and the          *)
(* lifecycle table of core/tasks/state.py.  A snapshot is a record; every  *)
(* operator below is a pure function from a snapshot to the snapshot that  *)
(* `evolve` returns.  A timestamp field is the BOOLEAN "has a value": the  *)
(* code never compares two of them.  strategy_state is the version number  *)
(* of the payload, 0 being the empty StrategyState().                      *)
(***************************************************************************)
EXTENDS Naturals

TaskStatus == {"created", "starting", "running", "paused", "idle", "draining",
               "stopping", "stopped", "completed", "failed"}

TaskAction == {"start", "pause", "stop", "restart", "complete", "fail"}

\* The statuses an action may be applied to, and the one it leads to: the
\* table of TaskStateMachine.default read by action (every action has one
\* target in it).
Source == [start    |-> {"created", "starting", "paused", "idle"},
           pause    |-> {"running"},
           stop     |-> {"starting", "running", "paused", "idle", "draining",
                         "stopping"},
           restart  |-> {"created", "paused", "stopped", "completed", "failed"},
           complete |-> {"running"},
           fail     |-> TaskStatus \ {"failed"}]

Target == [start |-> "running", pause |-> "paused", stop |-> "stopped",
           restart |-> "running", complete |-> "completed", fail |-> "failed"]

Terminal == {"stopped", "completed", "failed"}

\* TaskRuntimeRegistry.is_active_task.
Active == {"starting", "running", "paused"}

Snapshot == [status : TaskStatus, run_count : Nat, strategy_state : Nat,
             started_at : BOOLEAN, paused_at : BOOLEAN, stopped_at : BOOLEAN,
             completed_at : BOOLEAN, failure : BOOLEAN]

\* ExecutableTask.from_definition.
NewTask == [status |-> "created", run_count |-> 0, strategy_state |-> 0,
            started_at |-> FALSE, paused_at |-> FALSE, stopped_at |-> FALSE,
            completed_at |-> FALSE, failure |-> FALSE]

Can(task, action) == task.status \in Source[action]

\* start() is also the resume of a paused task: same run, same started_at.
Start(task) ==
  [task EXCEPT !.status = Target["start"],
               !.started_at = TRUE,
               !.paused_at = FALSE, !.stopped_at = FALSE,
               !.completed_at = FALSE, !.failure = FALSE,
               !.run_count = IF task.status = "paused" THEN @ ELSE @ + 1]

Pause(task) == [task EXCEPT !.status = Target["pause"], !.paused_at = TRUE]

\* Mutant of Stop: the pause time stays.
StopKeepsPause(task) ==
  [task EXCEPT !.status = Target["stop"], !.stopped_at = TRUE]

Stop(task) == [task EXCEPT !.status = Target["stop"],
                           !.paused_at = FALSE, !.stopped_at = TRUE]

Restart(task) ==
  [task EXCEPT !.status = Target["restart"],
               !.started_at = TRUE,
               !.paused_at = FALSE, !.stopped_at = FALSE,
               !.completed_at = FALSE, !.failure = FALSE,
               !.run_count = @ + 1, !.strategy_state = 0]

Complete(task) == [task EXCEPT !.status = Target["complete"],
                               !.paused_at = FALSE, !.completed_at = TRUE]

\* A task failed after it completed keeps its completed_at.
Fail(task) == [task EXCEPT !.status = Target["fail"], !.paused_at = FALSE,
                           !.stopped_at = TRUE, !.failure = TRUE]

WithStrategyState(task, state) == [task EXCEPT !.strategy_state = state]

Apply(task, action) ==
  CASE action = "start"    -> Start(task)
    [] action = "pause"    -> Pause(task)
    [] action = "stop"     -> Stop(task)
    [] action = "restart"  -> Restart(task)
    [] action = "complete" -> Complete(task)
    [] action = "fail"     -> Fail(task)

\* What the fields of one snapshot say together, for every snapshot reached
\* from NewTask through allowed actions; four statuses are never reached.
Consistent(task) ==
  /\ task.status \notin {"starting", "idle", "draining", "stopping"}
  /\ task.paused_at <=> task.status = "paused"
  /\ task.failure <=> task.status = "failed"
  /\ task.status = "stopped" => task.stopped_at /\ ~task.completed_at
  /\ task.status = "completed" => task.completed_at /\ ~task.stopped_at
  /\ task.status \in {"running", "paused"} =>
       /\ task.started_at
       /\ ~task.stopped_at /\ ~task.completed_at
  /\ task.started_at <=> task.run_count > 0
=============================================================================
