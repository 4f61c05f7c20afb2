---------------------------- MODULE TaskLifecycle ----------------------------
(***************************************************************************)
(* What a task registry promises, without threads: every write applies one *)
(* allowed transition of core/tasks/state.py to the task as it is at that  *)
(* moment, or stores a newer strategy state of the running task.           *)
(***************************************************************************)
EXTENDS ExecutableTask

CONSTANTS Task,      \* the tasks of the registry
          MaxState   \* versions of a strategy state are 0 .. MaxState

VARIABLE registry

TypeOK == registry \in [Task -> Snapshot]

Init == registry = [t \in Task |-> NewTask]

Transition(t, action) ==
  /\ Can(registry[t], action)
  /\ registry' = [registry EXCEPT ![t] = Apply(@, action)]

\* TaskContextStore.save on a task nobody else is writing.
SaveState(t, state) ==
  /\ registry[t].status = "running"
  /\ state > registry[t].strategy_state
  /\ registry' = [registry EXCEPT ![t] = WithStrategyState(@, state)]

Next == \E t \in Task :
          \/ \E action \in TaskAction : Transition(t, action)
          \/ \E state \in 0..MaxState : SaveState(t, state)

Spec == Init /\ [][Next]_registry
=============================================================================
