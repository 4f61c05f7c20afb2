------------------------ MODULE TaskExecutionInvariant ------------------------
(***************************************************************************)
(* The inductive strengthening of the safety invariants of TaskExecution.  *)
(***************************************************************************)
EXTENDS TaskExecution

\* Only one application thread calls restart().  Without it two calls may
\* each find the old run done and submit a new one.
SoleRestarter ==
  \A c, d \in Client : "restart" \in Ops[c] /\ "restart" \in Ops[d] => c = d

\* A call that is about to write a pause or a stop is a pause or a stop.
ControlOp ==
  \A c \in Client : client[c].pc \in {"ctl_load", "ctl_store"} =>
    client[c].op \in {"pause", "stop"}

TypeInv == TypeOK /\ ControlOp

AfterSave == {"check_task", "check_strategy", "submit"}
BeforeSubmit == {"reload", "restart_store"} \cup AfterSave
Starting(c) ==
  client[c].op = "start" /\ client[c].pc \in AfterSave \cup {"register"}
Restarting(c) == client[c].op = "restart" /\ client[c].pc # "idle"

\* What a call in progress knows about the task it works on.
ClientOK(c) ==
  /\ client[c].pc \in {"await", "reload", "restart_store"} =>
       client[c].op = "restart"
  /\ client[c].pc \in AfterSave \cup {"register"} =>
       client[c].op \in {"start", "restart"}
  /\ client[c].pc \in {"close", "join"} => client[c].op = "shutdown"
  /\ client[c].pc = "ctl_store" => Can(client[c].snap, client[c].op)
  /\ client[c].pc = "restart_store" => Can(client[c].snap, "restart")
  /\ Starting(c) => /\ runtimes[client[c].task] = NoRun
                    /\ registry[client[c].task].status # "created"
  /\ Restarting(c) => /\ "restart" \in Ops[c]
                      /\ runtimes[client[c].task] # NoRun
  /\ client[c].pc = "await" => client[c].run = runtimes[client[c].task]

ClientInv == \A c \in Client : ClientOK(c)

\* No two calls launch the same task.
OneLauncher ==
  \A c, d \in Client :
    /\ Starting(c) \/ Restarting(c)
    /\ Starting(d) \/ Restarting(d)
    /\ client[c].task = client[d].task
    => c = d

\* The run call c is about to register.
Pending(c, r) ==
  /\ client[c].pc = "register"
  /\ client[c].run = r
  /\ client[c].task = run[r].task

\* The runtime of a task is a run of the task; a live run is the runtime of its
\* task or about to be; a launch finds the task without a live run, and leaves
\* it with no other than its own.
RuntimesOK == \A t \in Task : runtimes[t] # NoRun =>
                run[runtimes[t]].task = t /\ run[runtimes[t]].pc # "unused"
LiveKnown == \A r \in Run : Live(r) =>
               runtimes[run[r].task] = r \/ \E c \in Client : Pending(c, r)
LaunchAlone == \A c \in Client : client[c].pc \in BeforeSubmit =>
                 \A r \in Run : Live(r) => run[r].task # client[c].task
RegisterOwn == \A c \in Client : client[c].pc = "register" =>
                 /\ client[c].run \in Run
                 /\ run[client[c].run].task = client[c].task
                 /\ run[client[c].run].pc # "unused"
                 /\ \A r \in Run : Live(r) /\ run[r].task = client[c].task =>
                      r = client[c].run
RuntimeInv == RuntimesOK /\ LiveKnown /\ LaunchAlone /\ RegisterOwn

\* What a runner knows about the task it runs and the snapshot it read.
RunOK(r) ==
  /\ run[r].pc # "unused" => registry[run[r].task].status # "created"
  /\ run[r].pc \in {"lc_load", "lc_store", "lc_publish", "finish"} =>
       run[r].goal \in {"pause", "stop", "complete", "fail"}
  /\ run[r].pc = "boot_store" => Can(run[r].snap, "start")
  /\ run[r].pc = "lc_store" => Can(run[r].snap, run[r].goal)
  /\ run[r].pc = "store" => run[r].snap.status # "created"
  /\ run[r].pc = "announce" /\ registry[run[r].task].status = "running" =>
       run[r].snap = registry[run[r].task]
  /\ run[r].pc \in {"lc_publish", "finish"} =>
       registry[run[r].task].status # "running"
  /\ r \in raised => run[r].pc = "done"

RunInv == \A r \in Run : RunOK(r)

\* The snapshots the threads hold are as good as those of the registry.
LocalsConsistent ==
  /\ \A r \in Run : Consistent(run[r].snap)
  /\ \A c \in Client : Consistent(client[c].snap)

IInv == /\ TypeInv
        /\ ClientInv /\ OneLauncher /\ RuntimeInv /\ RunInv
        /\ SnapshotsConsistent /\ LocalsConsistent /\ RunningHasRunner

-----------------------------------------------------------------------------
\* Without pause() and stop() from other threads.

\* No application thread calls pause() or stop(): what a runner read of its task
\* is what it overwrites.
NoControl == \A c \in Client : Ops[c] \cap {"pause", "stop"} = {}

\* A run that has not come to its last transition.
BeforeEnd == {"queued", "boot", "boot_store", "announce", "call", "load",
              "store", "next"}

\* A task is running until its runner ends it, and the copy the runner is about
\* to write over is the newest; its context is not older than the stored one.
RunnerWrites(r) ==
  LET task == registry[run[r].task]
  IN  /\ run[r].pc \in BeforeEnd => task.status = "running"
      /\ run[r].pc # "boot_store"
      /\ run[r].pc \in {"call", "load", "store", "next"} =>
           run[r].ctx \in task.strategy_state .. MaxState
      /\ run[r].pc = "store" =>
           run[r].snap = task /\ run[r].ctx # task.strategy_state
      /\ run[r].pc = "lc_store" => run[r].snap = task

\* So is the one restart() is about to write over, and a task that is being
\* launched is running.
CallWrites(c) ==
  /\ client[c].pc \notin {"ctl_load", "ctl_store"}
  /\ client[c].pc = "restart_store" =>
       client[c].snap = registry[client[c].task]
  /\ client[c].pc \in AfterSave => registry[client[c].task].status = "running"

StatesBounded == \A t \in Task : registry[t].strategy_state <= MaxState

WriterInv == /\ \A r \in Run : RunnerWrites(r)
             /\ \A c \in Client : CallWrites(c)
             /\ StatesBounded

-----------------------------------------------------------------------------
\* Without stop() from other threads; pause() may write over a newer snapshot.

\* No application thread calls stop(): only the runner of a task ends it.
NoStop == \A c \in Client : "stop" \notin Ops[c]

\* One application thread at most launches.
SoleLauncher ==
  \A c, d \in Client :
    Ops[c] \cap {"start", "restart"} # {} /\ Ops[d] \cap {"start", "restart"} # {}
      => c = d

\* Until its runner ends it a task counts as used, whatever is written over it,
\* and a paused runner returns a paused task.
RunnerActive(r) ==
  /\ run[r].pc \in BeforeEnd => registry[run[r].task].status \in Active
  /\ run[r].pc = "store" => run[r].snap.status \in Active
  /\ run[r].pc = "lc_load" /\ run[r].goal = "pause" =>
       registry[run[r].task].status \in Active
  /\ run[r].pc = "lc_publish" /\ run[r].goal = "pause" =>
       run[r].snap.status = "paused"

\* So does one that is being launched.
CallActive(c) ==
  /\ client[c].pc # "idle" => client[c].op \in Ops[c]
  /\ client[c].pc \in AfterSave => registry[client[c].task].status \in Active

ActiveInv == /\ \A r \in Run : RunnerActive(r)
             /\ \A c \in Client : CallActive(c)
             /\ FinishObserved

\* The runners that drive a strategy object or will, and the call that found
\* it free.
StrategyInv ==
  /\ \A r1, r2 \in Run :
       /\ run[r1].pc \in BeforeEnd /\ run[r2].pc \in BeforeEnd
       /\ StrategyOf[run[r1].task] = StrategyOf[run[r2].task]
       => r1 = r2
  /\ \A c \in Client : client[c].pc = "submit" =>
       \A r \in Run : run[r].pc \in BeforeEnd =>
         StrategyOf[run[r].task] # StrategyOf[client[c].task]
=============================================================================
