---------------------------- MODULE WaitProgress ----------------------------
(* TaskManager.wait beside the run it waits for: TaskWaiter polls the future   *)
(* of the run and shows TaskProgressService's snapshots in the bar of a        *)
(* TqdmProgressReporter, while the run moves its clock and ends, and another   *)
(* thread may start the task again.  Time is what is left of it: seconds to    *)
(* the deadline of the wait and to the end of a poll.                          *)
EXTENDS Integers

CONSTANTS
  None,
  Totals,     \* units of the period of a backtest, None for a trading task
  Clocks,     \* times of the runner's clock, in units since the start
  Timeouts, Refreshes,  \* timeout and refresh_seconds of a wait
  MaxWaits    \* bound: waits of one reporter

ASSUME WaitAssumption ==
  /\ None \notin Int
  /\ Totals \subseteq (Nat \ {0}) \cup {None}  \* a period starts before it ends
  /\ Clocks \subseteq Int /\ 0 \in Clocks
  /\ Timeouts \subseteq Nat \cup {None} /\ Refreshes \subseteq Nat
  /\ MaxWaits \in Nat

VARIABLES
  total,    \* total_units of the task
  task,     \* status of the task in the registry
  future,   \* the future waited for: "running", "returned", "raised", or
            \* "timeout" when the run raised a TimeoutError itself
  again,    \* "no", "saved" when the task was saved for a restart, "yes" when
            \* TaskRuntimeRegistry holds the runtime of the new run
  clock,    \* what the clock of the task's runtime shows
  pc,       \* where wait is
  left,     \* deadline, None without one
  refresh,  \* refresh_seconds
  poll,     \* what is left of poll_seconds
  shows,    \* whether there is a reporter
  bar,      \* units the bar shows, None without one
  units,    \* TqdmProgressReporter._completed_units
  result,   \* the task wait is going to return
  outcome,  \* how the wait ended
  opened, finished, closed,  \* history of the wait: on_start and on_finish
            \* returned, close was called
  waits

run == <<total, task, future, again, clock>>
reporter == <<bar, units, opened, finished, closed>>
asked == <<refresh, shows, waits>>
vars == <<run, pc, left, poll, result, outcome, reporter, asked>>

Ended == {"completed", "stopped", "failed", "paused"}

Init ==
  /\ total \in Totals
  /\ task = "running" /\ future = "running" /\ again = "no" /\ clock = 0
  /\ pc = "idle" /\ left = None /\ refresh = 1 /\ poll = 0 /\ shows = FALSE
  /\ bar = None /\ units = 0 /\ result = "none" /\ outcome = "none"
  /\ opened = FALSE /\ finished = FALSE /\ closed = FALSE /\ waits = 0

-----------------------------------------------------------------------------
\* The run and the other callers of the manager.

Lives == future = "running" \/ again = "yes"

\* The runner sets the clock to a tick's time; ticks need not be in order.
MoveClock ==
  /\ Lives /\ clock' \in Clocks
  /\ UNCHANGED <<total, task, future, again, pc, left, poll, result, outcome, reporter, asked>>

\* The runner, or a control request, stores a final status.  A completed
\* backtest has set its clock to its end.
StoreEnd ==
  /\ Lives /\ task = "running"
  /\ task' \in Ended /\ (total = None => task' # "completed")
  /\ clock' = IF task' = "completed" THEN total ELSE clock
  /\ UNCHANGED <<total, future, again, pc, left, poll, result, outcome, reporter, asked>>

\* The runner returns; or it raises, when the registry does.
EndRun ==
  /\ future = "running"
  /\ \/ task \in Ended /\ future' = "returned"
     \/ future' \in {"raised", "timeout"}
  /\ UNCHANGED <<total, task, again, clock, pc, left, poll, result, outcome, reporter, asked>>

\* restart() or start() when the run has ended: the task is saved as running,
\* then launched with a fresh clock.
Restart ==
  /\ future # "running"
  /\ \/ again = "no" /\ task \in Ended /\ again' = "saved" /\ task' = "running"
        /\ UNCHANGED clock
     \/ again = "saved" /\ again' = "yes" /\ clock' = 0 /\ UNCHANGED task
  /\ UNCHANGED <<total, future, pc, left, poll, result, outcome, reporter, asked>>

PassTime ==
  /\ pc \in {"result", "start", "check", "decide", "poll", "update", "read", "finish"}
  /\ left \notin {None, 0} \/ poll > 0
  /\ left' = IF left \in {None, 0} THEN left ELSE left - 1
  /\ poll' = IF poll = 0 THEN 0 ELSE poll - 1
  /\ UNCHANGED <<run, pc, result, outcome, reporter, asked>>

-----------------------------------------------------------------------------
\* Snapshots and the reporter.

\* completed_units of the snapshot taken now.
Completed ==
  IF total = None THEN None
  ELSE LET current == IF task = "completed" THEN total ELSE clock
       IN IF current < 0 THEN 0 ELSE IF current > total THEN total ELSE current

\* Mutants of Shown: the bar follows the snapshot wherever it goes; a snapshot
\* without units is taken for one with units.
ShownAsIs(u) == IF Completed = None THEN u ELSE Completed
ShownUnknown(u) == IF Completed # None /\ Completed < u THEN u ELSE Completed

\* What _completed_units becomes of u.
Shown(u) == IF Completed = None \/ Completed < u THEN u ELSE Completed

OnStart ==
  IF bar # None THEN UNCHANGED <<bar, units>>
  ELSE units' = Shown(0) /\ bar' = units'
OnUpdate ==
  IF bar = None THEN OnStart
  ELSE units' = Shown(units) /\ bar' = bar + (units' - units)
OnFinish == units' = Shown(units) /\ bar' = None

-----------------------------------------------------------------------------
\* wait.

\* The runtime waited for is the current one.
StartWait ==
  /\ pc \in {"idle", "over"} /\ waits < MaxWaits /\ waits' = waits + 1
  /\ shows' \in BOOLEAN /\ left' \in Timeouts /\ refresh' \in Refreshes
  /\ future' = IF again = "yes" THEN "running" ELSE future
  /\ again' = IF again = "yes" THEN "no" ELSE again
  /\ IF shows' /\ refresh' = 0 THEN pc' = "over" /\ outcome' = "refused"
     ELSE pc' = (IF shows' THEN "start" ELSE "result") /\ outcome' = "none"
  /\ poll' = 0 /\ result' = "none"
  /\ opened' = FALSE /\ finished' = FALSE /\ closed' = FALSE
  /\ UNCHANGED <<total, task, clock, bar, units>>

\* future.result() without a reporter.
AwaitResult ==
  /\ pc = "result"
  /\ \/ future = "returned" /\ pc' = "read" /\ UNCHANGED outcome
     \/ future \in {"raised", "timeout"} /\ pc' = "over" /\ outcome' = future
     \/ future = "running" /\ left = 0 /\ pc' = "over" /\ outcome' = "timeout"
  /\ UNCHANGED <<run, left, poll, result, reporter, asked>>

\* on_start is called before the try: when it raises nothing is closed.
ShowStart ==
  /\ pc = "start"
  /\ \/ OnStart /\ opened' = TRUE /\ pc' = "check" /\ UNCHANGED outcome
     \/ /\ OnStart \/ UNCHANGED <<bar, units>>
        /\ pc' = "over" /\ outcome' = "raised" /\ UNCHANGED opened
  /\ UNCHANGED <<run, left, poll, result, finished, closed, asked>>

\* An exception leaves the try: the reporter is closed.
Abort(end) == pc' = "over" /\ outcome' = end /\ closed' = TRUE /\ bar' = None

CheckDone ==
  /\ pc = "check"
  /\ \/ future = "running" /\ pc' = "decide" /\ UNCHANGED <<outcome, bar, closed>>
     \/ future = "returned" /\ pc' = "read" /\ UNCHANGED <<outcome, bar, closed>>
     \/ future \in {"raised", "timeout"} /\ Abort(future)
  /\ UNCHANGED <<run, left, poll, result, units, opened, finished, asked>>

\* Mutant of DecidePoll: the deadline does not end the wait.
DecidePollForever ==
  /\ pc = "decide" /\ pc' = "poll" /\ poll' = refresh
  /\ UNCHANGED <<run, left, result, outcome, reporter, asked>>

DecidePoll ==
  /\ pc = "decide"
  /\ IF left = 0 THEN Abort("timeout") /\ UNCHANGED poll
     ELSE /\ pc' = "poll" /\ UNCHANGED <<outcome, bar, closed>>
          /\ poll' = IF left = None \/ refresh < left THEN refresh ELSE left
  /\ UNCHANGED <<run, left, result, units, opened, finished, asked>>

\* Mutant of Poll: a poll that ended is taken for a run that returned.
PollHasty ==
  /\ pc = "poll"
  /\ \/ future = "raised" /\ Abort("raised")
     \/ (future = "returned" \/ poll = 0) /\ pc' = "read" /\ UNCHANGED <<outcome, bar, closed>>
  /\ UNCHANGED <<run, left, poll, result, units, opened, finished, asked>>

\* A run that raised a TimeoutError looks like a poll that ended.
Poll ==
  /\ pc = "poll"
  /\ \/ future = "returned" /\ pc' = "read" /\ UNCHANGED <<outcome, bar, closed>>
     \/ future = "raised" /\ Abort("raised")
     \/ /\ future = "timeout" \/ (future = "running" /\ poll = 0)
        /\ pc' = "update" /\ UNCHANGED <<outcome, bar, closed>>
  /\ UNCHANGED <<run, left, poll, result, units, opened, finished, asked>>

ShowUpdate ==
  /\ pc = "update"
  /\ \/ OnUpdate /\ pc' = "check" /\ UNCHANGED <<outcome, closed>>
     \/ Abort("raised") /\ UNCHANGED units
  /\ UNCHANGED <<run, left, poll, result, opened, finished, asked>>

\* registry.get for the task to return, or it raises.
ReadTask ==
  /\ pc = "read"
  /\ \/ /\ result' = task
        /\ IF shows THEN pc' = "finish" /\ UNCHANGED outcome
           ELSE pc' = "over" /\ outcome' = "returned"
        /\ UNCHANGED <<bar, closed>>
     \/ /\ UNCHANGED result
        /\ IF shows THEN Abort("raised")
           ELSE pc' = "over" /\ outcome' = "raised" /\ UNCHANGED <<bar, closed>>
  /\ UNCHANGED <<run, left, poll, units, opened, finished, asked>>

\* Mutant of ShowFinish: finished is not remembered, and the finally closes.
ShowFinishClose ==
  /\ pc = "finish" /\ OnFinish /\ finished' = TRUE /\ closed' = TRUE
  /\ pc' = "over" /\ outcome' = "returned"
  /\ UNCHANGED <<run, left, poll, result, opened, asked>>

ShowFinish ==
  /\ pc = "finish"
  /\ \/ /\ OnFinish /\ finished' = TRUE /\ UNCHANGED closed
        /\ pc' = "over" /\ outcome' = "returned"
     \/ Abort("raised") /\ UNCHANGED <<units, finished>>
  /\ UNCHANGED <<run, left, poll, result, opened, asked>>

Runner == MoveClock \/ StoreEnd \/ EndRun
Waiter ==
  \/ AwaitResult \/ ShowStart \/ CheckDone \/ DecidePoll \/ Poll \/ ShowUpdate
  \/ ReadTask \/ ShowFinish
Next == Runner \/ Restart \/ PassTime \/ StartWait \/ Waiter
Spec == Init /\ [][Next]_vars

\* Time passes and the waiting thread runs; nothing is asked of the run.
FairSpec == Spec /\ WF_vars(PassTime) /\ WF_vars(Waiter)

-----------------------------------------------------------------------------
\* Properties.

\* The variables keep their types.
TypeOK ==
  /\ total \in Totals /\ task \in Ended \cup {"running"}
  /\ future \in {"running", "returned", "raised", "timeout"}
  /\ again \in {"no", "saved", "yes"} /\ clock \in Int
  /\ pc \in {"idle", "result", "start", "check", "decide", "poll", "update", "read",
             "finish", "over"}
  /\ left \in Nat \cup {None} /\ poll \in Nat /\ refresh \in Nat
  /\ bar \in Nat \cup {None} /\ units \in Nat
  /\ result \in Ended \cup {"none", "running"}
  /\ outcome \in {"none", "returned", "raised", "timeout", "refused"}
  /\ shows \in BOOLEAN /\ opened \in BOOLEAN /\ finished \in BOOLEAN
  /\ closed \in BOOLEAN /\ waits \in Nat

\* A reporter that was started is told the end exactly once, by on_finish when
\* the wait returns the task and by close in every other case (an exception of
\* the run, the deadline, a callback or the registry that raises): the bar is
\* never left open and never closed twice.
EndToldOnce ==
  /\ finished => pc = "over" /\ outcome = "returned" /\ ~closed
  /\ closed => pc = "over" /\ outcome # "returned"
  /\ pc = "over" /\ opened => (finished \/ closed) /\ bar = None

\* The wait tells the truth about the run: a task is returned once its run has
\* returned, its status is final unless another thread has restarted the task
\* meanwhile, and a time-out means the deadline has passed unless the run
\* itself raised it.
AnswersTruly ==
  /\ outcome = "returned" /\ again = "no" => future = "returned" /\ result \in Ended
  /\ outcome = "timeout" => left = 0 \/ future = "timeout"

\* A bar only moves forward and never past the period, also when ticks go back
\* in time, when the clock is outside the period, and when a restart starts the
\* clock over while the bar still shows the first run.
BarMovesForward ==
  [][bar' # None => /\ bar # None => bar <= bar'
                    /\ total # None => bar' <= total]_vars

\* A wait with a deadline ends, and every wait ends once its run has, however
\* the run behaves: polls, updates and late time-outs do not keep it.
WaitEnds ==
  pc \notin {"idle", "over"} /\ (left # None \/ future # "running") ~> pc = "over"
=============================================================================
