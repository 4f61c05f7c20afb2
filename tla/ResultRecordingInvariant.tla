----------------------- MODULE ResultRecordingInvariant -----------------------
(* The inductive invariant of ResultRecording. *)
EXTENDS ResultRecording

\* Where the call that holds the lock is going.
Stage == {call.pc, call.then}

\* The call knows what its later steps need, a call that measures or ends a run
\* is the runner's of that run, and a metric about to be saved is for the tick
\* the runner is at.
CallInv ==
  /\ call.pc = "free" => call = Free
  /\ call.pc \notin {"save", "flush"} => call.todo = {} /\ call.then = call.pc
  /\ Stage \cap {"ledger", "report"} # {} => call.event \in Event
  /\ "report" \in Stage => ledger[TradeOf[call.event]] # None
  /\ Stage \cap {"mark", "final", "cleanup"} # {} => call.by \in Task
  /\ "mark" \in Stage => run[call.by] = "running"
  /\ \A r \in call.todo : r.key[1] = "metric" =>
       "mark" \in Stage /\ r.key[2] = <<call.by, runs[call.by], now[call.by]>>

\* The flush goes through the stores in their order and stops at the first that
\* refuses: those before call.at have nothing left.
BacklogInv ==
  /\ \A s \in Store : Len(buffer[s]) <= count
  /\ call.pc = "flush" => \A s \in 1..(call.at - 1) : buffer[s] = <<>>
  /\ call.pc # "flush" /\ failed = {} => count < FlushEvery

Measured(t, n, x) == memory[<<"metric", <<t, n, x>>>>] # None

\* The runner of t is recording a metric.
Measuring(t) == call.by = t /\ "mark" \in Stage

\* The metrics of a run that goes on are not later than its last tick, nor,
\* unless one is being recorded, than the time remembered for the task; one
\* that is being recorded is an interval away from them.
MetricInv ==
  \A t \in Task, n \in 0..MaxRuns, x \in Time : Measured(t, n, x) =>
    /\ n <= runs[t]
    /\ n = runs[t] /\ run[t] = "running" =>
         /\ x <= now[t]
         /\ Measuring(t) => x = now[t] \/ now[t] - x >= Interval
         /\ ~Measuring(t) => last[t] # None /\ x <= last[t]

\* What makes the properties inductive.
Support == CallInv /\ BacklogInv /\ MetricInv

IInv == TypeOK /\ StoresFollow /\ MetricsSpaced /\ Support

-----------------------------------------------------------------------------
\* The end of a task.

\* The keys on_task_finished writes for t and no other task does.
OfTask(k, t) ==
  \/ k = <<"task", t>>
  \/ k[1] = "trade" /\ TaskOf[k[2]] = t
  \/ k[1] = "cycle" /\ \E tr \in Trade : CycleOf[tr] = k[2] /\ TaskOf[tr] = t

\* The call is on_task_finished.
Ending == Stage \cap {"final", "cleanup"} # {}

\* A call of a runner saves what is its task's; the task stays in its phase
\* until the call returns or raises, and a fill reaches the ledger first.
OwnerInv ==
  /\ \A t \in Task : run[t] = "finishing" <=> Ending /\ call.by = t
  /\ call.by # None => run[call.by] \in {"running", "failing", "finishing"}
  /\ \A r \in call.todo, t \in Task : OfTask(r.key, t) => call.by = t
  /\ call.event # None =>
       /\ call.by = TaskOf[TradeOf[call.event]] /\ run[call.by] = "running"
       /\ "ledger" \in Stage \/ ledger[TradeOf[call.event]] # None

\* on_task_finished has saved, or is still to save, what it set out with; its
\* last flush leaves no buffer filled.
EndingInv ==
  /\ Ending =>
       /\ call.todo \subseteq FinalRecs(call.by)
       /\ \A r \in FinalRecs(call.by) \ call.todo : memory[r.key] = r.val
  /\ "cleanup" \in Stage => call.todo = {}
  /\ call.pc = "cleanup" => \A s \in Store : buffer[s] = <<>>

\* Nothing of a finished task is buffered.
NothingBuffered ==
  \A t \in Task : run[t] = "finished" =>
    \A s \in Store : \A i \in 1..Len(buffer[s]) : ~OfTask(buffer[s][i].key, t)

\* A trade with a fill whose handler returned is known, in the ledger or, after
\* a clean-up, in memory.
KeptKnown == \A e \in kept : Summary(TradeOf[e]) # None

\* What makes FinishedStored and FillsCounted inductive.
FinishInv ==
  /\ OwnerInv /\ EndingInv /\ NothingBuffered /\ KeptKnown
  /\ FinishedStored /\ FillsCounted
=============================================================================
