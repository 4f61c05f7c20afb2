--------------------------- MODULE ResultRecording ---------------------------
(* The result recorder (src/core/results): strategy events and ticks become   *)
(* event records, trade, cycle and task summaries and metrics, kept in memory *)
(* and written through one buffer per external store.  Every call holds the   *)
(* recorder's lock from its first step to its last; a store may refuse a      *)
(* batch, and the exception ends the call where it stands.                    *)
EXTENDS Integers, Sequences

CONSTANTS
  Task, Trade, Cycle, Event,  \* logical trades and strategy events of the tasks
  TaskOf, CycleOf, TradeOf,   \* Trade -> Task, Trade -> Cycle or None, Event -> Trade
  Action,                     \* Event -> "open" or "close"
  None,
  Stores,                     \* kinds of the external stores, in their order
  FlushEvery,                 \* flush_every
  Interval,                   \* metric_interval, 0 for none
  Cleanup,                    \* cleanup_finished_tasks
  Rewinds,                    \* tasks whose source starts over: the backtests
  MaxRuns, MaxTime            \* bounds of the runs of a task and of its time

Store == 1..Len(Stores)
Time == 0..MaxTime
Metric == Task \X (0..MaxRuns) \X Time

\* The key a store identifies a record by, and what the record says.  Realized
\* profit is the set of close events it was taken from, a count is the set of
\* what is counted.
Key == ({"event"} \X Event) \cup ({"trade"} \X Trade) \cup
       ({"cycle"} \X Cycle) \cup ({"task"} \X Task) \cup ({"metric"} \X Metric)
TradeSummary == [opened : Event \cup {None}, closed : Event \cup {None}]
Seen == [seen |-> TRUE]
Totals == [trades : SUBSET Trade, open : SUBSET Trade, realized : SUBSET Event]
Value == {Seen} \cup TradeSummary \cup Totals

ASSUME ConstantsAssumption ==
  /\ TaskOf \in [Trade -> Task] /\ TradeOf \in [Event -> Trade]
  /\ CycleOf \in [Trade -> Cycle \cup {None}]
  /\ \A x, y \in Trade : CycleOf[x] = CycleOf[y] /\ CycleOf[x] # None
                           => TaskOf[x] = TaskOf[y]
  /\ Action \in [Event -> {"open", "close"}]
  /\ None \notin Task \cup Trade \cup Cycle \cup Event \cup Time
  /\ Stores \in Seq({"sql", "csv"}) /\ Stores # <<>>
  /\ None \notin Value
  /\ FlushEvery \in Nat \ {0} /\ Interval \in Nat /\ Cleanup \in BOOLEAN
  /\ Rewinds \subseteq Task /\ MaxRuns \in Nat /\ MaxTime \in Nat

\* A record says what its kind of key says.
Says(k, v) ==
  \/ k[1] = "event" /\ v = Seen
  \/ k[1] = "trade" /\ v \in TradeSummary
  \/ k[1] \in {"cycle", "task", "metric"} /\ v \in Totals
Rec == {r \in [key : Key, val : Value] : Says(r.key, r.val)}

\* The order a batch is written in, kind by kind.
Rank == [event |-> 1, trade |-> 2, cycle |-> 3, task |-> 4, metric |-> 5]

VARIABLES
  memory,  \* InMemoryResultStore: the latest record of each key
  view,    \* per external store, what a reader finds under each key
  buffer,  \* per external store, ResultBatchBuffer
  count,   \* pending_count
  ledger,  \* TradeLedger.trades
  last,    \* last_metric_at
  now,     \* time of the last tick of a task
  run,     \* where the run of a task is
  runs,    \* runs of a task so far
  call,    \* the call that holds the lock
  failed,  \* history: stores that refused the last batch they were given
  kept     \* history: filled events whose handler returned

vars == <<memory, view, buffer, count, ledger, last, now, run, runs, call,
          failed, kept>>
disk == <<view, failed>>
book == <<ledger, last, kept>>
task == <<now, run, runs>>

Free == [pc |-> "free", by |-> None, todo |-> {}, then |-> "free",
         event |-> None, at |-> 1]

\* A call of runner by, or of another thread, that saves todo.
Saving(by, todo, then, event) ==
  [pc |-> "save", by |-> by, todo |-> todo, then |-> then, event |-> event,
   at |-> 1]

Init ==
  /\ memory = [k \in Key |-> None]
  /\ view = [s \in Store |-> memory]
  /\ buffer = [s \in Store |-> <<>>]
  /\ count = 0
  /\ ledger = [tr \in Trade |-> None]
  /\ last = [t \in Task |-> None] /\ now = [t \in Task |-> 0]
  /\ run = [t \in Task |-> "idle"] /\ runs = [t \in Task |-> 0]
  /\ call = Free /\ failed = {} /\ kept = {}

-----------------------------------------------------------------------------
\* Summaries.

\* The latest summary of a trade, from the ledger before memory.
Summary(tr) == IF ledger[tr] # None THEN ledger[tr] ELSE memory[<<"trade", tr>>]

InLedger(t) == {tr \in Trade : TaskOf[tr] = t /\ ledger[tr] # None}

\* Mutant of Known: only the trades the ledger has.
KnownLive(t) == InLedger(t)

Known(t) == {tr \in Trade : TaskOf[tr] = t /\ Summary(tr) # None}

Total(trades) ==
  [trades |-> trades,
   open |-> {tr \in trades : Summary(tr).closed = None},
   realized |-> {Summary(tr).closed : tr \in trades} \ {None}]

CycleRec(c, t) ==
  [key |-> <<"cycle", c>>,
   val |-> Total({tr \in InLedger(t) : CycleOf[tr] = c})]
TradeRec(tr) == [key |-> <<"trade", tr>>, val |-> Summary(tr)]

\* What on_task_finished writes: every trade known of the task, every cycle,
\* those only memory knows as they are, and the task.
LedgerCycles(t) == {CycleOf[tr] : tr \in InLedger(t)} \ {None}
MemoryCycles(t) ==
  {c \in Cycle : /\ memory[<<"cycle", c>>] # None
                 /\ \E tr \in Trade : CycleOf[tr] = c /\ TaskOf[tr] = t}
FinalRecs(t) ==
  {TradeRec(tr) : tr \in Known(t)} \cup
  {CycleRec(c, t) : c \in LedgerCycles(t)} \cup
  {[key |-> <<"cycle", c>>, val |-> memory[<<"cycle", c>>]] :
     c \in MemoryCycles(t) \ LedgerCycles(t)} \cup
  {[key |-> <<"task", t>>, val |-> Total(Known(t))]}

-----------------------------------------------------------------------------
\* The call that holds the lock.

\* What call c does when it has nothing to save or flush for the moment.
Continue(c) ==
  IF c.todo # {} THEN [c EXCEPT !.pc = "save"]
  ELSE IF c.then = "free" THEN Free
  ELSE [c EXCEPT !.pc = c.then]

\* An exception leaves the call: the run of the caller fails, and a run that
\* was ending already dies; a thread that is no runner goes on.
Raise ==
  /\ call' = Free
  /\ run' = IF call.by = None THEN run
            ELSE [run EXCEPT ![call.by] =
                    IF @ = "running" THEN "failing" ELSE "dead"]

\* Call c goes on, or returns to its caller.
Proceed(c) ==
  /\ call' = Continue(c)
  /\ kept' = IF Continue(c) = Free /\ c.event # None THEN kept \cup {c.event}
             ELSE kept

\* ResultRecorderWriter.event, trade, cycle, task, metric: one record goes to
\* memory and to every buffer, and fills the batch; a full batch is flushed.
Save ==
  /\ call.pc = "save"
  /\ \E r \in call.todo :
       /\ \A q \in call.todo : Rank[r.key[1]] <= Rank[q.key[1]]
       /\ memory' = [memory EXCEPT ![r.key] = r.val]
       /\ buffer' = [s \in Store |-> Append(buffer[s], r)]
       /\ count' = count + 1
       /\ LET c == [call EXCEPT !.todo = @ \ {r}]
          IN IF count + 1 >= FlushEvery
             THEN /\ call' = [c EXCEPT !.pc = "flush", !.at = 1]
                  /\ UNCHANGED kept
             ELSE Proceed(c)
  /\ UNCHANGED <<disk, ledger, last, task>>

\* The records at positions I of batch q, written over what a store shows.
Written(q, I, v) ==
  [k \in Key |->
     IF \E i \in I : q[i].key = k
     THEN q[CHOOSE i \in I : /\ q[i].key = k
                             /\ \A j \in I : q[j].key = k => j <= i].val
     ELSE v[k]]

\* The rows of q a CSV store has appended when it stops at a row of a kind.
Appended(q, kind, row) ==
  {i \in 1..Len(q) : \/ Rank[q[i].key[1]] < kind
                     \/ Rank[q[i].key[1]] = kind /\ i <= row}

\* What a batch that is refused leaves behind; a SQL store rolls back.
Landed(s) ==
  IF Stores[s] = "sql" THEN {{}}
  ELSE {Appended(buffer[s], kind, row) :
          kind \in 1..5, row \in 0..Len(buffer[s])}

\* Mutant of Flushed: the count starts again for the first store that is done.
FlushedEarly ==
  /\ count' = 0
  /\ IF call.at < Len(Stores)
     THEN call' = [call EXCEPT !.at = @ + 1] /\ UNCHANGED kept
     ELSE Proceed(call)

\* The flush has done with store call.at: the next, or its end.
Flushed ==
  IF call.at < Len(Stores)
  THEN call' = [call EXCEPT !.at = @ + 1] /\ UNCHANGED <<count, kept>>
  ELSE /\ count' = IF \A s \in Store : buffer'[s] = <<>> THEN 0 ELSE count
       /\ Proceed(call)

\* ResultFlushCoordinator.flush: one store, whose buffer is cleared after it
\* took the batch.
FlushStore ==
  /\ call.pc = "flush"
  /\ IF buffer[call.at] = <<>>
     THEN UNCHANGED <<disk, buffer>>
     ELSE /\ view' = [view EXCEPT ![call.at] =
                        Written(buffer[call.at], 1..Len(buffer[call.at]), @)]
          /\ buffer' = [buffer EXCEPT ![call.at] = <<>>]
          /\ failed' = failed \ {call.at}
  /\ Flushed
  /\ UNCHANGED <<memory, ledger, last, task>>

\* Mutant of RefuseBatch: the buffer is cleared before the store has taken it.
RefuseBatchDrops ==
  /\ call.pc = "flush" /\ buffer[call.at] # <<>>
  /\ \E I \in Landed(call.at) :
       view' = [view EXCEPT ![call.at] = Written(buffer[call.at], I, @)]
  /\ buffer' = [buffer EXCEPT ![call.at] = <<>>]
  /\ failed' = failed \cup {call.at}
  /\ Raise
  /\ UNCHANGED <<memory, count, book, now, runs>>

RefuseBatch ==
  /\ call.pc = "flush" /\ buffer[call.at] # <<>>
  /\ \E I \in Landed(call.at) :
       view' = [view EXCEPT ![call.at] = Written(buffer[call.at], I, @)]
  /\ failed' = failed \cup {call.at}
  /\ Raise
  /\ UNCHANGED <<memory, buffer, count, book, now, runs>>

-----------------------------------------------------------------------------
\* TaskResultRecorder.

\* handle: an event of a run in its runner's thread, filled or not, or the
\* diagnostic of a request, which the time-out monitor publishes from its own.
Handle(e) ==
  /\ call.pc = "free" /\ memory[<<"event", e>>] = None
  /\ \E by \in {TaskOf[TradeOf[e]], None}, filled \in BOOLEAN :
       /\ \/ by = None /\ ~filled
          \/ by # None /\ run[by] = "running"
          \/ by # None /\ run[by] = "failing" /\ ~filled
       /\ call' = Saving(by, {[key |-> <<"event", e>>, val |-> Seen]},
                         IF filled THEN "ledger" ELSE "free",
                         IF filled THEN e ELSE None)
  /\ UNCHANGED <<memory, buffer, count, disk, book, task>>

\* handle, once the event is recorded: TradeLedger.record_open and
\* record_close.
Fill ==
  /\ call.pc = "ledger"
  /\ LET e == call.event
         tr == TradeOf[e]
     IN /\ ledger' = [ledger EXCEPT ![tr] =
             IF Action[e] = "open" THEN [opened |-> e, closed |-> None]
             ELSE [opened |-> IF @ = None THEN None ELSE @.opened,
                   closed |-> e]]
        /\ Proceed([call EXCEPT !.then =
             IF Action[e] = "open" THEN "free" ELSE "report"])
  /\ UNCHANGED <<memory, buffer, count, disk, last, task>>

\* _record_close: the trade, and the cycle it is of.
Report ==
  /\ call.pc = "report"
  /\ LET tr == TradeOf[call.event]
         cycle == IF CycleOf[tr] = None THEN {}
                  ELSE {CycleRec(CycleOf[tr], TaskOf[tr])}
     IN call' = Saving(call.by, {TradeRec(tr)} \cup cycle, "free", call.event)
  /\ UNCHANGED <<memory, buffer, count, disk, book, task>>

\* ProfitMetricCollector.due.
Due(t, time) ==
  Interval > 0 /\ (last[t] = None \/ time - last[t] >= Interval)

\* on_tick, after a tick of a run was processed; a source delivers its ticks in
\* the order of time.
OnTick(t) ==
  /\ call.pc = "free" /\ run[t] = "running"
  /\ \E time \in now[t]..MaxTime :
       /\ now' = [now EXCEPT ![t] = time]
       /\ call' = IF Due(t, time)
                  THEN Saving(t, {[key |-> <<"metric", <<t, runs[t], time>>>>,
                                   val |-> Total(InLedger(t))]}, "mark", None)
                  ELSE call
  /\ UNCHANGED <<memory, buffer, count, disk, book, run, runs>>

\* Mutant of Mark: the time of the metric is not remembered.
MarkNot ==
  /\ call.pc = "mark"
  /\ Proceed([call EXCEPT !.then = "free"])
  /\ UNCHANGED <<memory, buffer, count, disk, ledger, last, task>>

\* Mutant of Mark: the time the next metric is due is remembered instead.
MarkNextDue ==
  /\ call.pc = "mark"
  /\ last' = [last EXCEPT ![call.by] = now[call.by] + Interval]
  /\ Proceed([call EXCEPT !.then = "free"])
  /\ UNCHANGED <<memory, buffer, count, disk, ledger, task>>

\* The metric stores take the metric, and mark_emitted remembers its time.
Mark ==
  /\ call.pc = "mark"
  /\ last' = [last EXCEPT ![call.by] = now[call.by]]
  /\ Proceed([call EXCEPT !.then = "free"])
  /\ UNCHANGED <<memory, buffer, count, disk, ledger, task>>

\* A metric store raises.
RefuseMetric ==
  /\ call.pc = "mark"
  /\ Raise
  /\ UNCHANGED <<memory, buffer, count, disk, book, now, runs>>

\* on_task_finished.
Finish(t) ==
  /\ call.pc = "free" /\ run[t] \in {"running", "failing"}
  /\ run' = [run EXCEPT ![t] = "finishing"]
  /\ call' = Saving(t, FinalRecs(t), "final", None)
  /\ UNCHANGED <<memory, buffer, count, disk, book, now, runs>>

\* Mutant of FinalFlush: what is buffered stays so when the task is over.
FinalFlushNot ==
  /\ call.pc = "final"
  /\ call' = [call EXCEPT !.pc = "cleanup"]
  /\ UNCHANGED <<memory, buffer, count, disk, book, task>>

FinalFlush ==
  /\ call.pc = "final"
  /\ call' = [call EXCEPT !.pc = "flush", !.at = 1, !.then = "cleanup"]
  /\ UNCHANGED <<memory, buffer, count, disk, book, task>>

\* _cleanup_finished_task_state, if configured.
CleanUp ==
  /\ call.pc = "cleanup"
  /\ IF Cleanup
     THEN /\ ledger' = [tr \in Trade |->
                          IF TaskOf[tr] = call.by THEN None ELSE ledger[tr]]
          /\ last' = [last EXCEPT ![call.by] = None]
     ELSE UNCHANGED <<ledger, last>>
  /\ run' = [run EXCEPT ![call.by] = "finished"]
  /\ call' = Free
  /\ UNCHANGED <<memory, buffer, count, disk, kept, now, runs>>

\* flush, called by the application.
Flush ==
  /\ call.pc = "free"
  /\ call' = [Free EXCEPT !.pc = "flush"]
  /\ UNCHANGED <<memory, buffer, count, disk, book, task>>

-----------------------------------------------------------------------------
\* The runs of the tasks, as the recorder sees them.

\* The first run, a restart, or a paused task that goes on.
Start(t) ==
  /\ run[t] \in {"idle", "paused", "finished"} /\ runs[t] < MaxRuns
  /\ run' = [run EXCEPT ![t] = "running"]
  /\ runs' = [runs EXCEPT ![t] = @ + 1]
  /\ now' = [now EXCEPT ![t] = IF t \in Rewinds THEN 0 ELSE @]
  /\ UNCHANGED <<memory, buffer, count, disk, book, call>>

\* The run of t pauses, or fails for a reason of its own; its thread is not
\* inside the recorder then.
Leave(t) ==
  /\ run[t] = "running" /\ call.by # t
  /\ \E to \in {"paused", "failing"} : run' = [run EXCEPT ![t] = to]
  /\ UNCHANGED <<memory, buffer, count, disk, book, now, runs, call>>

CallStep ==
  \/ Save \/ FlushStore \/ RefuseBatch \/ Fill \/ Report
  \/ Mark \/ RefuseMetric \/ FinalFlush \/ CleanUp

Next ==
  \/ CallStep \/ Flush
  \/ \E e \in Event : Handle(e)
  \/ \E t \in Task : OnTick(t) \/ Finish(t) \/ Start(t) \/ Leave(t)

Spec == Init /\ [][Next]_vars

-----------------------------------------------------------------------------
\* Properties.

\* The type of every variable.
Shown == {f \in [Key -> Value \cup {None}] :
            \A k \in Key : f[k] = None \/ Says(k, f[k])}
Phase == {"idle", "running", "paused", "failing", "finishing", "finished",
          "dead"}
Call == [pc : {"free", "save", "flush", "ledger", "report", "mark", "final",
               "cleanup"},
         by : Task \cup {None}, todo : SUBSET Rec,
         then : {"free", "ledger", "report", "mark", "final", "cleanup"},
         event : Event \cup {None}, at : Store]
TypeOK ==
  /\ memory \in Shown
  /\ view \in [Store -> Shown]
  /\ buffer \in [Store -> Seq(Rec)]
  /\ count \in Nat
  /\ ledger \in [Trade -> TradeSummary \cup {None}]
  /\ last \in [Task -> Time \cup {None}] /\ now \in [Task -> Time]
  /\ run \in [Task -> Phase] /\ runs \in [Task -> 0..MaxRuns]
  /\ call \in Call
  /\ failed \subseteq Store /\ kept \subseteq Event

\* Whatever batches were refused, and wherever a CSV store stopped, a store
\* and its buffer together say what memory says: the newest record buffered
\* under a key is memory's, and a key with none is in the store as in memory.
Follows(shown, q, k, val) ==
  LET at == {i \in 1..Len(q) : q[i].key = k}
  IN IF at = {} THEN shown[k] = val
     ELSE \E i \in at : q[i].val = val /\ \A j \in at : j <= i
StoresFollow ==
  \A s \in Store, k \in Key : Follows(view[s], buffer[s], k, memory[k])

\* Between calls, whatever failed, no buffer holds more records than are
\* counted, so a batch that was refused is tried again when the next one is
\* due; and a full batch waits only if a store refused its last one.
BacklogCounted ==
  call.pc = "free" =>
    /\ \A s \in Store : Len(buffer[s]) <= count
    /\ failed = {} => count < FlushEvery

\* Two metrics of one run are at least an interval apart, whatever failed.
MetricsSpaced ==
  \A t \in Task, n \in 0..MaxRuns : \A x, y \in Time :
    /\ x < y
    /\ memory[<<"metric", <<t, n, x>>>>] # None
    /\ memory[<<"metric", <<t, n, y>>>>] # None
    => y - x >= Interval

\* A task that finished is in every store, trades, cycles and all, and its
\* totals are those of the trades memory and the stores have.
FinishedStored ==
  \A t \in Task : run[t] = "finished" =>
    LET trades == {tr \in Trade : /\ TaskOf[tr] = t
                                  /\ memory[<<"trade", tr>>] # None}
        keys == {<<"task", t>>} \cup ({"trade"} \X trades)
                  \cup ({"cycle"} \X MemoryCycles(t))
    IN /\ \A s \in Store : \A k \in keys : view[s][k] = memory[k]
       /\ memory[<<"task", t>>] =
            [trades |-> trades,
             open |-> {tr \in trades : memory[<<"trade", tr>>].closed = None},
             realized |-> {memory[<<"trade", tr>>].closed : tr \in trades}
                            \ {None}]

\* A fill whose handler returned is in the totals of every later finish.
FillsCounted ==
  \A e \in kept :
    LET t == TaskOf[TradeOf[e]]
    IN run[t] = "finished" => TradeOf[e] \in memory[<<"task", t>>].trades
=============================================================================
