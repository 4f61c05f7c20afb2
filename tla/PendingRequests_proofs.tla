------------------------ MODULE PendingRequests_proofs ------------------------
(***************************************************************************)
(* IInv is an invariant of PendingRequests.  A runner's step is one of     *)
(* three: it takes nothing out of the store (QuietStep), it takes requests *)
(* out (TakeOutStep), or it publishes, reports or diagnoses one.           *)
(***************************************************************************)
EXTENDS PendingRequestsInvariant, TLAPS

\* A runner that moves leaves the others where they are.
LEMMA MoveEffect ==
  ASSUME runner \in [Task -> RunnerState], NEW t \in Task,
         NEW l \in RunnerState, Move(t, l)
  PROVE  /\ runner' \in [Task -> RunnerState]
         /\ runner'[t] = l
         /\ \A u \in Task : u # t => runner'[u] = runner[u]
  BY DEF Move

\* The except clause: the run starts to fail, or ends when it failed before.
LEMMA FailEffect ==
  ASSUME NEW t \in Task, Fail(t)
  PROVE  \E l \in RunnerState :
           /\ Move(t, l) /\ l.hand = {} /\ ~l.failing
           /\ l.pc = IF runner[t].failing THEN "off" ELSE "fail"
  <1>1. CASE runner[t].failing
    <2>1. Off \in RunnerState BY DEF Off, RunnerState, RunnerPC
    <2>. QED BY <1>1, <2>1 DEF Fail, Off
  <1>2. CASE ~runner[t].failing
    <2>. DEFINE l == [Off EXCEPT !.pc = "fail"]
    <2>1. l \in RunnerState BY DEF Off, RunnerState, RunnerPC
    <2>2. l.hand = {} /\ ~l.failing /\ l.pc = "fail" BY DEF Off
    <2>3. Move(t, l) BY <1>2 DEF Fail
    <2>. QED BY <1>2, <2>1, <2>2, <2>3
  <1>. QED BY <1>1, <1>2

\* Outside publish, execute, report, fail and clear a runner has no request of
\* its strategy waiting, but for those left by a run that died.
LEMMA NothingWaits ==
  ASSUME IInv, NEW t \in Task,
         runner[t].pc \in {"off", "call", "next", "flags", "diagnose", "observe"}
  PROVE  \A q \in (pending \ AppRequest) \ left : TaskOf[q] # t
  BY DEF IInv, OwnSettled, AtWork, Work

\* A runner's step that changes none of the sets but `left` keeps the
\* invariant, if what it goes to work on is its own and undiagnosed and it
\* does not walk away from a request that waits.
LEMMA QuietStep ==
  ASSUME ConstantsAssumption, IInv, NEW t \in Task, NEW l \in RunnerState,
         Move(t, l), UNCHANGED <<pending, old, issued, answered, diagnosed, lost>>,
         left \subseteq left', left' \subseteq Broker, active' \subseteq Task,
         monitor' \in MonitorState,
         monitor'.pc = monitor.pc, monitor'.task = monitor.task,
         monitor'.hand = monitor.hand,
         runner[t].hand = {}, l.hand = {}, l.pc # "diagnose",
         WorkOK(t, l),
         l.failing => l.pc \in {"clear", "observe"},
         \A q \in (pending \ AppRequest) \ left' :
           TaskOf[q] = t => q \in Work(l) \/ l.pc \in {"fail", "clear"},
         Kind[t] = "backtest" => Work(l) \cap diagnosed = {}
  PROVE  IInv'
  <1>. USE DEF IInv
  <1>r. runner \in [Task -> RunnerState] BY DEF TypeOK
  <1>2. /\ runner' \in [Task -> RunnerState] /\ runner'[t] = l
        /\ \A u \in Task : u # t => runner'[u] = runner[u]
    BY <1>r, MoveEffect
  <1>3. \A u \in Task : runner'[u].hand = runner[u].hand BY <1>2
  <1>4. pending \subseteq Request BY DEF TypeOK, ConstantsAssumption
  <1>11. TypeOK' BY <1>2 DEF TypeOK
  <1>12. IssuedFirst' BY <1>3 DEF IssuedFirst
  <1>13. HandsHeld' BY <1>2, <1>3 DEF HandsHeld
  <1>14. RemovedOnce' BY <1>3 DEF RemovedOnce
  <1>15. Accounted' BY <1>3 DEF Accounted, Hands
  <1>16. OwnSettled' BY <1>2, <1>4 DEF OwnSettled, AtWork, ConstantsAssumption
  <1>17. BacktestAlone' BY <1>2, <1>3 DEF BacktestAlone, AtWork, ConstantsAssumption
  <1>18. ASSUME NEW u \in Task
         PROVE  (WorkOK(u, runner[u]) /\ FailingLast(u) /\ ThenResumes(u))'
    BY <1>2 DEF WorkOK, Work, FailingLast, ThenResumes
  <1>. QED BY <1>11, <1>12, <1>13, <1>14, <1>15, <1>16, <1>17, <1>18

\* A runner that goes to its except clause keeps the invariant; one that
\* failed before has nothing waiting and just ends.
LEMMA FailStep ==
  ASSUME ConstantsAssumption, IInv, NEW t \in Task, Fail(t),
         UNCHANGED <<pending, old, monitor, History>>, active' \subseteq Task,
         runner[t].pc \notin {"diagnose", "clear"}
  PROVE  IInv'
  <1>1. PICK l \in RunnerState :
          /\ Move(t, l) /\ l.hand = {} /\ ~l.failing
          /\ l.pc = IF runner[t].failing THEN "off" ELSE "fail"
    BY FailEffect
  <1>2. runner[t].failing => runner[t].pc = "observe"
    BY DEF IInv, FailingLast
  <1>3. \A q \in (pending \ AppRequest) \ left :
          TaskOf[q] = t => l.pc \in {"fail", "clear"}
    BY <1>1, <1>2, NothingWaits
  <1>4. runner[t].hand = {} BY DEF IInv, HandsHeld
  <1>5. monitor \in MonitorState /\ left \subseteq Broker BY DEF IInv, TypeOK
  <1>6. Work(l) = {} /\ WorkOK(t, l) BY <1>1 DEF Work, WorkOK
  <1>. QED BY <1>1, <1>3, <1>4, <1>5, <1>6, QuietStep DEF History

\* A runner that takes S, overdue or all of its requests, out of the store keeps
\* the invariant if no request of its strategy waits any more.
LEMMA TakeOutStep ==
  ASSUME ConstantsAssumption, IInv, NEW t \in Task, NEW S \in SUBSET Of(t),
         NEW l \in RunnerState, Move(t, l), pending' = pending \ S,
         UNCHANGED <<old, monitor, History>>, active' \subseteq Task,
         runner[t].hand = {}, l.hand = S, l.pc = "diagnose",
         l.then \in {"flags", "call", "observe"},
         l.failing => l.then = "observe",
         \A q \in ((pending \ S) \ AppRequest) \ left : TaskOf[q] # t
  PROVE  IInv'
  <1>. USE DEF IInv, History
  <1>r. runner \in [Task -> RunnerState] BY DEF TypeOK
  <1>2. /\ runner' \in [Task -> RunnerState] /\ runner'[t] = l
        /\ \A u \in Task : u # t => runner'[u] = runner[u]
    BY <1>r, MoveEffect
  <1>3. S \subseteq pending /\ \A q \in S : TaskOf[q] = t BY DEF Of
  <1>4. pending \subseteq Request BY DEF TypeOK, ConstantsAssumption
  <1>11. TypeOK' BY <1>2 DEF TypeOK
  <1>12. IssuedFirst' BY <1>2, <1>3 DEF IssuedFirst
  <1>13. HandsHeld' BY <1>2, <1>3 DEF HandsHeld
  <1>14. RemovedOnce' BY <1>2, <1>3 DEF RemovedOnce
  <1>15. Accounted' BY <1>2, <1>3, <1>4 DEF Accounted, Hands
  <1>16. OwnSettled' BY <1>2, <1>4 DEF OwnSettled, AtWork, ConstantsAssumption
  <1>17. BacktestAlone'
    BY <1>2, <1>3 DEF BacktestAlone, AtWork, Work, ConstantsAssumption
  <1>18. ASSUME NEW u \in Task
         PROVE  (WorkOK(u, runner[u]) /\ FailingLast(u) /\ ThenResumes(u))'
    BY <1>2 DEF WorkOK, Work, FailingLast, ThenResumes
  <1>. QED BY <1>11, <1>12, <1>13, <1>14, <1>15, <1>16, <1>17, <1>18

-----------------------------------------------------------------------------
\* The runner, action by action.

\* Launch finds nothing of its strategy waiting and starts with nothing.
LEMMA LaunchInv ==
  ASSUME ConstantsAssumption, IInv, NEW t \in Task, Launch(t) PROVE IInv'
  <1>. DEFINE l == [runner[t] EXCEPT !.pc = "call"]
  <1>1. runner[t] \in RunnerState /\ monitor \in MonitorState
        /\ left \subseteq Broker /\ active \subseteq Task
    BY DEF IInv, TypeOK
  <1>2. runner[t].pc = "off" /\ Move(t, l) BY DEF Launch, Goto
  <1>3. runner[t].hand = {} /\ ~runner[t].failing
    BY <1>2 DEF IInv, HandsHeld, FailingLast
  <1>4. /\ l \in RunnerState /\ l.hand = {} /\ l.pc = "call" /\ ~l.failing
        /\ Work(l) = {} /\ WorkOK(t, l)
    BY <1>1, <1>3 DEF RunnerState, RunnerPC, Work, WorkOK
  <1>5. \A q \in (pending \ AppRequest) \ left : TaskOf[q] # t
    BY <1>2, NothingWaits
  <1>6. monitor' \in MonitorState /\ monitor'.pc = monitor.pc
        /\ monitor'.task = monitor.task /\ monitor'.hand = monitor.hand
    BY <1>1 DEF Launch, MonitorState
  <1>7. active' \subseteq Task /\ UNCHANGED <<pending, old, History>>
    BY <1>1 DEF Launch
  <1>. HIDE DEF l
  <1>. QED BY <1>1, <1>2, <1>3, <1>4, <1>5, <1>6, <1>7, QuietStep DEF History

\* A move of a runner that has nothing of its strategy waiting, to a state
\* that works on nothing.
LEMMA IdleStep ==
  ASSUME ConstantsAssumption, IInv, NEW t \in Task, NEW l \in RunnerState,
         Move(t, l), UNCHANGED <<pending, old, monitor, History>>,
         active' \subseteq Task,
         l.hand = {}, l.pc \in {"off", "call", "next", "clear"},
         l.failing => l.pc = "clear",
         runner[t].pc # "diagnose",
         \A q \in (pending \ AppRequest) \ left : TaskOf[q] # t
  PROVE  IInv'
  <1>1. runner[t].hand = {} BY DEF IInv, HandsHeld
  <1>2. monitor \in MonitorState /\ left \subseteq Broker BY DEF IInv, TypeOK
  <1>3. Work(l) = {} /\ WorkOK(t, l) BY DEF Work, WorkOK
  <1>. QED BY <1>1, <1>2, <1>3, QuietStep DEF History

\* A callback returns requests of its task nobody has published, or raises.
LEMMA CallbackInv ==
  ASSUME ConstantsAssumption, IInv, NEW t \in Task, Callback(t) PROVE IInv'
  <1>1. /\ runner[t] \in RunnerState /\ monitor \in MonitorState
        /\ left \subseteq Broker /\ active \subseteq Task
    BY DEF IInv, TypeOK
  <1>2. runner[t].pc = "call" /\ UNCHANGED <<pending, old, active, monitor, History>>
    BY DEF Callback
  <1>3. CASE Fail(t) BY <1>1, <1>2, <1>3, FailStep
  <1>4. ASSUME NEW S \in SUBSET ((Request \ AppRequest) \ issued),
               \A q \in S : TaskOf[q] = t,
               Move(t, [runner[t] EXCEPT !.pc = "publish", !.batch = S,
                                         !.todo = S])
        PROVE  IInv'
    <2>. DEFINE l == [runner[t] EXCEPT !.pc = "publish", !.batch = S, !.todo = S]
    <2>1. runner[t].hand = {} /\ ~runner[t].failing
      BY <1>2 DEF IInv, HandsHeld, FailingLast
    <2>2. /\ l \in RunnerState /\ l.hand = {} /\ l.pc = "publish" /\ ~l.failing
          /\ l.todo = S /\ l.batch = S /\ Work(l) = S
      BY <1>1, <2>1 DEF RunnerState, RunnerPC, Work
    <2>3. \A q \in (pending \ AppRequest) \ left : TaskOf[q] # t
      BY <1>2, NothingWaits
    <2>4. S \cap diagnosed = {} BY DEF IInv, IssuedFirst
    <2>5. Move(t, l) BY <1>4
    <2>. HIDE DEF l
    <2>6. WorkOK(t, l) BY <1>4, <2>2 DEF WorkOK
    <2>. QED BY <1>1, <1>2, <1>4, <2>1, <2>2, <2>3, <2>4, <2>5, <2>6, QuietStep DEF History
  <1>. QED BY <1>3, <1>4 DEF Callback

\* What was to be published is published: the runner works on the same batch.
LEMMA PublishedInv ==
  ASSUME ConstantsAssumption, IInv, NEW t \in Task, Published(t) PROVE IInv'
  <1>. DEFINE l == [runner[t] EXCEPT !.pc = "execute"]
  <1>1. /\ runner[t] \in RunnerState /\ monitor \in MonitorState
        /\ left \subseteq Broker /\ active \subseteq Task
    BY DEF IInv, TypeOK
  <1>2. /\ runner[t].pc = "publish" /\ Move(t, l)
        /\ UNCHANGED <<pending, old, active, monitor, History>>
    BY DEF Published, Goto
  <1>3. runner[t].hand = {} /\ ~runner[t].failing
    BY <1>2 DEF IInv, HandsHeld, FailingLast
  <1>4. /\ l \in RunnerState /\ l.hand = {} /\ l.pc = "execute" /\ ~l.failing
        /\ Work(l) = AtWork(t)
    BY <1>1, <1>2, <1>3 DEF RunnerState, RunnerPC, Work, AtWork
  <1>5. \A q \in (pending \ AppRequest) \ left :
          TaskOf[q] = t => q \in AtWork(t)
    BY <1>2 DEF IInv, OwnSettled
  <1>6. WorkOK(t, runner[t]) /\ AtWork(t) \subseteq Request /\ runner[t].todo = {}
    BY <1>1, <1>2 DEF IInv, AtWork, Work, RunnerState, Published
  <1>7. Kind[t] = "backtest" => AtWork(t) \cap diagnosed = {}
    BY <1>6 DEF IInv, BacktestAlone, WorkOK, AtWork
  <1>8. l.batch = runner[t].batch BY <1>1 DEF RunnerState
  <1>. HIDE DEF l
  <1>9. WorkOK(t, l) BY <1>2, <1>4, <1>6, <1>8 DEF WorkOK, Work, AtWork
  <1>. QED BY <1>1, <1>2, <1>3, <1>4, <1>5, <1>7, <1>9, QuietStep DEF History

\* The executor makes a report for every request that went to the broker.
LEMMA ExecuteInv ==
  ASSUME ConstantsAssumption, IInv, NEW t \in Task, Execute(t) PROVE IInv'
  <1>. DEFINE asked == runner[t].batch \cap Broker
  <1>1. /\ runner[t] \in RunnerState /\ monitor \in MonitorState
        /\ left \subseteq Broker /\ active \subseteq Task
        /\ pending \subseteq Broker
    BY DEF IInv, TypeOK
  <1>2. /\ runner[t].pc = "execute"
        /\ UNCHANGED <<pending, old, active, monitor, History>>
    BY DEF Execute
  <1>3. PICK extra \in SUBSET asked :
          Move(t, [runner[t] EXCEPT !.pc = "report", !.todo = asked,
                                    !.extra = extra])
    BY DEF Execute
  <1>. DEFINE l == [runner[t] EXCEPT !.pc = "report", !.todo = asked,
                                     !.extra = extra]
  <1>4. runner[t].hand = {} /\ ~runner[t].failing
    BY <1>2 DEF IInv, HandsHeld, FailingLast
  <1>5. /\ l \in RunnerState /\ l.hand = {} /\ l.pc = "report" /\ ~l.failing
        /\ Work(l) = asked
    BY <1>1, <1>4 DEF RunnerState, RunnerPC, Work
  <1>6. \A q \in (pending \ AppRequest) \ left : TaskOf[q] = t => q \in asked
    BY <1>1, <1>2 DEF IInv, OwnSettled, AtWork, Work
  <1>7. WorkOK(t, runner[t]) BY DEF IInv
  <1>8. \A q \in asked : TaskOf[q] = t /\ q \notin AppRequest /\ q \in issued
    BY <1>2, <1>7 DEF WorkOK, Work
  <1>9. Kind[t] = "backtest" => asked \cap diagnosed = {}
    BY <1>1, <1>2, <1>8 DEF IInv, BacktestAlone, AtWork, Work, RunnerState
  <1>10. Move(t, l) /\ l.todo = asked /\ asked \subseteq Broker
    BY <1>1, <1>3 DEF RunnerState
  <1>. HIDE DEF l, asked
  <1>11. WorkOK(t, l) BY <1>5, <1>8, <1>10 DEF WorkOK
  <1>. QED
    BY <1>1, <1>2, <1>4, <1>5, <1>6, <1>9, <1>10, <1>11, QuietStep DEF History

\* After the reports nothing of the strategy waits.
LEMMA ReportedInv ==
  ASSUME ConstantsAssumption, IInv, NEW t \in Task, Reported(t) PROVE IInv'
  <1>1. active' \subseteq Task BY DEF IInv, TypeOK, Reported
  <1>2. /\ runner[t].pc = "report" /\ runner[t].todo = {}
        /\ UNCHANGED <<pending, old, monitor, History>>
    BY DEF Reported
  <1>3. \A q \in (pending \ AppRequest) \ left : TaskOf[q] # t
    BY <1>2 DEF IInv, OwnSettled, AtWork, Work
  <1>4. ASSUME NEW pc \in {"next", "clear"}, Move(t, [Off EXCEPT !.pc = pc])
        PROVE  IInv'
    <2>. DEFINE l == [Off EXCEPT !.pc = pc]
    <2>1. l \in RunnerState /\ l.hand = {} /\ ~l.failing /\ l.pc = pc
      BY DEF Off, RunnerState, RunnerPC
    <2>2. Move(t, l) BY <1>4
    <2>. HIDE DEF l
    <2>. QED BY <1>1, <1>2, <1>3, <2>1, <2>2, IdleStep
  <1>5. CASE Fail(t) BY <1>1, <1>2, <1>5, FailStep
  <1>. QED BY <1>4, <1>5 DEF Reported

\* The source raises.
LEMMA SourceRaisesInv ==
  ASSUME ConstantsAssumption, IInv, NEW t \in Task, SourceRaises(t) PROVE IInv'
  BY FailStep DEF SourceRaises, IInv, TypeOK

\* A pause returns, a stop goes on to clear, and on_tick may be next.
LEMMA FlagsInv ==
  ASSUME ConstantsAssumption, IInv, NEW t \in Task, Flags(t) PROVE IInv'
  <1>1. active' \subseteq Task /\ runner[t] \in RunnerState
    BY DEF IInv, TypeOK, Flags
  <1>2. runner[t].pc = "flags" /\ UNCHANGED <<pending, old, monitor, History>>
    BY DEF Flags
  <1>3. \A q \in (pending \ AppRequest) \ left : TaskOf[q] # t
    BY <1>2, NothingWaits
  <1>4. CASE Move(t, Off)
    <2>1. Off \in RunnerState /\ Off.hand = {} /\ ~Off.failing /\ Off.pc = "off"
      BY DEF Off, RunnerState, RunnerPC
    <2>. QED BY <1>1, <1>2, <1>3, <1>4, <2>1, IdleStep
  <1>5. ASSUME NEW pc \in {"call", "clear"}, Goto(t, pc) PROVE IInv'
    <2>. DEFINE l == [runner[t] EXCEPT !.pc = pc]
    <2>1. runner[t].hand = {} /\ ~runner[t].failing
      BY <1>2 DEF IInv, HandsHeld, FailingLast
    <2>2. l \in RunnerState /\ l.hand = {} /\ ~l.failing /\ l.pc = pc
      BY <1>1, <2>1 DEF RunnerState, RunnerPC
    <2>3. Move(t, l) BY <1>5 DEF Goto
    <2>. HIDE DEF l
    <2>. QED BY <1>1, <1>2, <1>3, <2>2, <2>3, IdleStep
  <1>6. CASE Fail(t) BY <1>1, <1>2, <1>6, FailStep
  <1>. QED BY <1>4, <1>5, <1>6 DEF Flags

\* The observers are told: the run ends or fails.
LEMMA ObserveInv ==
  ASSUME ConstantsAssumption, IInv, NEW t \in Task, Observe(t) PROVE IInv'
  <1>1. active' \subseteq Task BY DEF IInv, TypeOK, Observe
  <1>2. runner[t].pc = "observe" /\ UNCHANGED <<pending, old, monitor, History>>
    BY DEF Observe
  <1>3. CASE Move(t, Off)
    <2>1. Off \in RunnerState /\ Off.hand = {} /\ ~Off.failing /\ Off.pc = "off"
      BY DEF Off, RunnerState, RunnerPC
    <2>2. \A q \in (pending \ AppRequest) \ left : TaskOf[q] # t
      BY <1>2, NothingWaits
    <2>. QED BY <1>1, <1>2, <1>3, <2>1, <2>2, IdleStep
  <1>4. CASE Fail(t) BY <1>1, <1>2, <1>4, FailStep
  <1>. QED BY <1>3, <1>4 DEF Observe

\* A failed run goes on to clear, or leaves its requests when its thread dies.
LEMMA FailTaskInv ==
  ASSUME ConstantsAssumption, IInv, NEW t \in Task, FailTask(t) PROVE IInv'
  <1>1. /\ active' \subseteq Task /\ monitor \in MonitorState
        /\ pending \subseteq Broker /\ left \subseteq Broker
    BY DEF IInv, TypeOK, FailTask
  <1>2. /\ runner[t].pc = "fail"
        /\ UNCHANGED <<pending, old, monitor, issued, answered, diagnosed, lost>>
    BY DEF FailTask
  <1>3. runner[t].hand = {} BY <1>2 DEF IInv, HandsHeld
  <1>4. CASE Move(t, [Off EXCEPT !.pc = "clear", !.failing = TRUE]) /\ left' = left
    <2>. DEFINE l == [Off EXCEPT !.pc = "clear", !.failing = TRUE]
    <2>1. l \in RunnerState /\ l.hand = {} /\ l.pc = "clear" /\ Work(l) = {}
          /\ WorkOK(t, l)
      BY DEF Off, RunnerState, RunnerPC, Work, WorkOK
    <2>2. Move(t, l) BY <1>4
    <2>. HIDE DEF l
    <2>. QED BY <1>1, <1>2, <1>3, <1>4, <2>1, <2>2, QuietStep
  <1>5. CASE Move(t, Off) /\ left' = left \cup Of(t)
    <2>1. /\ Off \in RunnerState /\ Off.hand = {} /\ Off.pc = "off"
          /\ ~Off.failing /\ Work(Off) = {} /\ WorkOK(t, Off)
      BY DEF Off, RunnerState, RunnerPC, Work, WorkOK
    <2>2. /\ left \subseteq left' /\ left' \subseteq Broker
          /\ \A q \in (pending \ AppRequest) \ left' : TaskOf[q] # t
      BY <1>1, <1>5 DEF Of
    <2>. QED BY <1>1, <1>2, <1>3, <1>5, <2>1, <2>2, QuietStep
  <1>. QED BY <1>4, <1>5 DEF FailTask

\* A runner that works on its batch publishes one request of it.
LEMMA PublishInv ==
  ASSUME ConstantsAssumption, IInv, NEW t \in Task, Publish(t) PROVE IInv'
  <1>. USE DEF IInv
  <1>1. runner[t] \in RunnerState /\ runner \in [Task -> RunnerState]
    BY DEF TypeOK
  <1>2. /\ ~runner[t].failing /\ runner[t].hand = {} /\ runner[t].pc = "publish"
        /\ UNCHANGED <<old, active, monitor, answered, diagnosed, lost, left>>
    BY DEF Publish, FailingLast, HandsHeld
  <1>3. PICK q \in runner[t].todo :
          /\ pending' = pending \cup ({q} \cap Broker)
          /\ issued' = issued \cup {q}
          /\ Move(t, [runner[t] EXCEPT !.todo = @ \ {q}]) \/ Fail(t)
    BY DEF Publish
  <1>4. PICK l \in RunnerState :
          /\ Move(t, l) /\ l.hand = {} /\ ~l.failing
          /\ \/ /\ l.pc = "publish" /\ l.batch = runner[t].batch
                /\ l.todo = runner[t].todo \ {q}
             \/ l.pc = "fail"
    <2>1. CASE Move(t, [runner[t] EXCEPT !.todo = @ \ {q}])
      <3>. DEFINE l == [runner[t] EXCEPT !.todo = @ \ {q}]
      <3>1. l \in RunnerState BY <1>1 DEF RunnerState
      <3>. QED BY <1>1, <1>2, <2>1, <3>1 DEF RunnerState
    <2>2. CASE Fail(t) BY <1>2, <2>2, FailEffect
    <2>. QED BY <1>3, <2>1, <2>2
  <1>5. /\ runner' \in [Task -> RunnerState] /\ runner'[t] = l
        /\ \A u \in Task : u # t => runner'[u] = runner[u]
    BY <1>1, <1>4, MoveEffect
  <1>6. /\ q \in Request /\ TaskOf[q] = t
        /\ q \in runner[t].batch /\ q \notin issued /\ q \notin AppRequest
    <2>1. WorkOK(t, runner[t]) OBVIOUS
    <2>. QED BY <1>1, <1>2, <1>3, <2>1 DEF WorkOK, Work, RunnerState
  <1>7. pending \subseteq Request BY DEF TypeOK, ConstantsAssumption
  <1>11. TypeOK' BY <1>2, <1>3, <1>5, <1>6 DEF TypeOK
  <1>12. IssuedFirst' BY <1>2, <1>3, <1>4, <1>5 DEF IssuedFirst
  <1>13. HandsHeld' BY <1>2, <1>4, <1>5 DEF HandsHeld
  <1>14. RemovedOnce'
    BY <1>2, <1>3, <1>4, <1>5, <1>6 DEF RemovedOnce, HandsHeld, IssuedFirst
  <1>15. Accounted'
    BY <1>2, <1>3, <1>4, <1>5, <1>6 DEF Accounted, HandsHeld, Hands
  <1>16. OwnSettled'
    BY <1>2, <1>3, <1>4, <1>5, <1>6, <1>7
       DEF OwnSettled, AtWork, Work, ConstantsAssumption
  <1>17. BacktestAlone'
    BY <1>2, <1>3, <1>4, <1>5, <1>6
       DEF BacktestAlone, AtWork, Work, IssuedFirst, HandsHeld, ConstantsAssumption
  <1>18. ASSUME NEW u \in Task
         PROVE  (WorkOK(u, runner[u]) /\ FailingLast(u) /\ ThenResumes(u))'
    BY <1>2, <1>3, <1>4, <1>5, <1>6 DEF WorkOK, Work, FailingLast, ThenResumes
  <1>. QED BY <1>11, <1>12, <1>13, <1>14, <1>15, <1>16, <1>17, <1>18

\* A report takes its request out of the store and is passed on.
LEMMA ReportInv ==
  ASSUME ConstantsAssumption, IInv, NEW t \in Task, Report(t) PROVE IInv'
  <1>. USE DEF IInv
  <1>1. runner[t] \in RunnerState /\ runner \in [Task -> RunnerState]
    BY DEF TypeOK
  <1>2. /\ ~runner[t].failing /\ runner[t].hand = {} /\ runner[t].pc = "report"
        /\ UNCHANGED <<old, active, monitor, issued, diagnosed, lost, left>>
    BY DEF Report, FailingLast, HandsHeld
  <1>. DEFINE m(q) ==
         [runner[t] EXCEPT
            !.todo = IF q \in runner[t].extra THEN @ ELSE @ \ {q},
            !.extra = @ \ {q}]
  <1>3. PICK q \in runner[t].todo :
          /\ pending' = pending \ {q}
          /\ answered' = answered \cup {q}
          /\ Move(t, m(q)) \/ Fail(t)
    BY DEF Report
  <1>4. PICK l \in RunnerState :
          /\ Move(t, l) /\ l.hand = {} /\ ~l.failing
          /\ \/ /\ l.pc = "report" /\ l.todo \subseteq runner[t].todo
                /\ runner[t].todo \ {q} \subseteq l.todo
             \/ l.pc = "fail"
    <2>1. CASE Move(t, m(q))
      <3>1. m(q) \in RunnerState BY <1>1 DEF RunnerState
      <3>2. /\ m(q).hand = {} /\ ~m(q).failing /\ m(q).pc = "report"
            /\ m(q).todo \subseteq runner[t].todo
            /\ runner[t].todo \ {q} \subseteq m(q).todo
        BY <1>1, <1>2 DEF RunnerState
      <3>. HIDE DEF m
      <3>. QED BY <2>1, <3>1, <3>2
    <2>2. CASE Fail(t) BY <1>2, <2>2, FailEffect
    <2>. QED BY <1>3, <2>1, <2>2
  <1>. HIDE DEF m
  <1>5. /\ runner' \in [Task -> RunnerState] /\ runner'[t] = l
        /\ \A u \in Task : u # t => runner'[u] = runner[u]
    BY <1>1, <1>4, MoveEffect
  <1>6. \A u \in Task : runner'[u].hand = runner[u].hand BY <1>2, <1>4, <1>5
  <1>7. /\ q \in Request /\ TaskOf[q] = t /\ q \in AtWork(t) /\ q \in issued
        /\ q \in Broker
    <2>1. WorkOK(t, runner[t]) OBVIOUS
    <2>. QED BY <1>1, <1>2, <2>1 DEF RunnerState, AtWork, Work, WorkOK
  <1>8. pending \subseteq Request BY DEF TypeOK, ConstantsAssumption
  <1>11. TypeOK' BY <1>2, <1>3, <1>5, <1>7 DEF TypeOK
  <1>12. IssuedFirst' BY <1>2, <1>3, <1>6, <1>7 DEF IssuedFirst
  <1>13. HandsHeld' BY <1>2, <1>4, <1>5 DEF HandsHeld
  <1>14. RemovedOnce' BY <1>2, <1>3, <1>6 DEF RemovedOnce
  <1>15. Accounted' BY <1>2, <1>3, <1>6 DEF Accounted, Hands
  <1>16. OwnSettled'
    BY <1>2, <1>3, <1>4, <1>5, <1>7, <1>8
       DEF OwnSettled, AtWork, Work, ConstantsAssumption
  <1>17. BacktestAlone'
    BY <1>2, <1>3, <1>4, <1>5, <1>6, <1>7
       DEF BacktestAlone, AtWork, Work, ConstantsAssumption
  <1>18. ASSUME NEW u \in Task
         PROVE  (WorkOK(u, runner[u]) /\ FailingLast(u) /\ ThenResumes(u))'
    BY <1>2, <1>3, <1>4, <1>5, <1>7 DEF WorkOK, Work, FailingLast, ThenResumes
  <1>. QED BY <1>11, <1>12, <1>13, <1>14, <1>15, <1>16, <1>17, <1>18

\* A runner takes S out of the store to publish diagnostics for it.
LEMMA TakeOutInv ==
  ASSUME ConstantsAssumption, IInv, NEW t \in Task, NEW S \in SUBSET Of(t),
         NEW pc \in {"flags", "observe"}, TakeOut(t, S, pc),
         UNCHANGED <<old, active, monitor, History>>,
         runner[t].pc # "diagnose", runner[t].failing => pc = "observe",
         \A q \in ((pending \ S) \ AppRequest) \ left : TaskOf[q] # t
  PROVE  IInv'
  <1>. DEFINE l == [runner[t] EXCEPT !.pc = "diagnose", !.hand = S, !.then = pc]
  <1>1. /\ runner[t] \in RunnerState /\ active \subseteq Task
        /\ pending \subseteq Request
    BY DEF IInv, TypeOK, ConstantsAssumption
  <1>2. runner[t].hand = {} BY DEF IInv, HandsHeld
  <1>3. S \in SUBSET Broker BY DEF Of, IInv, TypeOK
  <1>4. /\ l \in RunnerState /\ l.hand = S /\ l.pc = "diagnose" /\ l.then = pc
        /\ l.failing = runner[t].failing
    BY <1>1, <1>3 DEF RunnerState, RunnerPC
  <1>5. Move(t, l) /\ pending' = pending \ S BY DEF TakeOut
  <1>. HIDE DEF l
  <1>. QED BY <1>1, <1>2, <1>4, <1>5, TakeOutStep

\* A tick: what is overdue expires.
LEMMA TickInv ==
  ASSUME ConstantsAssumption, IInv, NEW t \in Task, Tick(t) PROVE IInv'
  <1>1. /\ runner[t].pc = "next" /\ TakeOut(t, Overdue(t), "flags")
        /\ UNCHANGED <<old, active, monitor, History>>
    BY DEF Tick
  <1>2. \A q \in (pending \ AppRequest) \ left : TaskOf[q] # t
    BY <1>1, NothingWaits
  <1>3. ~runner[t].failing BY <1>1 DEF IInv, FailingLast
  <1>4. Overdue(t) \in SUBSET Of(t) BY DEF Overdue
  <1>. QED BY <1>1, <1>2, <1>3, <1>4, TakeOutInv

\* _finish: everything of the task is cleared.
LEMMA ClearInv ==
  ASSUME ConstantsAssumption, IInv, NEW t \in Task, Clear(t) PROVE IInv'
  BY TakeOutInv DEF Clear, Of

\* The source is exhausted.
LEMMA EndOfSourceInv ==
  ASSUME ConstantsAssumption, IInv, NEW t \in Task, EndOfSource(t) PROVE IInv'
  <1>1. /\ runner[t] \in RunnerState /\ active \subseteq Task
        /\ pending \subseteq Request
    BY DEF IInv, TypeOK, ConstantsAssumption
  <1>2. /\ runner[t].pc = "next" /\ UNCHANGED <<old, active, monitor, History>>
    BY DEF EndOfSource
  <1>3. \A q \in (pending \ AppRequest) \ left : TaskOf[q] # t
    BY <1>2, NothingWaits
  <1>4. runner[t].hand = {} /\ ~runner[t].failing
    BY <1>2 DEF IInv, HandsHeld, FailingLast
  <1>5. CASE Kind[t] = "backtest"
    <2>. DEFINE l == [runner[t] EXCEPT !.pc = "diagnose", !.hand = Overdue(t),
                                       !.then = "call", !.phase = "stop"]
    <2>1. Overdue(t) \in SUBSET Of(t) /\ Overdue(t) \in SUBSET Broker
      BY DEF Overdue, Of, IInv, TypeOK
    <2>2. /\ l \in RunnerState /\ l.hand = Overdue(t) /\ l.pc = "diagnose"
          /\ l.then = "call" /\ ~l.failing
      BY <1>1, <1>4, <2>1 DEF RunnerState, RunnerPC
    <2>3. Move(t, l) /\ pending' = pending \ Overdue(t)
      BY <1>5 DEF EndOfSource
    <2>. HIDE DEF l
    <2>. QED BY <1>1, <1>2, <1>3, <1>4, <2>1, <2>2, <2>3, TakeOutStep
  <1>6. CASE Kind[t] # "backtest"
    <2>. DEFINE l == [runner[t] EXCEPT !.pc = "call", !.hand = {},
                                       !.then = "call", !.phase = "stop"]
    <2>1. l \in RunnerState /\ l.hand = {} /\ l.pc = "call" /\ ~l.failing
      BY <1>1, <1>4 DEF RunnerState, RunnerPC
    <2>2. Move(t, l) /\ pending' = pending BY <1>6 DEF EndOfSource
    <2>. HIDE DEF l
    <2>. QED BY <1>1, <1>2, <1>3, <2>1, <2>2, IdleStep
  <1>. QED BY <1>5, <1>6

\* A runner with no diagnostic left goes on; one that has delivers one, and
\* drops the others when a handler raises.
LEMMA DiagnoseInv ==
  ASSUME ConstantsAssumption, IInv, NEW t \in Task, Diagnose(t) PROVE IInv'
  <1>. USE DEF IInv
  <1>1. /\ runner[t] \in RunnerState /\ runner \in [Task -> RunnerState]
        /\ runner[t].pc = "diagnose"
        /\ UNCHANGED <<pending, old, active, monitor, issued, answered, left>>
    BY DEF TypeOK, Diagnose
  <1>2. \A q \in (pending \ AppRequest) \ left : TaskOf[q] # t
    BY <1>1, NothingWaits
  <1>3. PICK l \in RunnerState, gone \in SUBSET runner[t].hand :
          /\ Move(t, l) /\ l.hand \subseteq runner[t].hand \ gone
          /\ diagnosed' = diagnosed \cup gone
          /\ lost' = lost \/ lost' = lost \cup (runner[t].hand \ gone)
          /\ runner[t].hand \subseteq gone \cup l.hand \cup lost'
          /\ \/ l.pc = "diagnose" /\ l.then = runner[t].then
                /\ l.failing = runner[t].failing
             \/ l.pc = runner[t].then /\ l.failing = runner[t].failing /\ l.hand = {}
             \/ l.pc \in {"off", "fail"} /\ ~l.failing /\ l.hand = {}
    <2>1. CASE /\ runner[t].hand = {} /\ Goto(t, runner[t].then)
               /\ UNCHANGED <<diagnosed, lost>>
      <3>. DEFINE l == [runner[t] EXCEPT !.pc = runner[t].then]
      <3>1. /\ l \in RunnerState /\ l.hand = {} /\ l.failing = runner[t].failing
            /\ l.pc = runner[t].then
        BY <1>1, <2>1 DEF RunnerState
      <3>2. Move(t, l) BY <2>1 DEF Goto
      <3>. HIDE DEF l
      <3>. QED BY <2>1, <3>1, <3>2
    <2>2. ASSUME NEW q \in runner[t].hand, diagnosed' = diagnosed \cup {q},
                 Move(t, [runner[t] EXCEPT !.hand = @ \ {q}]), lost' = lost
          PROVE  \E l \in RunnerState, gone \in SUBSET runner[t].hand :
                   /\ Move(t, l) /\ l.hand = runner[t].hand \ gone
                   /\ diagnosed' = diagnosed \cup gone /\ lost' = lost
                   /\ l.pc = "diagnose" /\ l.then = runner[t].then
                   /\ l.failing = runner[t].failing
      <3>. DEFINE l == [runner[t] EXCEPT !.hand = @ \ {q}]
      <3>1. /\ l \in RunnerState /\ l.hand = runner[t].hand \ {q}
            /\ l.failing = runner[t].failing /\ l.pc = "diagnose"
            /\ l.then = runner[t].then
        BY <1>1 DEF RunnerState
      <3>2. Move(t, l) BY <2>2
      <3>. HIDE DEF l
      <3>. QED BY <2>2, <3>1, <3>2
    <2>3. ASSUME NEW q \in runner[t].hand, diagnosed' = diagnosed \cup {q},
                 Fail(t), lost' = lost \cup (runner[t].hand \ {q})
          PROVE  \E l \in RunnerState, gone \in SUBSET runner[t].hand :
                   /\ Move(t, l) /\ l.hand = {} /\ ~l.failing
                   /\ l.pc \in {"off", "fail"}
                   /\ diagnosed' = diagnosed \cup gone
                   /\ lost' = lost \cup (runner[t].hand \ gone)
      BY <2>3, FailEffect
    <2>. QED BY <2>1, <2>2, <2>3 DEF Diagnose
  <1>4. /\ runner' \in [Task -> RunnerState] /\ runner'[t] = l
        /\ \A u \in Task : u # t => runner'[u] = runner[u]
    BY <1>1, <1>3, MoveEffect
  <1>5. l.pc \in {"off", "call", "flags", "observe", "fail", "diagnose"}
        /\ Work(l) = {}
    BY <1>1, <1>3 DEF ThenResumes, Work
  <1>6. runner[t].hand \subseteq Broker BY <1>1 DEF RunnerState
  <1>11. TypeOK' BY <1>1, <1>3, <1>4, <1>6 DEF TypeOK
  <1>12. IssuedFirst' BY <1>1, <1>3, <1>4 DEF IssuedFirst
  <1>13. HandsHeld' BY <1>1, <1>3, <1>4 DEF HandsHeld
  <1>14. RemovedOnce' BY <1>1, <1>3, <1>4 DEF RemovedOnce
  <1>15. Accounted' BY <1>1, <1>3, <1>4 DEF Accounted, Hands
  <1>16. OwnSettled'
    BY <1>1, <1>2, <1>4 DEF OwnSettled, AtWork, ConstantsAssumption, TypeOK
  <1>17. BacktestAlone'
    BY <1>1, <1>3, <1>4, <1>5
       DEF BacktestAlone, AtWork, HandsHeld, ConstantsAssumption
  <1>18. ASSUME NEW u \in Task
         PROVE  (WorkOK(u, runner[u]) /\ FailingLast(u) /\ ThenResumes(u))'
    BY <1>1, <1>3, <1>4, <1>5 DEF WorkOK, FailingLast, ThenResumes
  <1>. QED BY <1>11, <1>12, <1>13, <1>14, <1>15, <1>16, <1>17, <1>18

\* Every step of a runner keeps the invariant.
LEMMA RunnerInv ==
  ASSUME ConstantsAssumption, IInv, NEW t \in Task, RunnerStep(t) PROVE IInv'
  BY LaunchInv, CallbackInv, PublishInv, PublishedInv, ExecuteInv, ReportInv,
     ReportedInv, TickInv, EndOfSourceInv, SourceRaisesInv, FlagsInv,
     FailTaskInv, ClearInv, ObserveInv, DiagnoseInv
     DEF RunnerStep

-----------------------------------------------------------------------------
\* The other threads.

\* What does not depend on the monitor and the sets stays when the runners do
\* not move and nothing is published.
LEMMA RunnersStand ==
  ASSUME IInv, UNCHANGED <<runner, issued>>
  PROVE  \A t \in Task : (WorkOK(t, runner[t]) /\ FailingLast(t) /\ ThenResumes(t))'
  BY DEF IInv, WorkOK, Work, FailingLast, ThenResumes

\* The monitor takes snapshots and checks: it holds nothing.
LEMMA MonitorLooks ==
  ASSUME ConstantsAssumption, IInv, MonitorScan \/ MonitorCheck \/ MonitorStop
  PROVE  IInv'
  <1>. USE DEF IInv, MonitorOnly
  <1>1. UNCHANGED <<pending, old, runner, active, issued, answered, diagnosed, lost, left>>
    BY DEF MonitorScan, MonitorCheck, MonitorStop
  <1>2. monitor \in MonitorState /\ monitor.pc \in {"wait", "scan"} /\ monitor.hand = {}
    BY DEF TypeOK, MonitorScan, MonitorCheck, MonitorStop, HandsHeld
  <1>3. /\ monitor' \in MonitorState /\ monitor'.hand = {}
        /\ monitor'.pc = "expire" => Kind[monitor'.task] = "trading"
        /\ monitor'.pc # "publish"
    <2>1. CASE MonitorScan
      BY <1>2, <2>1 DEF MonitorScan, MonitorState
    <2>2. CASE MonitorCheck
      <3>1. CASE monitor' = [monitor EXCEPT !.pc = "wait"]
        BY <1>2, <3>1 DEF MonitorState
      <3>2. ASSUME NEW t \in monitor.tasks,
                   monitor' = [monitor EXCEPT
                     !.pc = IF Watched(t) THEN "expire" ELSE @,
                     !.tasks = @ \ {t}, !.task = t]
            PROVE  /\ monitor' \in MonitorState /\ monitor'.hand = {}
                   /\ monitor'.pc = "expire" => Kind[monitor'.task] = "trading"
                   /\ monitor'.pc # "publish"
        <4>1. monitor.pc = "scan" BY <2>2 DEF MonitorCheck
        <4>. QED BY <1>2, <3>2, <4>1 DEF MonitorState, Watched
      <3>. QED BY <2>2, <3>1, <3>2 DEF MonitorCheck
    <2>3. CASE MonitorStop
      BY <1>2, <2>3 DEF MonitorStop, MonitorState
    <2>. QED BY <2>1, <2>2, <2>3
  <1>11. TypeOK' BY <1>1, <1>3 DEF TypeOK
  <1>12. IssuedFirst' BY <1>1, <1>3 DEF IssuedFirst
  <1>13. HandsHeld' BY <1>1, <1>3 DEF HandsHeld
  <1>14. RemovedOnce' BY <1>1, <1>3 DEF RemovedOnce
  <1>15. Accounted' BY <1>1, <1>2, <1>3 DEF Accounted, Hands
  <1>16. OwnSettled' BY <1>1 DEF OwnSettled, AtWork, Work
  <1>17. BacktestAlone' BY <1>1 DEF BacktestAlone, AtWork, Work
  <1>. QED BY <1>1, <1>11, <1>12, <1>13, <1>14, <1>15, <1>16, <1>17, RunnersStand

\* The monitor takes what is overdue of a live trading task out of the store.
LEMMA MonitorExpireInv ==
  ASSUME ConstantsAssumption, IInv, MonitorExpire PROVE IInv'
  <1>. USE DEF IInv
  <1>. DEFINE due == Overdue(monitor.task)
  <1>1. /\ UNCHANGED <<old, runner, active, issued, answered, diagnosed, lost, left>>
        /\ monitor.pc = "expire" /\ pending' = pending \ due
        /\ monitor' = [monitor EXCEPT !.pc = "publish", !.hand = due]
    BY DEF MonitorExpire, MonitorOnly
  <1>2. /\ monitor \in MonitorState /\ monitor.hand = {}
        /\ Kind[monitor.task] = "trading"
    BY <1>1 DEF TypeOK, HandsHeld
  <1>3. /\ due \subseteq pending /\ pending \subseteq Broker
        /\ \A q \in due : TaskOf[q] = monitor.task
    BY DEF Overdue, Of, TypeOK
  <1>. HIDE DEF due
  <1>4. /\ monitor' \in MonitorState /\ monitor'.pc = "publish"
        /\ monitor'.hand = due /\ monitor'.task = monitor.task
    BY <1>1, <1>2, <1>3 DEF MonitorState
  <1>11. TypeOK' BY <1>1, <1>4 DEF TypeOK
  <1>12. IssuedFirst' BY <1>1, <1>3, <1>4 DEF IssuedFirst
  <1>13. HandsHeld' BY <1>1, <1>2, <1>3, <1>4 DEF HandsHeld
  <1>14. RemovedOnce' BY <1>1, <1>3, <1>4 DEF RemovedOnce
  <1>15. Accounted' BY <1>1, <1>2, <1>4 DEF Accounted, Hands
  <1>16. OwnSettled' BY <1>1 DEF OwnSettled, AtWork, Work
  <1>17. BacktestAlone' BY <1>1 DEF BacktestAlone, AtWork, Work
  <1>. QED BY <1>1, <1>11, <1>12, <1>13, <1>14, <1>15, <1>16, <1>17, RunnersStand

\* The monitor delivers one diagnostic, or drops the rest and its pass.
LEMMA MonitorPublishInv ==
  ASSUME ConstantsAssumption, IInv, MonitorPublish PROVE IInv'
  <1>. USE DEF IInv
  <1>1. /\ UNCHANGED <<pending, old, runner, active, issued, answered, left>>
        /\ monitor.pc = "publish" /\ monitor \in MonitorState
        /\ Kind[monitor.task] = "trading"
    BY DEF MonitorPublish, MonitorOnly, TypeOK, HandsHeld
  <1>. DEFINE Given(gone) ==
         /\ diagnosed' = diagnosed \cup gone
         /\ monitor' \in MonitorState /\ monitor'.task = monitor.task
         /\ monitor'.hand \subseteq monitor.hand \ gone
         /\ monitor'.pc # "expire"
         /\ monitor'.pc # "publish" => monitor'.hand = {}
         /\ lost' = lost \/ lost' = lost \cup (monitor.hand \ gone)
         /\ monitor.hand \subseteq gone \cup monitor'.hand \cup lost'
  <1>2. PICK gone \in SUBSET monitor.hand : Given(gone)
    <2>1. ASSUME monitor.hand = {}, monitor' = [monitor EXCEPT !.pc = "scan"],
                 UNCHANGED <<diagnosed, lost>>
          PROVE  \E gone \in SUBSET monitor.hand : Given(gone)
      <3>1. /\ monitor' \in MonitorState /\ monitor'.task = monitor.task
            /\ monitor'.hand = {} /\ monitor'.pc = "scan"
        BY <1>1, <2>1 DEF MonitorState
      <3>2. Given({}) BY <2>1, <3>1
      <3>. QED BY <3>2
    <2>2. ASSUME NEW q \in monitor.hand, diagnosed' = diagnosed \cup {q},
                 monitor' = [monitor EXCEPT !.hand = @ \ {q}], lost' = lost
          PROVE  \E gone \in SUBSET monitor.hand : Given(gone)
      <3>1. /\ monitor' \in MonitorState /\ monitor'.task = monitor.task
            /\ monitor'.hand = monitor.hand \ {q} /\ monitor'.pc = "publish"
        BY <1>1, <2>2 DEF MonitorState
      <3>2. Given({q}) BY <2>2, <3>1
      <3>. QED BY <3>2
    <2>3. ASSUME NEW q \in monitor.hand, diagnosed' = diagnosed \cup {q},
                 lost' = lost \cup (monitor.hand \ {q}),
                 monitor' = [monitor EXCEPT !.pc = "wait", !.tasks = {}, !.hand = {}]
          PROVE  \E gone \in SUBSET monitor.hand : Given(gone)
      <3>1. /\ monitor' \in MonitorState /\ monitor'.task = monitor.task
            /\ monitor'.hand = {} /\ monitor'.pc = "wait"
        BY <1>1, <2>3 DEF MonitorState
      <3>2. Given({q}) BY <2>3, <3>1
      <3>. QED BY <3>2
    <2>4. \E gone \in SUBSET monitor.hand : Given(gone)
      <3>. HIDE DEF Given
      <3>. QED BY <2>1, <2>2, <2>3 DEF MonitorPublish
    <2>. QED BY <2>4
  <1>3. monitor.hand \subseteq Broker BY <1>1 DEF MonitorState
  <1>11. TypeOK' BY <1>1, <1>2, <1>3 DEF TypeOK
  <1>12. IssuedFirst' BY <1>1, <1>2 DEF IssuedFirst
  <1>13. HandsHeld' BY <1>1, <1>2 DEF HandsHeld
  <1>14. RemovedOnce' BY <1>1, <1>2 DEF RemovedOnce
  <1>15. Accounted' BY <1>1, <1>2 DEF Accounted, Hands
  <1>16. OwnSettled' BY <1>1 DEF OwnSettled, AtWork, Work
  <1>17. BacktestAlone'
    BY <1>1, <1>2 DEF BacktestAlone, AtWork, Work, HandsHeld
  <1>. QED BY <1>1, <1>11, <1>12, <1>13, <1>14, <1>15, <1>16, <1>17, RunnersStand

\* Time and the status of a task change nothing else.
LEMMA OutsideInv ==
  ASSUME ConstantsAssumption, IInv, UNCHANGED <<pending, runner, monitor, History>>,
         old' \subseteq Request, active' \subseteq Task
  PROVE  IInv'
  <1>. USE DEF IInv, History
  <1>11. TypeOK' BY DEF TypeOK
  <1>12. IssuedFirst' /\ HandsHeld' /\ RemovedOnce'
    BY DEF IssuedFirst, HandsHeld, RemovedOnce
  <1>13. Accounted' BY DEF Accounted, Hands
  <1>14. OwnSettled' /\ BacktestAlone'
    BY DEF OwnSettled, BacktestAlone, AtWork, Work
  <1>. QED BY <1>11, <1>12, <1>13, <1>14, RunnersStand

\* An application publishes a request no runner works on.
LEMMA AppPublishInv ==
  ASSUME ConstantsAssumption, IInv, NEW q \in Request, AppPublish(q) PROVE IInv'
  <1>. USE DEF IInv
  <1>1. /\ UNCHANGED <<old, runner, active, monitor, answered, diagnosed, lost, left>>
        /\ q \in AppRequest /\ q \notin issued
        /\ pending' = pending \cup ({q} \cap Broker) /\ issued' = issued \cup {q}
    BY DEF AppPublish
  <1>11. TypeOK' BY <1>1 DEF TypeOK
  <1>12. IssuedFirst' /\ HandsHeld' BY <1>1 DEF IssuedFirst, HandsHeld
  <1>13. RemovedOnce' BY <1>1 DEF RemovedOnce, IssuedFirst
  <1>14. Accounted' BY <1>1 DEF Accounted, Hands
  <1>15. OwnSettled' BY <1>1 DEF OwnSettled, AtWork, Work
  <1>16. BacktestAlone' BY <1>1 DEF BacktestAlone, AtWork, Work
  <1>17. ASSUME NEW t \in Task
         PROVE  (WorkOK(t, runner[t]) /\ FailingLast(t) /\ ThenResumes(t))'
    BY <1>1 DEF WorkOK, Work, FailingLast, ThenResumes
  <1>. QED BY <1>11, <1>12, <1>13, <1>14, <1>15, <1>16, <1>17

\* An application publishes a response to one of its requests.
LEMMA AppAnswerInv ==
  ASSUME ConstantsAssumption, IInv, NEW q \in Request, AppAnswer(q) PROVE IInv'
  <1>. USE DEF IInv
  <1>1. /\ UNCHANGED <<old, runner, active, monitor, issued, diagnosed, lost, left>>
        /\ q \in AppRequest \cap Broker \cap issued
        /\ pending' = pending \ {q} /\ answered' = answered \cup {q}
    BY DEF AppAnswer
  <1>11. TypeOK' BY <1>1 DEF TypeOK
  <1>12. IssuedFirst' /\ HandsHeld' BY <1>1 DEF IssuedFirst, HandsHeld
  <1>13. RemovedOnce' BY <1>1 DEF RemovedOnce
  <1>14. Accounted' BY <1>1 DEF Accounted, Hands
  <1>15. OwnSettled' BY <1>1 DEF OwnSettled, AtWork, Work
  <1>16. BacktestAlone' BY <1>1 DEF BacktestAlone, AtWork, Work
  <1>. QED BY <1>1, <1>11, <1>12, <1>13, <1>14, <1>15, <1>16, RunnersStand

-----------------------------------------------------------------------------
\* The initial states satisfy the invariant.
LEMMA InitInv ==
  ASSUME ConstantsAssumption, Init PROVE IInv
  <1>1. /\ Off \in RunnerState /\ Off.hand = {} /\ Off.pc = "off" /\ ~Off.failing
    BY DEF Off, RunnerState, RunnerPC
  <1>2. /\ runner \in [Task -> RunnerState] /\ \A t \in Task : runner[t] = Off
    BY <1>1 DEF Init
  <1>3. monitor \in MonitorState /\ monitor.pc = "wait" /\ monitor.hand = {}
    BY DEF Init, MonitorState
  <1>4. /\ pending = {} /\ old = {} /\ active = {} /\ issued = {}
        /\ answered = {} /\ diagnosed = {} /\ lost = {} /\ left = {}
    BY DEF Init
  <1>5. TypeOK BY <1>2, <1>3, <1>4 DEF TypeOK
  <1>6. IssuedFirst /\ HandsHeld /\ RemovedOnce
    BY <1>1, <1>2, <1>3, <1>4 DEF IssuedFirst, HandsHeld, RemovedOnce
  <1>7. Accounted /\ OwnSettled BY <1>4 DEF Accounted, OwnSettled
  <1>8. BacktestAlone
    BY <1>1, <1>2, <1>4 DEF BacktestAlone, AtWork, Work, ConstantsAssumption
  <1>9. ASSUME NEW t \in Task
        PROVE  WorkOK(t, runner[t]) /\ FailingLast(t) /\ ThenResumes(t)
    BY <1>1, <1>2 DEF WorkOK, Work, FailingLast, ThenResumes
  <1>. QED BY <1>5, <1>6, <1>7, <1>8, <1>9 DEF IInv

\* Every step of any thread keeps the invariant.
LEMMA StepInv ==
  ASSUME ConstantsAssumption, IInv, [Next]_vars PROVE IInv'
  <1>1. ASSUME NEW t \in Task, ChangeStatus(t) PROVE IInv'
    BY <1>1, OutsideInv DEF ChangeStatus, IInv, TypeOK
  <1>2. ASSUME NEW q \in Request, Age(q) PROVE IInv'
    BY <1>2, OutsideInv DEF Age, IInv, TypeOK
  <1>3. CASE UNCHANGED vars
    BY <1>3, OutsideInv DEF vars, History, IInv, TypeOK
  <1>4. CASE MonitorStep \/ MonitorStop
    BY <1>4, MonitorLooks, MonitorExpireInv, MonitorPublishInv DEF MonitorStep
  <1>. QED
    BY <1>1, <1>2, <1>3, <1>4, RunnerInv, AppPublishInv, AppAnswerInv DEF Next

\* IInv holds whatever the runners, the monitor and the applications do and
\* whatever raises.
THEOREM Invariance == Spec => []IInv
  <1>1. Init => IInv BY ConstantsAssumption, InitInv
  <1>2. IInv /\ [Next]_vars => IInv' BY ConstantsAssumption, StepInv
  <1>. QED BY <1>1, <1>2, PTL DEF Spec

\* Every variable keeps its type.
THEOREM TypesHold == Spec => []TypeOK
  <1>1. IInv => TypeOK BY DEF IInv
  <1>. QED BY <1>1, Invariance, PTL

\* Nobody diagnoses a request twice, and none waits that is being diagnosed:
\* expire and clear of any thread may run at the same time.
THEOREM RemovedOnceHolds == Spec => []RemovedOnce
  <1>1. IInv => RemovedOnce BY DEF IInv
  <1>. QED BY <1>1, Invariance, PTL

\* No request sent for the broker vanishes from the books of the bus.
THEOREM AccountedHolds == Spec => []Accounted
  <1>1. IInv => Accounted BY DEF IInv
  <1>. QED BY <1>1, Invariance, PTL

\* Between ticks no request of the strategy waits, unless a run died.
THEOREM SettledHolds == Spec => []Settled
  <1>1. IInv => Settled BY DEF IInv, OwnSettled, Settled, AtWork, Work
  <1>. QED BY <1>1, Invariance, PTL

\* A backtest's request is answered or diagnosed, never both.
THEOREM OneOutcomeHolds == Spec => []OneOutcome
  <1>1. IInv => OneOutcome BY DEF IInv, BacktestAlone, OneOutcome
  <1>. QED BY <1>1, Invariance, PTL

-----------------------------------------------------------------------------
\* PendingRequests implements RequestOutcome.

\* One step on the bus, as those who listen to it see it.
Seen == LostForGood' /\ [Outcome!Next]_(Outcome!vars)

\* The requests in hand, runner t apart.
LEMMA HandsApart ==
  ASSUME ConstantsAssumption, TypeOK, NEW t \in Task
  PROVE  \A q : q \in Hands <=>
           \/ q \in monitor.hand \/ q \in runner[t].hand
           \/ \E u \in Task \ {t} : q \in runner[u].hand
  <1>1. \A u \in Task : runner[u].hand \subseteq Request
    BY DEF TypeOK, RunnerState, ConstantsAssumption
  <1>. QED BY <1>1 DEF Hands

\* The same after a step in which no other runner moves.
LEMMA HandsApartNext ==
  ASSUME ConstantsAssumption, TypeOK', NEW t \in Task,
         \A u \in Task \ {t} : runner'[u] = runner[u]
  PROVE  \A q : q \in Hands' <=>
           \/ q \in monitor'.hand \/ q \in runner'[t].hand
           \/ \E u \in Task \ {t} : q \in runner[u].hand
  <1>1. \A u \in Task : runner'[u].hand \subseteq Request
    BY DEF TypeOK, RunnerState, ConstantsAssumption
  <1>. QED BY <1>1 DEF Hands

\* A step that leaves what is believed, answered and diagnosed is a stutter.
LEMMA NothingSeen ==
  ASSUME LostForGood', Believed' = Believed, UNCHANGED <<answered, diagnosed>>
  PROVE  Seen
  BY DEF Seen, Believed, Outcome!vars

\* What is in hand stays with a runner that diagnoses neither before nor after
\* its step.
LEMMA HandsStay ==
  ASSUME ConstantsAssumption, IInv, IInv', NEW t \in Task,
         \A u \in Task \ {t} : runner'[u] = runner[u],
         monitor'.hand = monitor.hand,
         runner[t].pc # "diagnose", runner'[t].pc # "diagnose"
  PROVE  Hands' = Hands
  <1>1. runner[t].hand = {} /\ runner'[t].hand = {} BY DEF IInv, HandsHeld
  <1>2. TypeOK /\ TypeOK' BY DEF IInv
  <1>3. \A q : q \in Hands' <=> q \in Hands
    BY <1>1, <1>2, HandsApart, HandsApartNext
  <1>. QED BY <1>3 DEF Hands

\* Such a runner shows nothing, unless it publishes or reports.
LEMMA QuietSeen ==
  ASSUME ConstantsAssumption, IInv, IInv', LostForGood, NEW t \in Task,
         \A u \in Task \ {t} : runner'[u] = runner[u],
         UNCHANGED <<pending, issued, answered, diagnosed, lost>>,
         monitor'.hand = monitor.hand,
         runner[t].pc # "diagnose", runner'[t].pc # "diagnose"
  PROVE  Seen
  <1>1. Hands' = Hands BY HandsStay
  <1>. QED BY <1>1, NothingSeen DEF LostForGood, Believed

\* The steps of a runner that are quiet.
LEMMA QuietRunner ==
  ASSUME ConstantsAssumption, IInv, IInv', LostForGood, NEW t \in Task,
         \/ Launch(t) \/ Callback(t) \/ Published(t) \/ Execute(t) \/ Reported(t)
         \/ SourceRaises(t) \/ Flags(t) \/ FailTask(t) \/ Observe(t)
  PROVE  Seen
  <1>1. runner[t] \in RunnerState /\ runner \in [Task -> RunnerState]
    BY DEF IInv, TypeOK
  <1>2. UNCHANGED <<pending, issued, answered, diagnosed, lost>>
    BY DEF Launch, Callback, Published, Execute, Reported, SourceRaises, Flags,
           FailTask, Observe, History
  <1>3. monitor' = monitor \/ monitor' = [monitor EXCEPT !.tasks = @ \ {t}]
    BY DEF Launch, Callback, Published, Execute, Reported, SourceRaises, Flags,
           FailTask, Observe
  <1>4. monitor'.hand = monitor.hand
    BY <1>3 DEF IInv, TypeOK, MonitorState
  <1>5. runner[t].pc # "diagnose"
    BY DEF Launch, Callback, Published, Execute, Reported, SourceRaises, Flags,
           FailTask, Observe
  <1>6. (\E pc \in RunnerPC \ {"diagnose"} : Goto(t, pc)) \/ Move(t, Off)
        \/ Fail(t) \/ Move(t, [Off EXCEPT !.pc = "next"])
        \/ Move(t, [Off EXCEPT !.pc = "clear"])
        \/ Move(t, [Off EXCEPT !.pc = "clear", !.failing = TRUE])
        \/ (\E S \in SUBSET Request :
              Move(t, [runner[t] EXCEPT !.pc = "publish", !.batch = S, !.todo = S]))
        \/ (\E S \in SUBSET Request, U \in SUBSET Request :
              Move(t, [runner[t] EXCEPT !.pc = "report", !.todo = S, !.extra = U]))
    <2>1. CASE Launch(t) \/ Published(t) \/ Flags(t) \/ Observe(t)
      BY <2>1 DEF Launch, Published, Flags, Observe, RunnerPC
    <2>2. CASE Callback(t) \/ SourceRaises(t)
      BY <2>2 DEF Callback, SourceRaises
    <2>3. CASE Execute(t)
      <3>1. runner[t].batch \cap Broker \in SUBSET Request
        BY <1>1 DEF RunnerState
      <3>. QED BY <2>3, <3>1 DEF Execute
    <2>4. CASE Reported(t) \/ FailTask(t) BY <2>4 DEF Reported, FailTask
    <2>. QED BY <2>1, <2>2, <2>3, <2>4
  <1>7. PICK l : Move(t, l) /\ l.pc # "diagnose"
    <2>1. ASSUME NEW pc \in RunnerPC \ {"diagnose"}, Goto(t, pc)
          PROVE  \E l : Move(t, l) /\ l.pc # "diagnose"
      <3>1. [runner[t] EXCEPT !.pc = pc].pc = pc BY <1>1 DEF RunnerState
      <3>. QED BY <2>1, <3>1 DEF Goto
    <2>2. CASE \/ Move(t, Off) \/ Fail(t) \/ Move(t, [Off EXCEPT !.pc = "next"])
               \/ Move(t, [Off EXCEPT !.pc = "clear"])
               \/ Move(t, [Off EXCEPT !.pc = "clear", !.failing = TRUE])
      <3>1. /\ Off.pc = "off" /\ [Off EXCEPT !.pc = "next"].pc = "next"
            /\ [Off EXCEPT !.pc = "clear"].pc = "clear"
            /\ [Off EXCEPT !.pc = "fail"].pc = "fail"
            /\ [Off EXCEPT !.pc = "clear", !.failing = TRUE].pc = "clear"
        BY DEF Off
      <3>. QED BY <2>2, <3>1 DEF Fail
    <2>3. ASSUME NEW S \in SUBSET Request,
                 Move(t, [runner[t] EXCEPT !.pc = "publish", !.batch = S, !.todo = S])
          PROVE  \E l : Move(t, l) /\ l.pc # "diagnose"
      <3>1. [runner[t] EXCEPT !.pc = "publish", !.batch = S, !.todo = S].pc = "publish"
        BY <1>1 DEF RunnerState
      <3>. QED BY <2>3, <3>1
    <2>4. ASSUME NEW S \in SUBSET Request, NEW U \in SUBSET Request,
                 Move(t, [runner[t] EXCEPT !.pc = "report", !.todo = S, !.extra = U])
          PROVE  \E l : Move(t, l) /\ l.pc # "diagnose"
      <3>1. [runner[t] EXCEPT !.pc = "report", !.todo = S, !.extra = U].pc = "report"
        BY <1>1 DEF RunnerState
      <3>. QED BY <2>4, <3>1
    <2>. QED BY <1>6, <2>1, <2>2, <2>3, <2>4
  <1>8. runner'[t].pc # "diagnose" /\ \A u \in Task \ {t} : runner'[u] = runner[u]
    BY <1>1, <1>7 DEF Move
  <1>. QED BY <1>2, <1>4, <1>5, <1>8, QuietSeen

\* A request that is published waits from now on, if it is for the broker.
LEMMA IssueSeen ==
  ASSUME ConstantsAssumption, IInv, LostForGood, NEW q \in Request, q \notin issued,
         pending' = pending \cup ({q} \cap Broker), issued' = issued \cup {q},
         Hands' = Hands, UNCHANGED <<answered, diagnosed, lost>>
  PROVE  Seen
  <1>1. q \notin pending \cup Hands \cup lost \cup answered \cup diagnosed
    BY DEF IInv, IssuedFirst, Hands, LostForGood
  <1>2. LostForGood' BY <1>1 DEF LostForGood
  <1>3. CASE q \in Broker
    <2>1. Believed' = Believed \cup {q} BY <1>3 DEF Believed
    <2>2. Outcome!Issue(q) BY <1>1, <2>1 DEF Outcome!Issue, Believed
    <2>. QED BY <1>2, <1>3, <2>2 DEF Seen, Outcome!Next
  <1>4. CASE q \notin Broker
    <2>1. Believed' = Believed BY <1>4 DEF Believed
    <2>. QED BY <1>2, <2>1, NothingSeen
  <1>. QED BY <1>3, <1>4

\* A response is passed on whether the request still waits or not.
LEMMA AnswerSeen ==
  ASSUME ConstantsAssumption, IInv, LostForGood, NEW q \in Broker, q \in issued,
         pending' = pending \ {q}, answered' = answered \cup {q},
         Hands' = Hands, UNCHANGED <<issued, diagnosed, lost>>
  PROVE  Seen
  <1>1. LostForGood' BY DEF LostForGood
  <1>2. q \in Believed \cup answered \cup diagnosed
    BY DEF IInv, Accounted, Believed
  <1>3. q \in pending => q \notin Hands \cup lost
    BY DEF IInv, RemovedOnce, Hands, LostForGood
  <1>4. Believed' = IF q \in pending THEN Believed \ {q} ELSE Believed
    BY <1>3 DEF Believed
  <1>5. CASE q \in Believed \cup diagnosed
    <2>1. Outcome!Answer(q) BY <1>4, <1>5 DEF Outcome!Answer, Believed
    <2>. QED BY <1>1, <2>1 DEF Seen, Outcome!Next
  <1>6. CASE q \notin Believed \cup diagnosed
    <2>1. q \notin pending /\ q \in answered BY <1>2, <1>6 DEF Believed
    <2>2. Believed' = Believed /\ answered' = answered BY <1>4, <2>1
    <2>. QED BY <1>1, <2>2, NothingSeen
  <1>. QED BY <1>5, <1>6

\* What a thread takes out of the store it holds: nothing is seen of it.
LEMMA TakeOutSeen ==
  ASSUME LostForGood, NEW S \in SUBSET pending, pending' = pending \ S,
         Hands' = Hands \cup S, UNCHANGED <<issued, answered, diagnosed, lost>>
  PROVE  Seen
  <1>1. LostForGood' BY DEF LostForGood
  <1>2. Believed' = Believed BY DEF Believed
  <1>. QED BY <1>1, <1>2, NothingSeen

\* A diagnostic settles its request; those that are dropped go on waiting.
LEMMA DiagnoseSeen ==
  ASSUME ConstantsAssumption, IInv, LostForGood, NEW q \in Hands \cap Broker,
         NEW dropped \in SUBSET (Hands \ {q}),
         Hands' = Hands \ ({q} \cup dropped),
         diagnosed' = diagnosed \cup {q}, lost' = lost \cup dropped,
         UNCHANGED <<pending, issued, answered>>
  PROVE  Seen
  <1>1. Hands \cap (pending \cup diagnosed) = {} /\ Hands \subseteq issued
    BY DEF IInv, RemovedOnce, Hands, IssuedFirst
  <1>2. LostForGood' BY <1>1 DEF LostForGood
  <1>3. q \in Believed /\ Believed' = Believed \ {q}
    BY <1>1 DEF Believed, LostForGood
  <1>4. Outcome!Diagnose(q) BY <1>3 DEF Outcome!Diagnose, Believed
  <1>. QED BY <1>2, <1>4 DEF Seen, Outcome!Next

\* Where a runner that does not diagnose goes leaves what is in hand.
LEMMA MoveHands ==
  ASSUME ConstantsAssumption, IInv, IInv', NEW t \in Task, NEW l, Move(t, l),
         l.pc # "diagnose", runner[t].pc # "diagnose", UNCHANGED monitor
  PROVE  Hands' = Hands
  <1>1. runner \in [Task -> RunnerState] BY DEF IInv, TypeOK
  <1>2. runner'[t] = l /\ \A u \in Task \ {t} : runner'[u] = runner[u]
    BY <1>1 DEF Move
  <1>. QED BY <1>2, HandsStay

\* A publication and a report show their request.
LEMMA PublishSeen ==
  ASSUME ConstantsAssumption, IInv, IInv', LostForGood, NEW t \in Task, Publish(t)
  PROVE  Seen
  <1>1. /\ runner[t] \in RunnerState /\ runner[t].pc = "publish"
        /\ UNCHANGED <<monitor, answered, diagnosed, lost>>
    BY DEF Publish, IInv, TypeOK
  <1>2. PICK q \in runner[t].todo :
          /\ pending' = pending \cup ({q} \cap Broker) /\ issued' = issued \cup {q}
          /\ Move(t, [runner[t] EXCEPT !.todo = @ \ {q}]) \/ Fail(t)
    BY DEF Publish
  <1>3. q \in Request /\ q \notin issued
    <2>1. WorkOK(t, runner[t]) BY DEF IInv
    <2>. QED BY <1>1, <1>2, <2>1 DEF WorkOK, RunnerState
  <1>4. Hands' = Hands
    <2>1. [runner[t] EXCEPT !.todo = @ \ {q}].pc = "publish"
      BY <1>1 DEF RunnerState
    <2>2. CASE Fail(t) BY <1>1, <2>2, FailEffect, MoveHands
    <2>. QED BY <1>1, <1>2, <2>1, <2>2, MoveHands
  <1>. QED BY <1>1, <1>2, <1>3, <1>4, IssueSeen

LEMMA ReportSeen ==
  ASSUME ConstantsAssumption, IInv, IInv', LostForGood, NEW t \in Task, Report(t)
  PROVE  Seen
  <1>1. /\ runner[t] \in RunnerState /\ runner[t].pc = "report"
        /\ UNCHANGED <<monitor, issued, diagnosed, lost>>
    BY DEF Report, IInv, TypeOK
  <1>. DEFINE m(q) ==
         [runner[t] EXCEPT
            !.todo = IF q \in runner[t].extra THEN @ ELSE @ \ {q},
            !.extra = @ \ {q}]
  <1>2. PICK q \in runner[t].todo :
          /\ pending' = pending \ {q} /\ answered' = answered \cup {q}
          /\ Move(t, m(q)) \/ Fail(t)
    BY DEF Report
  <1>3. q \in Broker /\ q \in issued
    <2>1. WorkOK(t, runner[t]) BY DEF IInv
    <2>. QED BY <1>1, <1>2, <2>1 DEF WorkOK, Work
  <1>4. Hands' = Hands
    <2>1. m(q).pc = "report" BY <1>1 DEF RunnerState
    <2>2. CASE Fail(t) BY <1>1, <2>2, FailEffect, MoveHands
    <2>. HIDE DEF m
    <2>. QED BY <1>1, <1>2, <2>1, <2>2, MoveHands
  <1>. QED BY <1>1, <1>2, <1>3, <1>4, AnswerSeen

\* A tick, the end of a source and _finish take requests into the runner's hand.
LEMMA TakenSeen ==
  ASSUME ConstantsAssumption, IInv, IInv', LostForGood, NEW t \in Task,
         NEW S \in SUBSET pending, NEW l, Move(t, l), l.hand = S,
         pending' = pending \ S, UNCHANGED <<monitor, History>>,
         runner[t].pc # "diagnose"
  PROVE  Seen
  <1>1. /\ runner \in [Task -> RunnerState] /\ TypeOK /\ TypeOK'
        /\ runner[t].hand = {}
    BY DEF IInv, TypeOK, HandsHeld
  <1>2. runner'[t].hand = S /\ \A u \in Task \ {t} : runner'[u] = runner[u]
    BY <1>1 DEF Move
  <1>3. \A q : q \in Hands' <=> q \in Hands \cup S
    BY <1>1, <1>2, HandsApart, HandsApartNext
  <1>4. Hands' = Hands \cup S BY <1>3 DEF Hands
  <1>. QED BY <1>4, TakeOutSeen DEF History

LEMMA TakersSeen ==
  ASSUME ConstantsAssumption, IInv, IInv', LostForGood, NEW t \in Task,
         Tick(t) \/ EndOfSource(t) \/ Clear(t)
  PROVE  Seen
  <1>1. runner[t] \in RunnerState BY DEF IInv, TypeOK
  <1>2. /\ runner[t].pc # "diagnose" /\ UNCHANGED <<monitor, History>>
    BY DEF Tick, EndOfSource, Clear
  <1>3. PICK S, l :
          S \in SUBSET pending /\ Move(t, l) /\ l.hand = S /\ pending' = pending \ S
    <2>1. ASSUME NEW S \in SUBSET pending, NEW pc, TakeOut(t, S, pc)
          PROVE  \E l : Move(t, l) /\ l.hand = S /\ pending' = pending \ S
      <3>1. [runner[t] EXCEPT !.pc = "diagnose", !.hand = S, !.then = pc].hand = S
        BY <1>1 DEF RunnerState
      <3>. QED BY <2>1, <3>1 DEF TakeOut
    <2>2. Overdue(t) \in SUBSET pending /\ Of(t) \in SUBSET pending
      BY DEF Overdue, Of
    <2>3. CASE Tick(t) BY <2>1, <2>2, <2>3 DEF Tick
    <2>4. CASE Clear(t) BY <2>1, <2>2, <2>4 DEF Clear
    <2>5. CASE EndOfSource(t)
      <3>. DEFINE S == IF Kind[t] = "backtest" THEN Overdue(t) ELSE {}
                  pc == IF Kind[t] = "backtest" THEN "diagnose" ELSE "call"
                  l == [runner[t] EXCEPT !.pc = pc, !.hand = S, !.then = "call",
                                         !.phase = "stop"]
      <3>1. Move(t, l) /\ pending' = pending \ S BY <2>5 DEF EndOfSource
      <3>2. l.hand = S /\ S \in SUBSET pending BY <1>1, <2>2 DEF RunnerState
      <3>. HIDE DEF S, l
      <3>. QED BY <3>1, <3>2
    <2>. QED BY <2>3, <2>4, <2>5
  <1>. QED BY <1>2, <1>3, TakenSeen

\* A runner publishes one diagnostic, or drops those after it.
LEMMA DiagnoseShown ==
  ASSUME ConstantsAssumption, IInv, IInv', LostForGood, NEW t \in Task, Diagnose(t)
  PROVE  Seen
  <1>1. /\ runner \in [Task -> RunnerState] /\ runner[t] \in RunnerState
        /\ TypeOK /\ TypeOK' /\ runner[t].hand \subseteq Broker
        /\ UNCHANGED <<pending, monitor, issued, answered>>
    BY DEF IInv, TypeOK, Diagnose, RunnerState
  <1>2. CASE /\ runner[t].hand = {} /\ Goto(t, runner[t].then)
             /\ UNCHANGED <<diagnosed, lost>>
    <2>1. /\ runner'[t].hand = {}
          /\ \A u \in Task \ {t} : runner'[u] = runner[u]
      BY <1>1, <1>2 DEF Goto, Move, RunnerState
    <2>2. \A q : q \in Hands' <=> q \in Hands
      BY <1>1, <1>2, <2>1, HandsApart, HandsApartNext
    <2>3. Hands' = Hands BY <2>2 DEF Hands
    <2>. QED BY <1>1, <1>2, <2>3, NothingSeen DEF LostForGood, Believed
  <1>3. ASSUME NEW q \in runner[t].hand, NEW dropped \in SUBSET (runner[t].hand \ {q}),
               diagnosed' = diagnosed \cup {q}, lost' = lost \cup dropped,
               NEW l, Move(t, l), l.hand = runner[t].hand \ ({q} \cup dropped)
        PROVE  Seen
    <2>1. runner'[t] = l /\ \A u \in Task \ {t} : runner'[u] = runner[u]
      BY <1>1, <1>3 DEF Move
    <2>2. /\ runner[t].hand \cap monitor.hand = {}
          /\ \A u \in Task \ {t} : runner[t].hand \cap runner[u].hand = {}
      BY DEF IInv, RemovedOnce
    <2>3. \A p : p \in Hands' <=> p \in Hands \ ({q} \cup dropped)
      BY <1>1, <1>3, <2>1, <2>2, HandsApart, HandsApartNext
    <2>4. Hands' = Hands \ ({q} \cup dropped) BY <2>3 DEF Hands
    <2>5. runner[t].hand \subseteq Hands BY <1>1, HandsApart
    <2>. QED BY <1>1, <1>3, <2>4, <2>5, DiagnoseSeen
  <1>4. CASE \E q \in runner[t].hand :
               /\ diagnosed' = diagnosed \cup {q}
               /\ \/ /\ Move(t, [runner[t] EXCEPT !.hand = @ \ {q}])
                     /\ UNCHANGED lost
                  \/ /\ lost' = lost \cup (runner[t].hand \ {q}) /\ Fail(t)
    <2>1. PICK q \in runner[t].hand :
            /\ diagnosed' = diagnosed \cup {q}
            /\ \/ /\ Move(t, [runner[t] EXCEPT !.hand = @ \ {q}])
                  /\ UNCHANGED lost
               \/ /\ lost' = lost \cup (runner[t].hand \ {q}) /\ Fail(t)
      BY <1>4
    <2>2. CASE Move(t, [runner[t] EXCEPT !.hand = @ \ {q}]) /\ UNCHANGED lost
      <3>1. [runner[t] EXCEPT !.hand = @ \ {q}].hand = runner[t].hand \ {q}
        BY <1>1 DEF RunnerState
      <3>2. /\ {} \in SUBSET (runner[t].hand \ {q}) /\ lost = lost \cup {}
            /\ runner[t].hand \ {q} = runner[t].hand \ ({q} \cup {})
        OBVIOUS
      <3>. QED BY <1>3, <2>1, <2>2, <3>1, <3>2
    <2>3. CASE lost' = lost \cup (runner[t].hand \ {q}) /\ Fail(t)
      <3>1. PICK l \in RunnerState : Move(t, l) /\ l.hand = {}
        BY <2>3, FailEffect
      <3>2. l.hand = runner[t].hand \ ({q} \cup (runner[t].hand \ {q}))
        BY <3>1
      <3>. QED BY <1>3, <2>1, <2>3, <3>1, <3>2
    <2>. QED BY <2>1, <2>2, <2>3
  <1>. QED BY <1>2, <1>4 DEF Diagnose

\* The monitor's steps: only what it holds changes with them.
LEMMA MonitorHands ==
  ASSUME UNCHANGED runner, (monitor.hand)' = monitor.hand PROVE Hands' = Hands
  BY DEF Hands

LEMMA MonitorShown ==
  ASSUME ConstantsAssumption, IInv, IInv', LostForGood, MonitorStep \/ MonitorStop
  PROVE  Seen
  <1>1. /\ UNCHANGED <<runner, issued, answered>>
        /\ monitor \in MonitorState /\ monitor.hand \subseteq Broker
    BY DEF MonitorStep, MonitorScan, MonitorCheck, MonitorExpire, MonitorPublish,
           MonitorStop, MonitorOnly, IInv, TypeOK, MonitorState
  <1>2. CASE MonitorScan \/ MonitorCheck \/ MonitorStop
    <2>1. /\ monitor'.hand = monitor.hand /\ UNCHANGED <<pending, diagnosed, lost>>
      BY <1>1, <1>2 DEF MonitorScan, MonitorCheck, MonitorStop, MonitorState
    <2>2. Hands' = Hands BY <1>1, <2>1, MonitorHands
    <2>. QED BY <1>1, <2>1, <2>2, NothingSeen DEF LostForGood, Believed
  <1>3. CASE MonitorExpire
    <2>. DEFINE due == Overdue(monitor.task)
    <2>1. /\ pending' = pending \ due /\ UNCHANGED <<diagnosed, lost>>
          /\ monitor'.hand = due /\ due \in SUBSET pending /\ monitor.hand = {}
      BY <1>1, <1>3
         DEF MonitorExpire, MonitorState, Overdue, Of, IInv, HandsHeld
    <2>. HIDE DEF due
    <2>2. Hands' = Hands \cup due BY <1>1, <2>1 DEF Hands
    <2>. QED BY <1>1, <2>1, <2>2, TakeOutSeen
  <1>4. ASSUME NEW q \in monitor.hand, NEW dropped \in SUBSET (monitor.hand \ {q}),
               diagnosed' = diagnosed \cup {q}, lost' = lost \cup dropped,
               UNCHANGED pending,
               monitor'.hand = monitor.hand \ ({q} \cup dropped)
        PROVE  Seen
    <2>1. \A t \in Task : runner[t].hand \cap monitor.hand = {}
      BY DEF IInv, RemovedOnce
    <2>2. Hands' = Hands \ ({q} \cup dropped) BY <1>1, <1>4, <2>1 DEF Hands
    <2>3. monitor.hand \subseteq Hands BY DEF Hands
    <2>. QED BY <1>1, <1>4, <2>2, <2>3, DiagnoseSeen
  <1>5. CASE MonitorPublish
    <2>1. UNCHANGED pending BY <1>5 DEF MonitorPublish
    <2>2. CASE /\ monitor' = [monitor EXCEPT !.pc = "scan"]
               /\ UNCHANGED <<diagnosed, lost>>
      <3>1. monitor'.hand = monitor.hand BY <1>1, <2>2 DEF MonitorState
      <3>2. Hands' = Hands BY <1>1, <3>1, MonitorHands
      <3>. QED BY <1>1, <2>1, <2>2, <3>2, NothingSeen DEF LostForGood, Believed
    <2>3. ASSUME NEW q \in monitor.hand, diagnosed' = diagnosed \cup {q},
                 monitor' = [monitor EXCEPT !.hand = @ \ {q}], UNCHANGED lost
          PROVE  Seen
      <3>1. monitor'.hand = monitor.hand \ {q} BY <1>1, <2>3 DEF MonitorState
      <3>2. /\ {} \in SUBSET (monitor.hand \ {q}) /\ lost = lost \cup {}
            /\ monitor.hand \ {q} = monitor.hand \ ({q} \cup {})
        OBVIOUS
      <3>. QED BY <1>4, <2>1, <2>3, <3>1, <3>2
    <2>4. ASSUME NEW q \in monitor.hand, diagnosed' = diagnosed \cup {q},
                 lost' = lost \cup (monitor.hand \ {q}),
                 monitor' = [monitor EXCEPT !.pc = "wait", !.tasks = {}, !.hand = {}]
          PROVE  Seen
      <3>1. monitor'.hand = {} BY <1>1, <2>4 DEF MonitorState
      <3>2. {} = monitor.hand \ ({q} \cup (monitor.hand \ {q})) OBVIOUS
      <3>. QED BY <1>4, <2>1, <2>4, <3>1, <3>2
    <2>. QED BY <1>5, <2>2, <2>3, <2>4 DEF MonitorPublish
  <1>. QED BY <1>2, <1>3, <1>5 DEF MonitorStep

\* Every step of any thread shows a step of the outcomes, or none.
LEMMA StepSeen ==
  ASSUME ConstantsAssumption, IInv, IInv', LostForGood, [Next]_vars
  PROVE  Seen
  <1>1. ASSUME NEW t \in Task, RunnerStep(t) PROVE Seen
    BY <1>1, QuietRunner, PublishSeen, ReportSeen, TakersSeen, DiagnoseShown
       DEF RunnerStep
  <1>2. ASSUME UNCHANGED <<pending, runner, monitor, issued, answered, diagnosed, lost>>
        PROVE  Seen
    BY <1>2, NothingSeen DEF LostForGood, Believed, Hands
  <1>3. ASSUME NEW t \in Task, ChangeStatus(t) PROVE Seen
    BY <1>2, <1>3 DEF ChangeStatus, History
  <1>4. ASSUME NEW q \in Request, Age(q) PROVE Seen
    BY <1>2, <1>4 DEF Age, History
  <1>5. ASSUME NEW q \in Request, AppPublish(q) PROVE Seen
    BY <1>5, MonitorHands, IssueSeen DEF AppPublish
  <1>6. ASSUME NEW q \in Request, AppAnswer(q) PROVE Seen
    BY <1>6, MonitorHands, AnswerSeen DEF AppAnswer
  <1>7. CASE UNCHANGED vars BY <1>2, <1>7 DEF vars
  <1>. QED BY <1>1, <1>3, <1>4, <1>5, <1>6, <1>7, MonitorShown DEF Next

\* A diagnostic that is dropped is nobody's any more: no handler that raises
\* brings its request back (pending_strategy.py, bus.py).
THEOREM DroppedForGood == Spec => []LostForGood
  <1>1. Init => LostForGood BY DEF Init, LostForGood
  <1>2. IInv /\ IInv' /\ LostForGood /\ [Next]_vars => LostForGood'
    BY ConstantsAssumption, StepSeen DEF Seen
  <1>. QED BY <1>1, <1>2, Invariance, PTL DEF Spec

\* The bus, its runners, the monitor and the applications keep the promise of
\* RequestOutcome, whatever raises: one diagnostic at most, and only for a
\* request that waits; no request waits again that has been settled.
THEOREM OutcomeRefinement == Spec => OutcomeRefined
  <1>1. Init => Outcome!Init
    <2>1. ASSUME Init PROVE Hands = {}
      <3>1. /\ monitor.hand = {}
            /\ \A t \in Task : runner[t] = Off
        BY <2>1 DEF Init
      <3>. QED BY <3>1 DEF Hands, Off
    <2>. QED BY <2>1 DEF Init, Outcome!Init
  <1>2. IInv /\ IInv' /\ LostForGood /\ [Next]_vars => [Outcome!Next]_(Outcome!vars)
    BY ConstantsAssumption, StepSeen DEF Seen
  <1>. QED
    BY <1>1, <1>2, Invariance, DroppedForGood, PTL
       DEF Spec, OutcomeRefined, Outcome!Spec
=============================================================================
