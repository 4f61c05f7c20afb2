------------------------- MODULE WaitProgress_proofs -------------------------
(* Proofs about WaitProgress: what a reporter is told, what wait answers and   *)
(* how the bar moves, for all periods, clocks, deadlines and numbers of waits. *)
EXTENDS WaitProgress, TLAPS

\* What the waiting thread has done when it is at a place.
Places ==
  /\ pc \notin {"idle", "over"} => outcome = "none"
  /\ pc # "over" => ~finished /\ ~closed
  /\ opened => shows /\ pc \notin {"idle", "result", "start"}
  /\ pc = "result" => ~shows
  /\ pc \in {"start", "check", "decide", "poll", "update", "finish"} => shows

\* A run has returned when wait reads its task, and it has left the task in a
\* final status unless another thread has saved the task since.
RunFirst ==
  /\ pc \in {"read", "finish"} => future = "returned"
  /\ future = "returned" /\ again = "no" => task \in Ended
  /\ pc = "finish" /\ again = "no" => result \in Ended

\* The bar shows what the reporter counts, within the period.
BarCounts == bar # None => bar = units /\ (total # None => units <= total)

IInv == TypeOK /\ Places /\ EndToldOnce /\ RunFirst /\ AnswersTruly /\ BarCounts

\* The two halves of TypeOK: what is told by a Boolean, and the rest.
Flags ==
  /\ shows \in BOOLEAN /\ opened \in BOOLEAN /\ finished \in BOOLEAN
  /\ closed \in BOOLEAN
Values ==
  /\ total \in Totals /\ task \in Ended \cup {"running"}
  /\ future \in {"running", "returned", "raised", "timeout"}
  /\ again \in {"no", "saved", "yes"} /\ clock \in Int
  /\ pc \in {"idle", "result", "start", "check", "decide", "poll", "update", "read",
             "finish", "over"}
  /\ left \in Nat \cup {None} /\ poll \in Nat /\ refresh \in Nat
  /\ bar \in Nat \cup {None} /\ units \in Nat
  /\ result \in Ended \cup {"none", "running"}
  /\ outcome \in {"none", "returned", "raised", "timeout", "refused"}
  /\ waits \in Nat

LEMMA TypeHalves == TypeOK <=> Flags /\ Values
  BY DEF TypeOK, Flags, Values

USE WaitAssumption

\* A snapshot's units are within the period.
LEMMA CompletedRange ==
  ASSUME TypeOK
  PROVE  IF total = None THEN Completed = None
         ELSE total \in Nat /\ Completed \in Nat /\ Completed <= total
  <1>1. total # None => total \in Nat /\ Completed \in Nat /\ Completed <= total
    BY DEF TypeOK, Completed
  <1> QED BY <1>1 DEF Completed

\* What the reporter counts after a snapshot is no less, and within the period
\* when it was.
LEMMA ShownForward ==
  ASSUME TypeOK, NEW u \in Nat
  PROVE  /\ Shown(u) \in Nat /\ u <= Shown(u)
         /\ total # None /\ u <= total => Shown(u) <= total
  <1>1. CASE total = None
    <2>1. Completed = None BY <1>1, CompletedRange
    <2> QED BY <1>1, <2>1 DEF Shown
  <1>2. CASE total # None
    <2>1. total \in Nat /\ Completed \in Nat /\ Completed <= total /\ Completed # None
      BY <1>2, CompletedRange
    <2> QED BY <1>2, <2>1 DEF Shown
  <1> QED BY <1>1, <1>2

\* The calls of a reporter keep its types and its bar within the period.
LEMMA StartKeeps ==
  ASSUME TypeOK, BarCounts, OnStart
  PROVE  /\ bar' \in Nat /\ units' \in Nat /\ bar' = units'
         /\ total # None => units' <= total
         /\ bar # None => bar <= bar'
  <1>1. CASE bar # None
    BY <1>1 DEF OnStart, TypeOK, BarCounts
  <1>2. CASE bar = None
    <2>1. units' = Shown(0) /\ bar' = units' BY <1>2 DEF OnStart
    <2>2. total # None => 0 <= total BY CompletedRange
    <2> QED BY <1>2, <2>1, <2>2, ShownForward, 0 \in Nat
  <1> QED BY <1>1, <1>2

LEMMA UpdateKeeps ==
  ASSUME TypeOK, BarCounts, OnUpdate
  PROVE  /\ bar' \in Nat /\ units' \in Nat /\ bar' = units'
         /\ total # None => units' <= total
         /\ bar # None => bar <= bar'
  <1>1. CASE bar = None
    BY <1>1, StartKeeps DEF OnUpdate
  <1>2. CASE bar # None
    <2>1. units' = Shown(units) /\ bar' = bar + (units' - units)
      BY <1>2 DEF OnUpdate
    <2>2. bar \in Nat /\ units \in Nat /\ bar = units /\ (total # None => units <= total)
      BY <1>2 DEF TypeOK, BarCounts
    <2>3. /\ units' \in Nat /\ units <= units'
          /\ total # None => units' <= total
      BY <2>1, <2>2, ShownForward
    <2>4. bar' = units' BY <2>1, <2>2, <2>3
    <2> QED BY <2>2, <2>3, <2>4
  <1> QED BY <1>1, <1>2

LEMMA FinishKeeps ==
  ASSUME TypeOK, OnFinish
  PROVE  bar' = None /\ units' \in Nat
  BY ShownForward DEF OnFinish, TypeOK

-----------------------------------------------------------------------------
LEMMA InitInv == Init => IInv
  <1> SUFFICES ASSUME Init PROVE IInv
    OBVIOUS
  <1>1. Flags BY DEF Init, Flags
  <1>2. Values BY DEF Init, Values
  <1>3. Places /\ EndToldOnce
    BY DEF Init, Places, EndToldOnce
  <1> QED
    BY <1>1, <1>2, <1>3, TypeHalves DEF Init, IInv, RunFirst, AnswersTruly, BarCounts

\* Each step gives the flags Booleans.
LEMMA FlagsKept == Flags /\ Next => Flags'
  <1> SUFFICES ASSUME Flags, Next PROVE Flags'
    OBVIOUS
  <1> USE DEF Flags, run, reporter, asked
  <1>1. CASE Runner \/ Restart \/ PassTime
    BY <1>1, Zenon DEF Runner, MoveClock, StoreEnd, EndRun, Restart, PassTime
  <1>2. CASE StartWait
    BY <1>2, Zenon DEF StartWait
  <1>3. CASE Waiter
    <2> USE DEF Abort
    <2>1. CASE AwaitResult BY <2>1, Zenon DEF AwaitResult
    <2>2. CASE ShowStart BY <2>2, Zenon DEF ShowStart
    <2>3. CASE CheckDone BY <2>3, Zenon DEF CheckDone
    <2>4. CASE DecidePoll BY <2>4, Zenon DEF DecidePoll
    <2>5. CASE Poll BY <2>5, Zenon DEF Poll
    <2>6. CASE ShowUpdate BY <2>6, Zenon DEF ShowUpdate
    <2>7. CASE ReadTask BY <2>7, Zenon DEF ReadTask
    <2>8. CASE ShowFinish BY <2>8, Zenon DEF ShowFinish
    <2> QED BY <1>3, <2>1, <2>2, <2>3, <2>4, <2>5, <2>6, <2>7, <2>8 DEF Waiter
  <1> QED BY <1>1, <1>2, <1>3 DEF Next

\* The run and other threads change nothing of the waiting thread.
LEMMA RunnerInv == IInv /\ (Runner \/ Restart) => IInv'
  <1> SUFFICES ASSUME IInv, Runner \/ Restart PROVE IInv'
    OBVIOUS
  <1>a. total \in Totals
    BY TypeHalves DEF IInv, Values
  <1>b. total # None => total \in Int
    BY <1>a
  <1> USE DEF IInv, Places, EndToldOnce, BarCounts, Lives, Ended, reporter, asked
  <1>0. Flags' /\ (Values' => TypeOK')
    BY FlagsKept, TypeHalves DEF Next, TypeOK, Flags, Values
  <1>1. CASE MoveClock
    <2>1. Values' BY <1>1, TypeHalves DEF MoveClock, Values
    <2> QED BY <1>0, <1>1, <2>1 DEF MoveClock, RunFirst, AnswersTruly
  <1>2. CASE StoreEnd
    <2>2. clock' \in Int
      BY <1>2, <1>b, TypeHalves DEF StoreEnd, Values
    <2>3. Values' BY <1>2, <2>2, TypeHalves DEF StoreEnd, Values
    <2> QED BY <1>0, <1>2, <2>3 DEF StoreEnd, RunFirst, AnswersTruly
  <1>3. CASE EndRun
    <2>1. Values' BY <1>3, TypeHalves DEF EndRun, Values
    <2> QED BY <1>0, <1>3, <2>1 DEF EndRun, RunFirst, AnswersTruly
  <1>4. CASE Restart
    <2>1. Values' BY <1>4, TypeHalves DEF Restart, Values
    <2> QED BY <1>0, <1>4, <2>1 DEF Restart, RunFirst, AnswersTruly
  <1> QED BY <1>1, <1>2, <1>3, <1>4 DEF Runner

LEMMA TimeInv == IInv /\ PassTime => IInv'
  <1> SUFFICES ASSUME IInv, PassTime PROVE IInv'
    OBVIOUS
  <1>1. left' \in Nat \cup {None} /\ poll' \in Nat /\ (left = 0 => left' = 0)
    BY TypeHalves DEF PassTime, IInv, Values
  <1>2. pc # "over" BY DEF PassTime
  <1>3. TypeOK'
    <2>1. Values' BY <1>1, TypeHalves DEF PassTime, IInv, Values, run, reporter, asked
    <2> QED BY <2>1, FlagsKept, TypeHalves DEF IInv, Next, TypeOK, Flags, Values
  <1> QED
    BY <1>1, <1>2, <1>3 DEF PassTime, IInv, Places, EndToldOnce, RunFirst, AnswersTruly,
                      BarCounts, run, reporter, asked

LEMMA StartWaitInv == IInv /\ StartWait => IInv'
  <1> SUFFICES ASSUME IInv, StartWait PROVE IInv'
    OBVIOUS
  <1>1. TypeOK'
    <2>1. Values' BY TypeHalves DEF StartWait, IInv, Values
    <2> QED BY <2>1, FlagsKept, TypeHalves DEF IInv, Next, TypeOK, Flags, Values
  <1> QED
    BY <1>1 DEF StartWait, IInv, Places, EndToldOnce, RunFirst, AnswersTruly, BarCounts, TypeOK

\* One step of the waiting thread: what it leaves of each part of the invariant.
LEMMA WaiterTypes == IInv /\ Waiter => TypeOK' /\ BarCounts'
  <1> SUFFICES ASSUME IInv, Waiter PROVE Values' /\ BarCounts'
    BY FlagsKept, TypeHalves DEF IInv, Next, TypeOK, Flags, Values
  <1>0. Values /\ TypeOK /\ BarCounts
    BY TypeHalves DEF IInv
  <1> USE DEF Abort, run, reporter, asked
  <1>1. CASE AwaitResult BY <1>0, <1>1 DEF AwaitResult, Values, BarCounts
  <1>2. CASE ShowStart
    <2>1. CASE OnStart
      <3>1. /\ bar' \in Nat /\ units' \in Nat /\ bar' = units'
            /\ total # None => units' <= total
        BY <1>0, <2>1, StartKeeps
      <3> QED BY <1>0, <1>2, <3>1 DEF ShowStart, Values, BarCounts
    <2>2. CASE UNCHANGED <<bar, units>>
      BY <1>0, <1>2, <2>2 DEF ShowStart, Values, BarCounts
    <2> QED BY <1>2, <2>1, <2>2 DEF ShowStart
  <1>3. CASE CheckDone BY <1>0, <1>3 DEF CheckDone, Values, BarCounts
  <1>4. CASE DecidePoll BY <1>0, <1>4 DEF DecidePoll, Values, BarCounts
  <1>5. CASE Poll BY <1>0, <1>5 DEF Poll, Values, BarCounts
  <1>6. CASE ShowUpdate
    <2>1. CASE OnUpdate
      <3>1. /\ bar' \in Nat /\ units' \in Nat /\ bar' = units'
            /\ total # None => units' <= total
        BY <1>0, <2>1, UpdateKeeps
      <3> QED BY <1>0, <1>6, <3>1 DEF ShowUpdate, Values, BarCounts
    <2>2. CASE bar' = None /\ units' = units
      BY <1>0, <1>6, <2>2 DEF ShowUpdate, Values, BarCounts
    <2> QED BY <1>6, <2>1, <2>2 DEF ShowUpdate
  <1>7. CASE ReadTask
    <2>1. result' = task \/ result' = result
      BY <1>7 DEF ReadTask
    <2> QED BY <1>0, <1>7, <2>1 DEF ReadTask, Values, BarCounts
  <1>8. CASE ShowFinish
    <2>1. CASE OnFinish
      <3>1. bar' = None /\ units' \in Nat BY <1>0, <2>1, FinishKeeps
      <3> QED BY <1>0, <1>8, <3>1 DEF ShowFinish, Values, BarCounts
    <2>2. CASE bar' = None /\ units' = units
      BY <1>0, <1>8, <2>2 DEF ShowFinish, Values, BarCounts
    <2> QED BY <1>8, <2>1, <2>2 DEF ShowFinish
  <1> QED BY <1>1, <1>2, <1>3, <1>4, <1>5, <1>6, <1>7, <1>8 DEF Waiter

LEMMA WaiterPlaces == IInv /\ Waiter => Places' /\ EndToldOnce'
  <1> SUFFICES ASSUME IInv, Waiter PROVE Places' /\ EndToldOnce'
    OBVIOUS
  <1> USE DEF IInv, Places, EndToldOnce, Abort, run, reporter, asked
  <1>1. CASE AwaitResult BY <1>1 DEF AwaitResult
  <1>2. CASE ShowStart BY <1>2 DEF ShowStart
  <1>3. CASE CheckDone BY <1>3 DEF CheckDone
  <1>4. CASE DecidePoll BY <1>4 DEF DecidePoll
  <1>5. CASE Poll BY <1>5 DEF Poll
  <1>6. CASE ShowUpdate BY <1>6 DEF ShowUpdate
  <1>7. CASE ReadTask BY <1>7 DEF ReadTask
  <1>8. CASE ShowFinish BY <1>8 DEF ShowFinish, OnFinish
  <1> QED BY <1>1, <1>2, <1>3, <1>4, <1>5, <1>6, <1>7, <1>8 DEF Waiter

LEMMA WaiterAnswers == IInv /\ Waiter => RunFirst' /\ AnswersTruly'
  <1> SUFFICES ASSUME IInv, Waiter PROVE RunFirst' /\ AnswersTruly'
    OBVIOUS
  <1> USE DEF IInv, TypeOK, Places, RunFirst, AnswersTruly, Abort, run, reporter, asked
  <1>1. CASE AwaitResult BY <1>1 DEF AwaitResult
  <1>2. CASE ShowStart BY <1>2 DEF ShowStart
  <1>3. CASE CheckDone BY <1>3 DEF CheckDone
  <1>4. CASE DecidePoll BY <1>4 DEF DecidePoll
  <1>5. CASE Poll BY <1>5 DEF Poll
  <1>6. CASE ShowUpdate BY <1>6 DEF ShowUpdate
  <1>7. CASE ReadTask BY <1>7 DEF ReadTask
  <1>8. CASE ShowFinish BY <1>8 DEF ShowFinish
  <1> QED BY <1>1, <1>2, <1>3, <1>4, <1>5, <1>6, <1>7, <1>8 DEF Waiter

-----------------------------------------------------------------------------
LEMMA NextInv == IInv /\ [Next]_vars => IInv'
  <1> SUFFICES ASSUME IInv, [Next]_vars PROVE IInv'
    OBVIOUS
  <1>1. CASE Waiter
    BY <1>1, WaiterTypes, WaiterPlaces, WaiterAnswers DEF IInv
  <1>2. CASE UNCHANGED vars
    BY <1>2 DEF vars, run, reporter, asked, IInv, TypeOK, Places, EndToldOnce, RunFirst,
                AnswersTruly, BarCounts, Ended
  <1> QED BY <1>1, <1>2, RunnerInv, TimeInv, StartWaitInv DEF Next

\* The inductive invariant holds in every reachable state of a wait beside a run.
THEOREM Invariance == Spec => []IInv
  <1> QED BY InitInv, NextInv, PTL DEF Spec

\* Type correctness of the run, the waiting thread and the bar.
THEOREM TypesHold == Spec => []TypeOK
  <1>1. IInv => TypeOK BY DEF IInv
  <1> QED BY <1>1, Invariance, PTL

\* A reporter that was started is told the end of the wait exactly once,
\* whatever raises on the way.
THEOREM EndToldOnceHolds == Spec => []EndToldOnce
  <1>1. IInv => EndToldOnce BY DEF IInv
  <1> QED BY <1>1, Invariance, PTL

\* wait returns a task after its run, in a final status unless it was restarted
\* meanwhile, and times out only after its deadline or with the run.
THEOREM AnswersTrulyHolds == Spec => []AnswersTruly
  <1>1. IInv => AnswersTruly BY DEF IInv
  <1> QED BY <1>1, Invariance, PTL

\* One step never moves the bar back or past the period.
LEMMA BarStep ==
  ASSUME IInv, [Next]_vars, bar' # None
  PROVE  (bar # None => bar <= bar') /\ (total # None => bar' <= total)
  <1>0. TypeOK /\ BarCounts
    BY DEF IInv
  <1> USE DEF Abort, run, reporter, asked
  <1>1. CASE bar' = bar
    BY <1>0, <1>1, TypeHalves DEF Values, BarCounts
  <1>2. CASE ShowStart /\ bar' # bar
    BY <1>0, <1>2, StartKeeps DEF ShowStart
  <1>3. CASE ShowUpdate /\ bar' # bar
    BY <1>0, <1>3, UpdateKeeps DEF ShowUpdate
  <1>4. CASE ShowFinish /\ bar' # bar
    BY <1>4 DEF ShowFinish, OnFinish
  <1>5. CASE (CheckDone \/ DecidePoll \/ Poll \/ ReadTask) /\ bar' # bar
    BY <1>5 DEF CheckDone, DecidePoll, Poll, ReadTask
  <1>6. CASE (Runner \/ Restart \/ PassTime \/ StartWait \/ AwaitResult \/ UNCHANGED vars)
             /\ bar' # bar
    BY <1>6 DEF Runner, MoveClock, StoreEnd, EndRun, Restart, PassTime, StartWait,
                AwaitResult, vars
  <1> QED BY <1>1, <1>2, <1>3, <1>4, <1>5, <1>6 DEF Next, Waiter

\* No step of anybody moves a bar back or past the period, for every clock.
THEOREM BarMovesForwardHolds == Spec => BarMovesForward
  <1>1. ASSUME IInv, [Next]_vars
        PROVE  [bar' # None => /\ bar # None => bar <= bar'
                               /\ total # None => bar' <= total]_vars
    BY <1>1, BarStep
  <1> QED BY <1>1, Invariance, PTL DEF Spec, BarMovesForward
=============================================================================
