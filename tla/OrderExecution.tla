--------------------------- MODULE OrderExecution ---------------------------
(* The requests a strategy callback returns, from the callback to the         *)
(* reconciled state (StrategyExecutionPipeline.process_result and             *)
(* src/core/orders), the broker's account they change, and the balance a      *)
(* runner tracks from the responses (src/core/tasks/accounting.py).  The      *)
(* broker fills in part, refuses, loses an answer, or closes a trade itself;  *)
(* handlers and the strategy may raise, and a new run has a new runner.       *)
EXTENDS StrategyOrders

CONSTANTS
  Batches,   \* the tuples of requests a callback may return
  Market,    \* prices the broker fills at
  Initial,   \* initial balance of the task
  MaxCalls, MaxTrades, MaxRuns  \* bounds: callbacks, broker trades, runs

\* AccountOpenTrade: what the tracker knows of an open trade.
Open == [side : TradeSide, units : Nat, entry : Money]

ASSUME ExecutionAssumption ==
  /\ Batches \subseteq Seq({e \in Request : ValidRequest(e)})
  /\ \A b \in Batches : b # <<>>
  /\ Market \subseteq Nat \ {0} /\ None \notin Open
  /\ Initial \in Money /\ Initial.amount > 0
  /\ MaxCalls \in Nat /\ MaxTrades \in Nat /\ MaxRuns \in Nat

VARIABLES
  mode,     \* how the executor works: "dry", "live", or "none" without a broker
  pc,       \* where process_result is
  batch,    \* events
  next,     \* the event being executed
  targets,  \* trades a close request has left to close, 0 for a position's side
  reports,  \* reports
  at,       \* the report being accounted
  trades,   \* the broker's trades
  book,     \* TaskAccountBalanceTracker._open_trades
  balance,  \* the account balance
  calls, runs,
  stray,    \* history: names whose trades changed without a usable answer
  earned    \* history: the broker's own profit of the run, in Initial.currency

vars == <<mode, pc, batch, next, targets, reports, at, trades, book, balance,
          calls, runs, stray, earned>>
account == <<trades, stray, earned>>
tracker == <<book, balance>>
bounds == <<mode, calls, runs>>

NoTrades == [n \in Name |-> None]
Now == batch[next]

Init ==
  /\ mode \in {"dry", "live", "none"}
  /\ pc = "idle" /\ batch = <<>> /\ next = 1 /\ targets = {} /\ reports = <<>>
  /\ at = 1 /\ trades = <<>> /\ book = NoTrades /\ balance = Initial.amount
  /\ calls = 0 /\ runs = 1 /\ stray = {} /\ earned = 0

-----------------------------------------------------------------------------
\* The callback and the execution of its requests.

\* A callback returns requests.
Emit ==
  /\ pc = "idle" /\ calls < MaxCalls
  /\ \E b \in Batches : batch' = b
  /\ pc' = "publish" /\ next' = 1 /\ reports' = <<>> /\ at' = 1
  /\ calls' = calls + 1
  /\ UNCHANGED <<mode, targets, trades, book, balance, runs, stray, earned>>

\* The current request is done with: its responses rs are added.
Answer(rs) ==
  /\ reports' = reports \o rs /\ targets' = {}
  /\ IF next = Len(batch) THEN pc' = "answer" /\ UNCHANGED next
     ELSE pc' = "execute" /\ next' = next + 1
  /\ UNCHANGED <<batch, at, tracker, bounds>>

\* Mutant of Fails: execute_many goes on without a response.
FailsSilently == Answer(<<>>)

Fails == Answer(<<Failure(next, Now)>>)

Executing(action) == pc = "execute" /\ Now.action = action

Hold == Executing("hold") /\ Answer(<<>>) /\ UNCHANGED account
Cancel == Executing("cancel_order") /\ Fails /\ UNCHANGED account

Simulate ==
  /\ mode = "dry"
  /\ \/ /\ Executing("open_trade")
        /\ Answer(<<Response(next, Now, Filled(OpenOrder(Now)))>>)
     \/ /\ Executing("close_trade")
        /\ Answer(<<Response(next, Now, Filled(CloseOrder(Now)))>>)
  /\ UNCHANGED account

WithoutBroker ==
  /\ mode = "none" /\ pc = "execute" /\ Now.action \in {"open_trade", "close_trade"}
  /\ Fails /\ UNCHANGED account

\* A call of the broker raises and has changed nothing.
BrokerRaises ==
  /\ mode = "live" /\ pc = "execute" /\ Now.action \in {"open_trade", "close_trade"}
  /\ Fails /\ UNCHANGED account

NamesOf(ks) == {trades[k].name : k \in ks}
OpenOnes == {k \in DOMAIN trades : IsOpen(trades[k])}

\* The broker opened a trade for f units of the request at a price, or nothing
\* when f is 0; known tells whether the answer says so.
Placed(f, amount, known) ==
  LET name == MetadataText(OrderName(Now))
      ambiguous == ~Unambiguous(Now) \/ name \in NamesOf(OpenOnes)
  IN /\ trades' = IF f = 0 THEN trades
                  ELSE Append(trades, [instrument |-> Now.instrument,
                         side |-> Opens(Now.side), units |-> f,
                         entry |-> Price(Now.instrument, amount), name |-> name])
     /\ stray' = IF f > 0 /\ (~known \/ ambiguous)
                 THEN stray \cup {name, FromEvent(Now)} ELSE stray
     /\ UNCHANGED earned

PlaceOrder ==
  /\ mode = "live" /\ Executing("open_trade") /\ Len(trades) < MaxTrades
  /\ \E f \in 0..Now.units, amount \in Market, says \in BOOLEAN :
       LET order == [OpenOrder(Now) EXCEPT !.filled = f,
                       !.status = IF f = Now.units THEN "filled" ELSE "cancelled",
                       !.average = IF says /\ f > 0 THEN Price(Now.instrument, amount)
                                   ELSE None]
       IN \/ Answer(<<Response(next, Now, order)>>) /\ Placed(f, amount, says)
          \/ f > 0 /\ Fails /\ Placed(f, amount, FALSE)  \* the answer is lost

-----------------------------------------------------------------------------
\* Closing.

\* What a close request is about: the open trades with its name, or with no
\* name the position of the instrument with its side open.
FindTargets ==
  /\ mode = "live" /\ Executing("close_trade")
  /\ LET ks == IF FromEvent(Now) # Blank THEN MatchingTrades(trades, Now)
               ELSE IF SideOpen(trades, Now.instrument, Closes(Now.side)) THEN {0} ELSE {}
     IN IF ks = {} THEN Fails
        ELSE /\ pc' = "close" /\ targets' = ks
             /\ UNCHANGED <<batch, next, reports, at, tracker, bounds>>
  /\ UNCHANGED account

\* Mutant of Close: a target that failed is tried again.
CloseAgain(t, r) ==
  IF targets = {t} /\ r.order # None THEN Answer(<<r>>)
  ELSE /\ reports' = reports
       /\ targets' = IF r.order = None THEN targets ELSE targets \ {t}
       /\ UNCHANGED <<pc, batch, next, at, tracker, bounds>>

\* The target is done with, answered by r; after the last one the request is.
Close(t, r) ==
  IF targets = {t} THEN Answer(<<r>>)
  ELSE /\ reports' = Append(reports, r) /\ targets' = targets \ {t}
       /\ UNCHANGED <<pc, batch, next, at, tracker, bounds>>

Profit(trade, amount, units) ==
  units * (IF trade.side = "long" THEN amount - trade.entry.amount
           ELSE trade.entry.amount - amount)

\* The broker takes f units off trade k at a price.
Taken(k, f, amount) ==
  /\ trades' = [trades EXCEPT ![k].units = @ - f]
  /\ earned' = earned + IF trades[k].entry.currency = Initial.currency
                        THEN Profit(trades[k], amount, f) ELSE 0

\* The trades a target stands for when the broker is asked.
TakenFrom(t) ==
  IF t # 0 THEN {t}
  ELSE {k \in OpenTrades(trades, Now.instrument) : trades[k].side = Closes(Now.side)}

\* The broker closes units of a target, in the order it listed them: at most those
\* asked and there; and it answers with the order or fails to.
CloseTarget ==
  /\ pc = "close"
  /\ \E t \in targets : \E k \in TakenFrom(t), amount \in Market, f \in 1..Now.units,
                           says \in BOOLEAN :
       LET order == [OpenOrder(Now) EXCEPT !.name = trades[k].name, !.status = "filled",
                       !.units = f, !.filled = f, !.price = None,
                       !.average = IF says THEN Price(Now.instrument, amount) ELSE None,
                       !.realized = None]
       IN /\ f <= trades[k].units
          /\ Taken(k, f, amount)
          /\ \/ /\ Close(t, Response(next, Now, order))
                /\ stray' = IF says /\ t # 0 /\ FromEvent(Now) = trades[k].name
                            THEN stray ELSE stray \cup NamesOf({k}) \cup {FromEvent(Now)}
             \/ /\ Close(t, Failure(next, Now))
                /\ stray' = stray \cup NamesOf({k})

\* The broker refuses: the trade is gone, or it raises and changes nothing.
CloseRefused ==
  /\ pc = "close" /\ \E t \in targets : Close(t, Failure(next, Now))
  /\ UNCHANGED account

\* The broker closes a trade on its own, by a stop loss or a take profit.
StopOut ==
  /\ \E k \in DOMAIN trades :
       /\ IsOpen(trades[k])
       /\ trades' = [trades EXCEPT ![k].units = 0]
       /\ stray' = stray \cup NamesOf({k})
  /\ UNCHANGED <<pc, batch, next, targets, reports, at, tracker, bounds, earned>>

-----------------------------------------------------------------------------
\* The responses: published, accounted, and given to the strategy.

\* The requests are published before they are executed, the responses before
\* they are accounted.
Publish ==
  /\ \/ pc = "publish" /\ pc' = "execute"
     \/ pc = "answer" /\ pc' = IF reports = <<>> THEN "idle" ELSE "account"
  /\ UNCHANGED <<batch, next, targets, reports, at, tracker, bounds, account>>

\* Mutant of RecordOpen: the units asked for, not those filled.
RecordAsked(bk, r) ==
  LET id == FromEvent(r.event) IN
  IF id = Blank \/ FillPrice(r.order) = None THEN bk
  ELSE [bk EXCEPT ![id] = [side |-> r.event.side, units |-> r.order.units,
                           entry |-> FillPrice(r.order)]]

\* Mutant of RecordOpen: an open without a price is recorded.
RecordUnpriced(bk, r) ==
  LET id == FromEvent(r.event) IN
  IF id = Blank THEN bk
  ELSE [bk EXCEPT ![id] = [side |-> r.event.side, units |-> r.order.filled,
                           entry |-> FillPrice(r.order)]]

\* _record_open: the book bk with the trade r opened.
RecordOpen(bk, r) ==
  LET id == FromEvent(r.event) IN
  IF id = Blank \/ FillPrice(r.order) = None THEN bk
  ELSE [bk EXCEPT ![id] = [side |-> r.event.side, units |-> r.order.filled,
                           entry |-> FillPrice(r.order)]]

\* A close of a trade the book has, whose order says a price.
Booked(bk, r) ==
  /\ FromEvent(r.event) # Blank /\ bk[FromEvent(r.event)] # None
  /\ FillPrice(r.order) # None

SameCurrency(bk, r) ==
  IF Booked(bk, r)
  THEN FillPrice(r.order).currency = bk[FromEvent(r.event)].entry.currency
  ELSE r.order.realized = None \/ r.order.realized.currency = Initial.currency

\* Mutant of Realized: the profit of all units filled, tracked or not, as a long.
RealizedLong(bk, r) ==
  IF ~Booked(bk, r) THEN IF r.order.realized = None THEN 0 ELSE r.order.realized.amount
  ELSE r.order.filled * (FillPrice(r.order).amount - bk[FromEvent(r.event)].entry.amount)

\* AccountOpenTrade.realized_pl and what is added to the balance: an amount in
\* another currency is not.
Realized(bk, r) ==
  IF ~Booked(bk, r) THEN IF r.order.realized = None THEN 0 ELSE r.order.realized.amount
  ELSE LET open == bk[FromEvent(r.event)]
           closed == IF r.order.filled < open.units THEN r.order.filled ELSE open.units
           diff == FillPrice(r.order).amount - open.entry.amount
       IN IF open.entry.currency # Initial.currency THEN 0
          ELSE closed * (IF open.side = "buy" THEN diff ELSE 0 - diff)

\* apply_close: the book bk with the units r closed taken off.
ApplyClose(bk, r) ==
  LET id == FromEvent(r.event) IN
  IF ~Booked(bk, r) THEN bk
  ELSE IF r.order.filled >= bk[id].units THEN [bk EXCEPT ![id] = None]
  ELSE [bk EXCEPT ![id].units = @ - r.order.filled]

\* One response of apply_reports; only a filled one counts.
Account ==
  /\ pc = "account" /\ at <= Len(reports)
  /\ LET r == reports[at] IN
     IF ~IsFilled(r) THEN UNCHANGED <<pc, tracker>>
     ELSE IF r.event.action = "open_trade"
          THEN book' = RecordOpen(book, r) /\ UNCHANGED <<pc, balance>>
     ELSE IF SameCurrency(book, r)
          THEN /\ book' = ApplyClose(book, r)
               /\ balance' = balance + Realized(book, r)
               /\ UNCHANGED pc
     ELSE pc' = "failed" /\ UNCHANGED tracker
  /\ at' = at + 1
  /\ UNCHANGED <<batch, next, targets, reports, bounds, account>>

\* with_account_balance raises when nothing is left; the strategy reconciles.
Settle ==
  /\ pc = "account" /\ at > Len(reports)
  /\ pc' = IF balance > 0 THEN "idle" ELSE "failed"
  /\ UNCHANGED <<batch, next, targets, reports, at, tracker, bounds, account>>

\* A handler of the published requests or responses raises, or the strategy
\* does: the rest of process_result is left out and the run fails.
Raise ==
  /\ \/ pc \in {"publish", "answer"}
     \/ pc = "account" /\ at > Len(reports)
  /\ pc' = "failed"
  /\ UNCHANGED <<batch, next, targets, reports, at, tracker, bounds, account>>

\* The task runs again, or another time: a new runner with a new tracker.
NewRun ==
  /\ pc \in {"idle", "failed"} /\ runs < MaxRuns
  /\ pc' = "idle" /\ batch' = <<>> /\ next' = 1 /\ reports' = <<>> /\ at' = 1
  /\ book' = NoTrades /\ balance' = Initial.amount /\ earned' = 0
  /\ stray' = NamesOf(OpenOnes)
  /\ runs' = runs + 1
  /\ UNCHANGED <<mode, targets, trades, calls>>

Execute == Hold \/ Cancel \/ Simulate \/ WithoutBroker \/ BrokerRaises
             \/ PlaceOrder \/ FindTargets \/ CloseTarget \/ CloseRefused
Process == Execute \/ Publish \/ Account \/ Settle \/ Raise
Next == Emit \/ Process \/ StopOut \/ NewRun
Spec == Init /\ [][Next]_vars

\* The runner goes on with the requests it has.
FairSpec == Spec /\ WF_vars(Process)

-----------------------------------------------------------------------------
\* Properties.

Report == [place : Nat, event : Request, order : Order \cup {None},
           prices : [PriceKey -> Money \cup {None}]]

\* The variables keep their types.
TypeOK ==
  /\ mode \in {"dry", "live", "none"}
  /\ pc \in {"idle", "publish", "execute", "close", "answer", "account", "failed"}
  /\ batch \in Batches \cup {<<>>} /\ next \in Nat /\ at \in Nat
  /\ targets \subseteq Nat /\ reports \in Seq(Report) /\ trades \in Seq(Trade)
  /\ book \in [Name -> Open \cup {None}] /\ balance \in Int
  /\ calls \in Nat /\ runs \in Nat /\ stray \subseteq Id /\ earned \in Int

\* Once a batch is executed, each request that needs the broker has a response,
\* whatever the broker did, and the responses come in the order of the requests:
\* execute_many turns every exception into a response of its request.
EveryRequestAnswered ==
  pc \in {"answer", "account"} =>
    /\ \A i \in DOMAIN batch :
         RequiresBroker(batch[i]) <=> \E j \in DOMAIN reports : reports[j].place = i
    /\ \A j, k \in DOMAIN reports : j < k => reports[j].place <= reports[k].place

\* Between callbacks the tracker's open trades are the broker's, with the units
\* left, the side and the price, but for names whose trades changed without a
\* usable answer: closed by the broker, by a position or by the broker's id, an
\* answer lost or without a price, two open trades of one name, or an earlier
\* runner's.
BookFollowsBroker ==
  mode = "live" /\ pc = "idle" => \A n \in Name \ stray :
    LET open == {k \in OpenOnes : trades[k].name = n} IN
    IF book[n] = None THEN open = {}
    ELSE \E k \in open : /\ open = {k}
                         /\ book[n].units = trades[k].units
                         /\ Opens(book[n].side) = trades[k].side
                         /\ book[n].entry = trades[k].entry

\* Without such a name the balance is what the broker earned in the run, as far
\* as it is in the balance's currency.
BalanceFollowsBroker ==
  mode = "live" /\ pc = "idle" /\ stray = {} => balance = Initial.amount + earned

\* A later close finds on the order of an open, by the rule for broker trades, the
\* name that the rule for requests gives it and the tracker knows its trade by,
\* unless the request is one the factory names otherwise.
NamesAgree ==
  \A j \in DOMAIN reports : LET r == reports[j] IN
    IsFilled(r) /\ r.event.action = "open_trade" /\ Unambiguous(r.event)
      => MetadataText(r.order.name) = FromEvent(r.event)

\* A response changes the broker's trades of its request alone: a close takes at
\* most the units asked off a trade of the instrument, on the side it closes and
\* with the name it gives, found before the broker is asked.
ClosesWhatWasAsked ==
  [][reports' # reports => \A k \in DOMAIN trades : trades'[k] # trades[k] =>
       /\ Now.action = "close_trade" /\ trades[k].instrument = Now.instrument
       /\ trades[k].side = Closes(Now.side)
       /\ trades[k].units - trades'[k].units \in 1..Now.units
       /\ FromEvent(Now) # Blank => FromEvent(Now) \in TradeNames(trades, k)]_vars

\* process_result ends, with the responses reconciled or with the run failed.
BatchEnds == pc = "publish" ~> pc \in {"idle", "failed"}

\* What a response records of a fill is the price the order was filled at
\* (StrategyFillPriceMetadata, "fields for broker fill prices").
FillPriceRecorded ==
  \A j \in DOMAIN reports : LET r == reports[j] IN
    IsFilled(r) => \A key \in KeysFor(r.event) : r.prices[key] = FillPrice(r.order)
=============================================================================
