--------------------------- MODULE StrategyOrders ---------------------------
(* How a strategy request becomes an order and a response                     *)
(* (src/core/strategies/execution.py, src/core/orders/factory.py, matching.py *)
(* and closing.py): the order made of the request, the name its trade goes    *)
(* by, the broker trades a close request is about, and the response returned. *)
EXTENDS BrokerModels

Action == {"hold", "open_trade", "close_trade", "cancel_order"}
TradeSide == {"buy", "sell"}

\* StrategyEventRequest: display is display_id; name, entry and realized are
\* metadata.logical_trade_id, entry_id and realized_pl; keys is what the
\* metadata says of the fields for the fill price.
PriceKey == {"filled_entry_price", "other"}
Request ==
  [action : Action, instrument : Instrument, side : TradeSide \cup {None},
   units : Nat \cup {None}, price : Money \cup {None},
   display : Text, name : Text \cup {None, Absent}, entry : Text \cup {None, Absent},
   keys : {None} \cup SUBSET PriceKey, realized : Money \cup {None}]

RequiresBroker(e) == e.action # "hold"

ValidRequest(e) ==
  /\ e.price # None => IsPrice(e.instrument, e.price)
  /\ e.action \in {"open_trade", "close_trade"} =>
       e.side # None /\ e.units # None /\ e.units > 0

\* LogicalTradeIdResolver.from_event: the first that is not blank, trimmed.
FromEvent(e) ==
  IF Trim[e.display] # Blank THEN Trim[e.display]
  ELSE IF MetadataText(e.name) # Blank THEN MetadataText(e.name)
  ELSE MetadataText(e.entry)

\* Mutant of OrderName: entry_id is not looked at.
OrderNameNoEntry(e) == IF e.name # Absent THEN e.name ELSE e.display

\* The name on the order of a request, untrimmed: the request's own metadata is
\* merged over the display_id, or without one str(metadata.get("entry_id", "")).
OrderName(e) ==
  IF e.name # Absent THEN e.name
  ELSE IF e.display # Blank THEN e.display
  ELSE CASE e.entry = Absent -> Blank
         [] e.entry = None -> NoneText
         [] OTHER -> e.entry

\* The requests both rules resolve alike: a logical_trade_id is the name they
\* give, and without one a display_id is not of spaces only and an entry_id the
\* order is named by is not None.
Unambiguous(e) ==
  IF e.name # Absent THEN MetadataText(e.name) = FromEvent(e)
  ELSE IF e.display # Blank THEN Trim[e.display] # Blank
  ELSE e.entry # None

OpenOrder(e) ==
  [instrument |-> e.instrument, side |-> e.side, units |-> e.units,
   price |-> e.price, status |-> "pending", filled |-> 0, average |-> None,
   name |-> OrderName(e), realized |-> e.realized]

\* CloseTradeDryRunOrderFactory: the request's own metadata is merged here too.
CloseOrder(e) ==
  [OpenOrder(e) EXCEPT !.name = IF e.name # Absent THEN e.name ELSE FromEvent(e)]

\* DryRunExecutionSimulator.filled_order.
Filled(o) ==
  [o EXCEPT !.status = "filled", !.filled = o.units, !.average = o.price]

\* The side of the broker's trades a close request of a side closes, and the
\* side an order opens.
Closes(side) == IF side = "buy" THEN "short" ELSE "long"
Opens(side) == IF side = "buy" THEN "long" ELSE "short"

\* LogicalTradeIdResolver.from_trade: the broker's id of the trade, its place,
\* and the name it carries.
TradeNames(trades, k) == {k, trades[k].name} \ {Blank}

\* Mutant of MatchingTrades: the side of a trade is not looked at.
MatchingBothSides(trades, e) ==
  {k \in OpenTrades(trades, e.instrument) : FromEvent(e) \in TradeNames(trades, k)}

MatchingTrades(trades, e) ==
  {k \in OpenTrades(trades, e.instrument) :
     trades[k].side = Closes(e.side) /\ FromEvent(e) \in TradeNames(trades, k)}

-----------------------------------------------------------------------------
\* Responses.

\* The fields of the metadata the fill price of a request goes to.
KeysFor(e) ==
  IF e.keys # None THEN e.keys
  ELSE IF e.action = "open_trade" THEN {"filled_entry_price"} ELSE {}

\* StrategyExecutionResponse to the request at place of a batch: prices is what
\* its metadata says the order was filled at.
IsFilled(r) == r.order # None /\ r.order.filled > 0
Response(place, e, o) ==
  [place |-> place, event |-> e, order |-> o,
   prices |-> [key \in PriceKey |->
                 IF o # None /\ key \in KeysFor(e)
                 THEN IF o.filled > 0 /\ FillPrice(o) # None THEN Printed(FillPrice(o))
                      ELSE None
                 ELSE None]]

\* A response with execution_error.
Failure(place, e) == Response(place, e, None)
=============================================================================
