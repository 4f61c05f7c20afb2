---------------------------- MODULE BrokerModels ----------------------------
(* What Core and a broker exchange (src/core/models/brokers.py, money.py,     *)
(* values.py and src/core/ports/brokers.py): orders, trades and positions of  *)
(* instruments, with amounts of money as whole numbers of the smallest step   *)
(* of a price.                                                                *)
EXTENDS Integers, Sequences

CONSTANTS
  Instrument, Currency,
  QuoteOf,   \* Instrument -> Currency: CurrencyPair.quote
  Text,      \* texts a name is given in
  Trim,      \* Text -> Text: strip()
  Blank,     \* the empty text
  NoneText,  \* str(None)
  Cent,      \* steps of a price in 0.01, what an amount is printed with
  None,      \* no value
  Absent     \* no key in a metadata

ASSUME ModelsAssumption ==
  /\ QuoteOf \in [Instrument -> Currency]
  /\ Trim \in [Text -> Text] /\ \A x \in Text : Trim[Trim[x]] = Trim[x]
  /\ {Blank, NoneText} \subseteq Text
  /\ Trim[Blank] = Blank /\ Trim[NoneText] = NoneText /\ NoneText # Blank
  /\ None \notin Text /\ Absent \notin Text /\ None # Absent
  /\ Cent \in Nat \ {0}

\* A name as it is looked up: trimmed, and not blank when there is one.
Id == {Trim[x] : x \in Text}
Name == Id \ {Blank}

\* LogicalTradeIdResolver._metadata_text: the name a value of a metadata gives,
\* Blank when it gives none.
MetadataText(x) == IF x \in {None, Absent} THEN Blank ELSE Trim[x]

OrderSide == {"buy", "sell"}
PositionSide == {"long", "short"}
OrderStatus == {"pending", "accepted", "filled", "rejected", "cancelled"}

\* An amount of money; coerce_positive is what normalizes every price.
Money == [amount : Int, currency : Currency]
Price(instrument, amount) == [amount |-> amount, currency |-> QuoteOf[instrument]]
IsPrice(instrument, m) == m.amount > 0 /\ m.currency = QuoteOf[instrument]

\* An amount as text: quantized to 0.01, half up (the amounts here are prices).
Printed(m) ==
  [m EXCEPT !.amount = ((2 * @ + Cent) \div (2 * Cent)) * Cent]

\* An order before or after its execution; name is metadata.logical_trade_id,
\* as it is there, and realized metadata.realized_pl.
Order ==
  [instrument : Instrument, side : OrderSide, units : Nat, price : Money \cup {None},
   status : OrderStatus, filled : Nat, average : Money \cup {None},
   name : Text \cup {None}, realized : Money \cup {None}]

ValidOrder(o) ==
  /\ o.units > 0 /\ o.filled <= o.units
  /\ \A p \in {o.price, o.average} : p # None => IsPrice(o.instrument, p)

\* None is no value.
ASSUME NoneAssumption == None \notin Money /\ None \notin Order

\* The price an order was filled at, as far as it says.
FillPrice(o) == IF o.average # None THEN o.average ELSE o.price

\* A trade of the broker's account: state "open" while it has units left; name
\* is the one from_trade reads of it.
Trade ==
  [instrument : Instrument, side : PositionSide, units : Nat, entry : Money,
   name : Id]

IsOpen(trade) == trade.units > 0

\* The open trades of an instrument, as their places among trades.
OpenTrades(trades, instrument) ==
  {k \in DOMAIN trades : IsOpen(trades[k]) /\ trades[k].instrument = instrument}

\* Position.side_state and is_open: a side is open while it has units.
SideOpen(trades, instrument, side) ==
  \E k \in OpenTrades(trades, instrument) : trades[k].side = side
=============================================================================
