-------------------------- MODULE MCOrderExecution --------------------------
(* A small instance of OrderExecution: requests for two names, written with   *)
(* and without spaces, in a field of their own or not at all, on an           *)
(* instrument of the account's currency and on one of another.                *)
EXTENDS OrderExecution, TLC

CONSTANTS a, b, PadA, Spaces

Stripped == [x \in Text |-> CASE x = PadA -> a [] x = Spaces -> Blank [] OTHER -> x]

Quotes == [i \in Instrument |-> IF i = "eur_usd" THEN "usd" ELSE "jpy"]
Balance == [amount |-> 2, currency |-> "usd"]
Usd(n) == [amount |-> n, currency |-> "usd"]

Asks(action, side, units, display, entry) ==
  [action |-> action, instrument |-> "eur_usd", side |-> side, units |-> units,
   price |-> None, display |-> display, name |-> Absent, entry |-> entry,
   keys |-> None, realized |-> None]

BuyA == [Asks("open_trade", "buy", 2, a, Absent) EXCEPT !.price = Usd(3)]
EntryA == Asks("open_trade", "sell", 1, Blank, PadA)
SpacesA == Asks("open_trade", "sell", 1, Spaces, a)
NoEntry == Asks("open_trade", "buy", 1, Blank, None)
TwoNames == [Asks("open_trade", "buy", 1, a, Blank) EXCEPT !.name = b]
BuyB == [Asks("open_trade", "buy", 1, Blank, b) EXCEPT !.name = b, !.keys = {"other"}]
SellA == Asks("close_trade", "sell", 1, a, Blank)
CoverA == [Asks("close_trade", "buy", 2, PadA, None) EXCEPT !.price = Usd(2)]
SellAll == [Asks("close_trade", "sell", 2, Spaces, Absent) EXCEPT !.realized = Usd(1)]
YenA == [BuyA EXCEPT !.instrument = "usd_jpy", !.price = None]
SellYenA == [SellA EXCEPT !.instrument = "usd_jpy", !.price = [amount |-> 2, currency |-> "jpy"]]
Stay == Asks("hold", None, None, a, Blank)
Revoke == Asks("cancel_order", None, None, a, Blank)

SmallBatches ==
  {<<BuyA>>, <<EntryA>>, <<NoEntry>>, <<TwoNames>>, <<BuyB, SellA>>, <<SellA>>, <<CoverA>>, <<SellAll>>,
   <<BuyA, SellYenA>>, <<YenA>>, <<Stay, SpacesA>>, <<Stay>>, <<SellA, Revoke>>}

\* Two requests of one trade only, for the recorded prices.
FewBatches == {<<BuyA>>, <<SellA>>}
=============================================================================
