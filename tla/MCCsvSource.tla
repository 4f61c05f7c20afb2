----------------------------- MODULE MCCsvSource -----------------------------
(* Small instances of CsvSource: all lists of up to two files with up to three *)
(* of a few rows each, good and bad, of two instruments.                       *)
EXTENDS CsvFeed, TLC

CONSTANTS eur, jpy, m1, m5

Pips == [i \in Instrument |-> IF i = eur THEN 1 ELSE 2]
BothAsked == <<eur, jpy>>
OneAsked == <<eur>>
Spreads == <<[enabled |-> FALSE, max |-> None], [enabled |-> TRUE, max |-> 1]>>

Quote(time, bid, ask) ==
  [instrument |-> eur, time |-> time, bid |-> bid, ask |-> ask, mid |-> None]
TickRows ==
  {Quote(0, 1, 1),
   [Quote(1, 1, 2) EXCEPT !.instrument = None, !.mid = 2],
   [Quote(2, 1, 3) EXCEPT !.instrument = jpy],
   Quote(3, 1, 3),
   Quote(4, 2, 2),
   [Quote(5, 2, 1) EXCEPT !.instrument = jpy],
   Quote(7, 1, 1)}
Oddities ==
  {[Quote(1, 1, 1) EXCEPT !.time = None], [Quote(1, 1, 1) EXCEPT !.instrument = Bad],
   Quote(9, 0, 1), [Quote(1, 1, 1) EXCEPT !.mid = 3]}

Bar(time, size) ==
  [instrument |-> eur, time |-> time, granularity |-> size, open |-> 2, high |-> 3,
   low |-> 1, close |-> 2, complete |-> None, volume |-> None]
CandleRows ==
  {Bar(1, m1), Bar(2, None), Bar(3, m5), [Bar(3, m1) EXCEPT !.instrument = jpy],
   [Bar(4, m1) EXCEPT !.complete = Bad], [Bar(2, m1) EXCEPT !.high = 1],
   [Bar(9, m1) EXCEPT !.volume = 0, !.complete = FALSE]}

Lists(rows, n) == UNION {[1..m -> rows] : m \in 0..n}
Good(rows) == {[opens |-> TRUE, header |-> TRUE, column |-> TRUE, rows |-> l] : l \in rows}
Odd(row) ==
  {[opens |-> FALSE, header |-> TRUE, column |-> TRUE, rows |-> <<row>>],
   [opens |-> TRUE, header |-> FALSE, column |-> TRUE, rows |-> <<row>>],
   [opens |-> TRUE, header |-> TRUE, column |-> FALSE, rows |-> <<row>>]}
Rests(row, rows) == Odd(row) \cup Good(Lists(rows, 1))

SmallLists ==
  [k \in {"tick", "candle"} |->
     IF k = "tick"
     THEN {<<>>} \cup {<<f, g>> : f \in Good(Lists(TickRows, 3)),
                                  g \in Rests(Quote(5, 1, 1), TickRows \cup Oddities)}
     ELSE {<<f, g>> : f \in Good(Lists(CandleRows, 2)), g \in Rests(Bar(4, m1), CandleRows)}]
=============================================================================
